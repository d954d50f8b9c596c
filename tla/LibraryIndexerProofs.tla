------------------------ MODULE LibraryIndexerProofs ------------------------
(***************************************************************************)
(* Proofs about LibraryIndexer, for any number of asset versions,          *)
(* categories, calls and crashes: the types, the page a seed gets, the     *)
(* single canonical page of a category, and the real component that is     *)
(* never displaced from it.                                                *)
(***************************************************************************)
EXTENDS LibraryIndexer, FiniteSetTheorems, TLAPS

Busy == worker.pc \in {"gate", "component", "write"}

-----------------------------------------------------------------------------
(* Types and the queue. *)

\* A job that may still be started has an attempt left, it is pending while a
\* batch holds it and running while the worker is at it.
QueueIInv ==
    /\ \A c \in Call : status[c] \in {"none", "pending"} => attempts[c] < MaxAttempts
    /\ \A c \in Call : call[c] \in {"idle", "covered", "inserting"} => status[c] = "none"
    /\ \A c \in worker.batch : status[c] = "pending"
    /\ Busy => worker.job \in Call /\ status[worker.job] = "running"

QInv == TypeOK /\ QueueIInv

LEMMA QueueInit == Init => QInv
<1> SUFFICES ASSUME Init PROVE QInv
  OBVIOUS
<1>1. worker \in [pc : {"idle", "next", "gate", "component", "write"},
                  batch : SUBSET Call, job : Call \cup {"none"}, read : Component]
  BY DEF Init, Component
<1>2. TypeOK
  BY <1>1, IndexerAssumption DEF Init, TypeOK, Component, Html
<1>3. QueueIInv
  BY IndexerAssumption DEF Init, QueueIInv, Busy
<1> QED
  BY <1>2, <1>3 DEF QInv

LEMMA QueueStep == QInv /\ [Next]_vars => QInv'
<1> SUFFICES ASSUME QInv, [Next]_vars PROVE QInv'
  OBVIOUS
<1> USE IndexerAssumption
        DEF QInv, TypeOK, QueueIInv, Busy, queue, library, input, Return
<1>1. ASSUME NEW c \in Call, Look(c) PROVE QInv'
  BY <1>1 DEF Look
<1>2. ASSUME NEW c \in Call, Commit(c) PROVE QInv'
  BY <1>2 DEF Commit, Component
<1>3. ASSUME NEW c \in Call, Rollback(c) PROVE QInv'
  BY <1>3 DEF Rollback
<1>4. ASSUME NEW c \in Call, Score(c) PROVE QInv'
  BY <1>4 DEF Score
<1>5. CASE Tick
  <2>1. PICK batch \in SUBSET {c \in Call : status[c] = "pending"} :
           worker' = [worker EXCEPT !.pc = "next", !.batch = batch]
    BY <1>5 DEF Tick
  <2>2. worker' \in [pc : {"idle", "next", "gate", "component", "write"},
                     batch : SUBSET Call, job : Call \cup {"none"}, read : Component]
    BY <2>1
  <2>3. UNCHANGED <<input, queue, library, crashes>>
    BY <1>5 DEF Tick
  <2> QED
    BY <2>1, <2>2, <2>3
<1>6. ASSUME NEW c \in Call, Start(c) PROVE QInv'
  <2>1. status[c] = "pending" /\ attempts[c] < MaxAttempts
    BY <1>6 DEF Start
  <2>2. attempts[c] + 1 \in 0..MaxAttempts
    BY <2>1
  <2>3. attempts' \in [Call -> 0..MaxAttempts]
    BY <1>6, <2>2 DEF Start
  <2>4. worker' \in [pc : {"idle", "next", "gate", "component", "write"},
                     batch : SUBSET Call, job : Call \cup {"none"}, read : Component]
    BY <1>6 DEF Start
  <2>5. TypeOK'
    BY <1>6, <2>3, <2>4 DEF Start
  <2>6. \A d \in Call : d # c => attempts'[d] = attempts[d] /\ status'[d] = status[d]
    BY <1>6 DEF Start
  <2>7. status'[c] = "running" /\ call' = call /\ worker'.job = c
          /\ worker'.batch = worker.batch \ {c}
    BY <1>6 DEF Start, input
  <2>8. \A d \in Call : status'[d] \in {"none", "pending"} => attempts'[d] < MaxAttempts
    BY <2>6, <2>7
  <2>9. \A d \in Call : call'[d] \in {"idle", "covered", "inserting"} => status'[d] = "none"
    BY <2>1, <2>6, <2>7
  <2> QED
    BY <2>5, <2>6, <2>7, <2>8, <2>9
<1>7. ASSUME NEW c \in Call, Skip(c) PROVE QInv'
  <2>1. worker' \in [pc : {"idle", "next", "gate", "component", "write"},
                     batch : SUBSET Call, job : Call \cup {"none"}, read : Component]
    BY <1>7 DEF Skip, Component
  <2>2. status[c] = "running" /\ Busy
    BY <1>7 DEF Skip
  <2> QED
    BY <1>7, <2>1, <2>2 DEF Skip
<1>8. ASSUME NEW c \in Call, PassGate(c) PROVE QInv'
  BY <1>8 DEF PassGate
<1>9. ASSUME NEW c \in Call, ReadComponent(c) PROVE QInv'
  BY <1>9 DEF ReadComponent, Component
<1>10. ASSUME NEW c \in Call, Write(c) PROVE QInv'
  <2> DEFINE a == AssetOf[c]
  <2>1. \A k \in Category : Rendered(a, k) \in Html
    BY DEF Rendered, ComponentPage, TemplatePage, Html, Component
  <2>2. pages' \in [Asset -> [Category -> Html]]
    BY <1>10, <2>1 DEF Write
  <2>3. canonical' \subseteq Asset \X Category
    BY <1>10 DEF Write, ReconcileCanonical
  <2>4. worker' \in [pc : {"idle", "next", "gate", "component", "write"},
                     batch : SUBSET Call, job : Call \cup {"none"}, read : Component]
    BY <1>10 DEF Write, Component
  <2> QED
    BY <1>10, <2>2, <2>3, <2>4 DEF Write
<1>11. ASSUME NEW c \in Call, Raise(c) PROVE QInv'
  <2>1. worker' \in [pc : {"idle", "next", "gate", "component", "write"},
                     batch : SUBSET Call, job : Call \cup {"none"}, read : Component]
    BY <1>11 DEF Raise, Component
  <2>2. status[c] = "running" /\ Busy
    BY <1>11 DEF Raise
  <2>3. \/ status' = [status EXCEPT ![c] = "failed"]
        \/ attempts[c] < MaxAttempts /\ status' = [status EXCEPT ![c] = "pending"]
    <3>1. attempts[c] >= MaxAttempts \/ attempts[c] < MaxAttempts
      OBVIOUS
    <3>2. CASE attempts[c] >= MaxAttempts
      BY <1>11, <3>2 DEF Raise
    <3>3. CASE ~(attempts[c] >= MaxAttempts)
      BY <1>11, <3>1, <3>3 DEF Raise
    <3> QED
      BY <3>2, <3>3
  <2>4. TypeOK'
    BY <1>11, <2>1, <2>3 DEF Raise
  <2>5. UNCHANGED <<call, attempts>> /\ worker'.batch = worker.batch /\ worker'.pc = "next"
    BY <1>11 DEF Raise
  <2>6. \A d \in Call : d # c => status'[d] = status[d]
    BY <2>3
  <2>7. status'[c] = "failed" \/ (status'[c] = "pending" /\ attempts[c] < MaxAttempts)
    BY <2>3
  <2> QED
    BY <2>2, <2>4, <2>5, <2>6, <2>7
<1>12. CASE Finish
  BY <1>12 DEF Finish
<1>13. CASE Crash
  BY <1>13 DEF Crash, Component
<1>14. CASE UNCHANGED vars
  BY <1>14 DEF vars
<1> QED
  BY <1>1, <1>2, <1>3, <1>4, <1>5, <1>6, <1>7, <1>8, <1>9, <1>10, <1>11, <1>12,
     <1>13, <1>14 DEF Next, Enqueue, Drain

\* The type invariant, in which attempts stays within its budget.
THEOREM IndexerTypeCorrect == Spec => []TypeOK
<1>1. QInv => TypeOK
  BY DEF QInv
<1> QED
  BY QueueInit, QueueStep, <1>1, PTL DEF Spec

-----------------------------------------------------------------------------
(* The page of a seed. *)

\* The worker about to write the pages of a holds its current component, unless
\* a seed replaced it since: a seed whose job has not been started.
Reads(a, c) == worker.pc = "write" /\ AssetOf[worker.job] = a => worker.read = c

ShownIInv ==
    /\ \A c \in Seed : call[c] # "scored"
    /\ \A a \in Asset : component[a] # "none" =>
         AssetOf[component[a]] = a /\ call[component[a]] = "committed"
    /\ \A c \in Seed :
         /\ component[AssetOf[c]] = c
         /\ ClassOf[AssetOf[c]] # NoClass
         /\ status[c] \in {"running", "complete", "failed"}
         => Reads(AssetOf[c], c)
    /\ SeedIsShown

LEMMA ClassType ==
  \A c \in Call : /\ AssetOf[c] \in Asset
                  /\ ClassOf[AssetOf[c]] # NoClass => ClassOf[AssetOf[c]] \in Category
  BY IndexerAssumption

LEMMA ShownInit == Init => ShownIInv
  BY IndexerAssumption DEF Init, ShownIInv, SeedIsShown, Reads

LEMMA ShownStep == QInv /\ ShownIInv /\ [Next]_vars => ShownIInv'
<1> SUFFICES ASSUME QInv, ShownIInv, [Next]_vars PROVE ShownIInv'
  OBVIOUS
<1> USE IndexerAssumption
        DEF QInv, TypeOK, QueueIInv, Busy, ShownIInv, SeedIsShown, Reads, queue, library,
            input, Return
<1>1. ASSUME NEW c \in Call, Look(c) PROVE ShownIInv'
  BY <1>1 DEF Look, Component
<1>2. ASSUME NEW c \in Call, Commit(c) PROVE ShownIInv'
  <2>1. status[c] = "none" /\ status'[c] \in {"none", "pending"}
    BY <1>2 DEF Commit
  <2>2. \A d \in Call : d # c => status'[d] = status[d] /\ call'[d] = call[d]
    BY <1>2 DEF Commit
  <2>3. call'[c] = "committed" /\ UNCHANGED <<library, worker, skipped>>
    BY <1>2 DEF Commit
  <2>4. \A a \in Asset : \/ component'[a] = component[a]
                         \/ c \in Seed /\ component'[a] = c /\ AssetOf[c] = a
    BY <1>2 DEF Commit
  <2>5. \A d \in Seed : component'[AssetOf[d]] = d /\ d # c => component[AssetOf[d]] = d
    BY <2>4
  <2>6. \A a \in Asset : component'[a] # "none" =>
          AssetOf[component'[a]] = a /\ call'[component'[a]] = "committed"
    BY <2>2, <2>3, <2>4 DEF Component
  <2> QED
    BY <2>1, <2>2, <2>3, <2>5, <2>6
<1>3. ASSUME NEW c \in Call, Rollback(c) PROVE ShownIInv'
  BY <1>3 DEF Rollback, Component
<1>4. ASSUME NEW c \in Call, Score(c) PROVE ShownIInv'
  BY <1>4 DEF Score, Component
<1>5. CASE Tick
  BY <1>5 DEF Tick
<1>6. ASSUME NEW c \in Call, Start(c) PROVE ShownIInv'
  BY <1>6 DEF Start
<1>7. ASSUME NEW c \in Call, Skip(c) PROVE ShownIInv'
  BY <1>7 DEF Skip
<1>8. ASSUME NEW c \in Call, PassGate(c) PROVE ShownIInv'
  BY <1>8 DEF PassGate
<1>9. ASSUME NEW c \in Call, ReadComponent(c) PROVE ShownIInv'
  BY <1>9 DEF ReadComponent
<1>10. ASSUME NEW c \in Call, Write(c) PROVE ShownIInv'
  <2> DEFINE a == AssetOf[c]
  <2>1. UNCHANGED <<input, attempts>> /\ worker'.pc = "next"
    BY <1>10 DEF Write
  <2>2. /\ worker.pc = "write" /\ worker.job = c
        /\ skipped' = skipped \ {c}
        /\ status' = [status EXCEPT ![c] = "complete"]
        /\ status[c] = "running"
    BY <1>10 DEF Write
  <2>3. \A b \in Asset : b # a => pages'[b] = pages[b]
    BY <1>10 DEF Write
  <2>4. ASSUME NEW d \in Seed, component[AssetOf[d]] = d, status'[d] = "complete",
               d \notin skipped', ClassOf[AssetOf[d]] # NoClass
        PROVE  pages'[AssetOf[d]][ClassOf[AssetOf[d]]] = d
    <3>1. status[d] \in {"running", "complete"}
      BY <2>2, <2>4
    <3>2. CASE AssetOf[d] # a
      <4>1. d # c
        BY <3>2
      <4>2. status[d] = "complete" /\ d \notin skipped
        BY <2>2, <2>4, <4>1
      <4>3. pages[AssetOf[d]][ClassOf[AssetOf[d]]] = d
        BY <2>4, <4>2
      <4>4. AssetOf[d] \in Asset
        OBVIOUS
      <4> QED
        BY <2>3, <3>2, <4>3, <4>4
    <3>3. CASE AssetOf[d] = a
      <4>1. worker.read = d /\ d # "none" /\ ClassOf[a] \in Category
        <5>1. worker.read = d
          BY <2>2, <2>4, <3>1, <3>3
        <5>2. d # "none"
          OBVIOUS
        <5>3. ClassOf[AssetOf[d]] \in Category
          BY <2>4, ClassType
        <5> QED
          BY <3>3, <5>1, <5>2, <5>3
      <4>2. ClassOf[a] \in Composed(a) /\ Rendered(a, ClassOf[a]) = d
        BY <4>1 DEF Composed, Rendered, ComponentPage, TemplatePage
      <4>3. pages'[a][ClassOf[a]] = d
        BY <1>10, <4>1, <4>2 DEF Write
      <4> QED
        BY <3>3, <4>3
    <3> QED
      BY <3>2, <3>3
  <2> QED
    BY <2>1, <2>4
<1>11. ASSUME NEW c \in Call, Raise(c) PROVE ShownIInv'
  BY <1>11 DEF Raise
<1>12. CASE Finish
  BY <1>12 DEF Finish
<1>13. CASE Crash
  BY <1>13 DEF Crash
<1>14. CASE UNCHANGED vars
  BY <1>14 DEF vars
<1> QED
  BY <1>1, <1>2, <1>3, <1>4, <1>5, <1>6, <1>7, <1>8, <1>9, <1>10, <1>11, <1>12,
     <1>13, <1>14 DEF Next, Enqueue, Drain

\* Once its job completed, the seed that wrote the component is what is shown.
THEOREM SeedReachesItsPage == Spec => []SeedIsShown
<1>1. ShownIInv => SeedIsShown
  BY DEF ShownIInv
<1> QED
  BY QueueInit, QueueStep, ShownInit, ShownStep, <1>1, PTL DEF Spec

-----------------------------------------------------------------------------
(* The election of a canonical page. *)

\* A total preorder has a greatest element on every finite set that is not
\* empty: a set without one would have a smallest subset without one.
LEMMA GreatestExists ==
  ASSUME NEW S, IsFiniteSet(S), NEW R,
         \A x, y \in S : <<x, y>> \in R \/ <<y, x>> \in R,
         \A x, y, z \in S : <<x, y>> \in R /\ <<y, z>> \in R => <<x, z>> \in R
  PROVE  \A U \in SUBSET S : U # {} => \E x \in U : \A y \in U : <<x, y>> \in R
<1> DEFINE Headless == {U \in FiniteSubsetsOf(S) :
                          U # {} /\ ~\E x \in U : \A y \in U : <<x, y>> \in R}
<1>1. \A U \in SUBSET S : U \in FiniteSubsetsOf(S)
  BY FS_Subset DEF FiniteSubsetsOf
<1>2. SUFFICES ASSUME Headless # {} PROVE FALSE
  BY <1>1
<1>3. PICK U \in Headless :
        \A V \in Headless : <<V, U>> \notin StrictSubsetOrdering(S)
  <2>1. Headless \subseteq FiniteSubsetsOf(S)
    OBVIOUS
  <2> HIDE DEF Headless
  <2> QED
    BY <1>2, <2>1, WFMin, FS_StrictSubsetOrderingWellFounded
<1>4. U \subseteq S /\ U # {}
  BY DEF FiniteSubsetsOf
<1>5. PICK u \in U : TRUE
  BY <1>4
<1> DEFINE V == U \ {u}
<1>6. V \in FiniteSubsetsOf(S) /\ <<V, U>> \in StrictSubsetOrdering(S)
  BY <1>1, <1>4, <1>5 DEF StrictSubsetOrdering
<1>7. CASE V = {}
  <2>1. \A y \in U : y = u
    BY <1>7
  <2>2. \A y \in U : <<u, y>> \in R
    BY <1>4, <2>1
  <2> QED
    BY <1>5, <2>2
<1>8. CASE V # {}
  <2>1. V \notin Headless
    BY <1>3, <1>6
  <2>2. PICK v \in V : \A y \in V : <<v, y>> \in R
    BY <1>6, <1>8, <2>1
  <2>3. CASE <<v, u>> \in R
    BY <2>2, <2>3
  <2>4. CASE <<u, v>> \in R
    <3>1. \A y \in V : <<u, y>> \in R
      BY <1>4, <1>5, <2>2, <2>4
    <3>2. <<u, u>> \in R
      BY <1>4, <1>5
    <3> QED
      BY <1>5, <3>1, <3>2
  <2> QED
    BY <1>4, <1>5, <2>2, <2>3, <2>4
<1> QED
  BY <1>7, <1>8

\* Ranks orders the asset versions totally, in every state.
LEMMA RanksIsTotal ==
  ASSUME NEW k
  PROVE  /\ \A a, b \in Asset : Ranks(a, b, k) \/ Ranks(b, a, k)
         /\ \A a, b \in Asset : Ranks(a, b, k) /\ Ranks(b, a, k) => a = b
         /\ \A a, b, c \in Asset : Ranks(a, b, k) /\ Ranks(b, c, k) => Ranks(a, c, k)
<1>1. \A a \in Asset : FetchedAt[a] \in Nat /\ a \in Nat /\ Content(pages[a][k]) \in {0, 1, 2}
  <2>1. \A a \in Asset : FetchedAt[a] \in Nat /\ a \in Nat
    BY IndexerAssumption
  <2>2. \A a \in Asset : Content(pages[a][k]) \in {0, 1, 2}
    BY DEF Content
  <2> QED
    BY <2>1, <2>2
<1> QED
  BY <1>1 DEF Ranks

LEMMA BestExists ==
  ASSUME NEW k, \E a \in Asset : HasPage(a, k)
  PROVE  \E a \in Asset : Best(a, k) /\ (\A b \in Asset : Best(b, k) => b = a)
<1> DEFINE R == {x \in Asset \X Asset : Ranks(x[1], x[2], k)}
           U == {a \in Asset : HasPage(a, k)}
<1>1. \A a, b \in Asset : <<a, b>> \in R <=> Ranks(a, b, k)
  OBVIOUS
<1>2. /\ \A a, b \in Asset : <<a, b>> \in R \/ <<b, a>> \in R
      /\ \A a, b, c \in Asset : <<a, b>> \in R /\ <<b, c>> \in R => <<a, c>> \in R
  BY <1>1, RanksIsTotal
<1>3. PICK a \in U : \A b \in U : <<a, b>> \in R
  <2>1. U # {} /\ U \in SUBSET Asset /\ IsFiniteSet(Asset)
    BY IndexerAssumption
  <2> HIDE DEF R, U
  <2> QED
    BY <1>2, <2>1, GreatestExists
<1>4. Best(a, k)
  BY <1>1, <1>3 DEF Best
<1>5. \A b \in Asset : Best(b, k) => b = a
  BY <1>4, RanksIsTotal DEF Best
<1> QED
  BY <1>4, <1>5

LEMMA BestAlways ==
  \A k \in Category : (\E a \in Asset : HasPage(a, k)) => \E a \in Asset : Best(a, k)
  BY BestExists

LEMMA BestNext ==
  (\A k \in Category : (\E a \in Asset : HasPage(a, k)) => \E a \in Asset : Best(a, k))'
  BY BestAlways, PTL

\* A page has a component only in its asset version's class, which that asset
\* version then keeps; the flags are those of the last election.
PageIInv ==
    /\ \A a \in Asset, k \in Category : pages[a][k] \in Seed =>
         /\ k = ClassOf[a] /\ component[a] # "none"
         /\ worker.pc = "write" /\ AssetOf[worker.job] = a => worker.read # "none"
    /\ worker.pc = "write" /\ worker.read # "none" =>
         component[AssetOf[worker.job]] # "none"
    /\ canonical = {x \in Asset \X Category : Best(x[1], x[2])}

LEMMA PageInit == Init => PageIInv
<1> SUFFICES ASSUME Init PROVE PageIInv
  OBVIOUS
<1>1. \A a \in Asset, k \in Category : pages[a][k] = "none" /\ "none" \notin Seed
  BY IndexerAssumption DEF Init
<1>2. \A x \in Asset \X Category : ~Best(x[1], x[2])
  BY <1>1 DEF Best, HasPage
<1> QED
  BY <1>1, <1>2 DEF PageIInv, Init

LEMMA PageStep == QInv /\ PageIInv /\ [Next]_vars => PageIInv'
<1> SUFFICES ASSUME QInv, PageIInv, [Next]_vars PROVE PageIInv'
  OBVIOUS
<1> USE IndexerAssumption
        DEF QInv, TypeOK, QueueIInv, Busy, PageIInv, queue, library, input, Return
\* Steps that leave the pages alone, and take no component away.
<1>a. ASSUME UNCHANGED library, UNCHANGED worker \/ worker'.pc # "write",
             \A a \in Asset : component[a] # "none" => component'[a] # "none"
      PROVE  PageIInv'
  <2>1. canonical' = {x \in Asset \X Category : Best(x[1], x[2])'}
    BY <1>a DEF Best, HasPage, Ranks
  <2>2. ASSUME NEW a \in Asset, NEW k \in Category, pages'[a][k] \in Seed
        PROVE  /\ k = ClassOf[a] /\ component'[a] # "none"
               /\ worker'.pc = "write" /\ AssetOf[worker'.job] = a => worker'.read # "none"
    BY <1>a, <2>2
  <2>3. ASSUME worker'.pc = "write", worker'.read # "none"
        PROVE  component'[AssetOf[worker'.job]] # "none"
    BY <1>a, <2>3, ClassType
  <2> QED
    BY <2>1, <2>2, <2>3
<1>1. ASSUME NEW c \in Call, Look(c) \/ Rollback(c) \/ Score(c) PROVE PageIInv'
  BY <1>1, <1>a DEF Look, Rollback, Score
<1>2. ASSUME NEW c \in Call, Commit(c) PROVE PageIInv'
  <2>1. \A a \in Asset : component[a] # "none" => component'[a] # "none"
    BY <1>2 DEF Commit
  <2> QED
    BY <1>2, <1>a, <2>1 DEF Commit
<1>3. CASE Tick
  BY <1>3, <1>a DEF Tick
<1>4. ASSUME NEW c \in Call, Start(c) \/ Skip(c) \/ PassGate(c) \/ Raise(c) PROVE PageIInv'
  <2>1. UNCHANGED <<library, component>> /\ worker'.pc # "write"
    <3>1. ASSUME Start(c) PROVE UNCHANGED <<library, component>> /\ worker'.pc = "gate"
      BY <3>1 DEF Start
    <3>2. ASSUME Skip(c) PROVE UNCHANGED <<library, component>> /\ worker'.pc = "next"
      BY <3>2 DEF Skip
    <3>3. ASSUME PassGate(c)
          PROVE  UNCHANGED <<library, component>> /\ worker'.pc = "component"
      BY <3>3 DEF PassGate
    <3>4. ASSUME Raise(c) PROVE UNCHANGED <<library, component>> /\ worker'.pc = "next"
      BY <3>4 DEF Raise
    <3> QED
      BY <1>4, <3>1, <3>2, <3>3, <3>4
  <2> QED
    BY <1>a, <2>1
<1>5. ASSUME NEW c \in Call, ReadComponent(c) PROVE PageIInv'
  <2>1. /\ UNCHANGED <<library, component>>
        /\ worker'.job = c
        /\ ClassOf[AssetOf[c]] # NoClass => worker'.read = component[AssetOf[c]]
        /\ ClassOf[AssetOf[c]] = NoClass => worker'.read = "none"
    BY <1>5 DEF ReadComponent
  <2>2. canonical' = {x \in Asset \X Category : Best(x[1], x[2])'}
    BY <2>1 DEF Best, HasPage, Ranks
  <2>3. ASSUME NEW a \in Asset, NEW k \in Category, pages[a][k] \in Seed, AssetOf[c] = a
        PROVE  worker'.read # "none"
    <3>1. k = ClassOf[a] /\ component[a] # "none"
      BY <2>3
    <3>2. ClassOf[a] # NoClass
      BY <3>1
    <3> QED
      BY <2>1, <2>3, <3>1, <3>2
  <2> QED
    BY <2>1, <2>2, <2>3
<1>6. ASSUME NEW c \in Call, Write(c) PROVE PageIInv'
  <2> DEFINE a == AssetOf[c]
  <2>1. worker'.pc = "next" /\ component' = component
    BY <1>6 DEF Write
  <2>2. canonical' = {x \in Asset \X Category : Best(x[1], x[2])'}
    BY <1>6 DEF Write, ReconcileCanonical
  <2>3. ASSUME NEW b \in Asset, NEW k \in Category, pages'[b][k] \in Seed
        PROVE  k = ClassOf[b] /\ component[b] # "none"
    <3>1. CASE b # a \/ k \notin Composed(a)
      <4>1. pages'[b][k] = pages[b][k]
        BY <1>6, <3>1 DEF Write
      <4> QED
        BY <2>3, <4>1
    <3>2. CASE b = a /\ k \in Composed(a)
      <4>1. pages'[a][k] = Rendered(a, k)
        BY <1>6, <3>2 DEF Write
      <4>2. k = ClassOf[a] /\ worker.read # "none"
        BY <2>3, <3>2, <4>1 DEF Rendered, ComponentPage, TemplatePage
      <4> QED
        BY <1>6, <3>2, <4>2 DEF Write
    <3> QED
      BY <3>1, <3>2
  <2> QED
    BY <2>1, <2>2, <2>3
<1>7. CASE Finish
  BY <1>7, <1>a DEF Finish
<1>8. CASE Crash
  BY <1>8, <1>a DEF Crash
<1>9. CASE UNCHANGED vars
  BY <1>9, <1>a DEF vars
<1> QED
  BY <1>1, <1>2, <1>3, <1>4, <1>5, <1>6, <1>7, <1>8, <1>9 DEF Next, Enqueue, Drain

LEMMA PageAlways == Spec => [](QInv /\ PageIInv)
  BY QueueInit, QueueStep, PageInit, PageStep, PTL DEF Spec

\* Every category with a page has exactly one canonical page, the best.
THEOREM OneCanonicalPage == Spec => []OnePublicPage
<1>1. ASSUME PageIInv PROVE OnePublicPage
  <2> SUFFICES ASSUME NEW k \in Category
               PROVE  LET shown == {a \in Asset : <<a, k>> \in canonical} IN
                      /\ \A a \in shown, b \in Asset : HasPage(b, k) => Ranks(a, b, k)
                      /\ Cardinality(shown) =
                           IF \E a \in Asset : HasPage(a, k) THEN 1 ELSE 0
    BY DEF OnePublicPage
  <2> DEFINE shown == {a \in Asset : <<a, k>> \in canonical}
  <2>1. \A a \in Asset : a \in shown <=> Best(a, k)
    BY <1>1 DEF PageIInv
  <2>2. \A a \in shown, b \in Asset : HasPage(b, k) => Ranks(a, b, k)
    BY <2>1 DEF Best
  <2>3. CASE \E a \in Asset : HasPage(a, k)
    <3>1. PICK a \in Asset : Best(a, k) /\ (\A b \in Asset : Best(b, k) => b = a)
      BY <2>3, BestExists
    <3>2. shown = {a}
      BY <2>1, <3>1
    <3>3. Cardinality(shown) = 1
      BY <3>2, FS_Singleton
    <3> QED
      BY <2>2, <2>3, <3>3
  <2>4. CASE ~\E a \in Asset : HasPage(a, k)
    <3>1. shown = {}
      BY <2>1, <2>4 DEF Best
    <3>2. Cardinality(shown) = 0
      BY <3>1, FS_EmptySet
    <3> QED
      BY <2>2, <2>4, <3>2
  <2> QED
    BY <2>3, <2>4
<1> QED
  BY <1>1, PageAlways, PTL

\* No step takes a real component off the public page of a category.
THEOREM ComponentStaysPublic == Spec => NeverBlanked
<1>1. ASSUME QInv, PageIInv, PageIInv', [Next]_vars, NEW k \in Category, ShowsComponent(k)
      PROVE  ShowsComponent(k)'
  <2>1. PICK a \in Asset : <<a, k>> \in canonical /\ pages[a][k] \in Seed
    BY <1>1 DEF ShowsComponent
  <2>2. SUFFICES ASSUME ~UNCHANGED library PROVE ShowsComponent(k)'
    BY <2>1 DEF ShowsComponent, library
  <2>3. PICK c \in Call : Write(c)
    BY <1>1, <2>2 DEF Next, Enqueue, Drain, Look, Commit, Rollback, Score, Tick, Start,
       Skip, PassGate, ReadComponent, Raise, Finish, Crash, vars, input
  <2>4. pages'[a][k] \in Seed
    <3>1. CASE a # AssetOf[c] \/ k \notin Composed(a)
      <4>1. pages'[a][k] = pages[a][k]
        BY <1>1, <2>3, <3>1 DEF Write, QInv, TypeOK
      <4> QED
        BY <2>1, <4>1
    <3>2. CASE a = AssetOf[c] /\ k \in Composed(a)
      <4>1. pages'[a][k] = Rendered(a, k)
        BY <1>1, <2>3, <3>2 DEF Write, QInv, TypeOK
      <4>2. k = ClassOf[a] /\ worker.read # "none"
        BY <1>1, <2>1, <2>3, <3>2 DEF PageIInv, Write
      <4>3. worker.read \in Seed
        BY <1>1, <4>2 DEF QInv, TypeOK, Component
      <4> QED
        BY <4>1, <4>2, <4>3 DEF Rendered, ComponentPage, TemplatePage
    <3> QED
      BY <3>1, <3>2
  <2>5. HasPage(a, k)'
    BY <2>4, IndexerAssumption DEF HasPage
  <2>6. PICK w \in Asset : Best(w, k)'
    BY <2>5, BestNext
  <2>7. <<w, k>> \in canonical'
    BY <1>1, <2>6 DEF PageIInv
  <2>8. pages'[w][k] \in Seed
    <3>1. Ranks(w, a, k)'
      BY <2>5, <2>6 DEF Best
    <3>2. Content(pages'[a][k]) = 2 /\ Content(pages'[w][k]) \in {0, 1, 2}
      BY <2>4 DEF Content
    <3>3. Content(pages'[w][k]) = 2
      BY <3>1, <3>2 DEF Ranks
    <3> QED
      BY <3>3 DEF Content
  <2> QED
    BY <2>7, <2>8 DEF ShowsComponent
<1>2. QInv /\ PageIInv /\ (QInv /\ PageIInv)' /\ [Next]_vars =>
        [\A k \in Category : ShowsComponent(k) => ShowsComponent(k)']_vars
  BY <1>1
<1> QED
  BY <1>2, PageAlways, PTL DEF Spec, NeverBlanked
=============================================================================
