--------------------------- MODULE PipelineProofs ---------------------------
(***************************************************************************)
(* Proofs about ExtractionPipeline for any number of threads, requests and *)
(* sites.  The environment is put back; a failure is refunded exactly when *)
(* the site is not to blame; an extraction of defaults is refunded; a      *)
(* large colour nothing declares is in the prompt, and a root property in  *)
(* it has the value last declared; every token has a name of its own in    *)
(* the files it is exported to; and a shadcn theme can be read.            *)
(*                                                                         *)
(* The last five rest on what the operators of the pipeline compute: the   *)
(* names, the sums over pixels and scores, the fold over the declarations  *)
(* of a page, the orders of the palette.  A set of numbers closed under    *)
(* successor holds them all (NatSet): that takes the place of induction    *)
(* over a predicate.                                                       *)
(***************************************************************************)
EXTENDS ExtractionPipeline, FiniteSetTheorems, SequenceTheorems, WellFoundedInduction, TLAPS

Stage == Inside \union {"idle", "bundle", "save", "score", "fail", "done"}
SitePrefix == {"invalid url", "unreachable", "recon failed", "fetch failed"}
ModelPrefix == {"anthropic failed", "model JSON parse failed"}

Types ==
    /\ env \in BOOLEAN
    /\ pc \in [Worker -> Stage]
    /\ held \in [Worker -> BOOLEAN]
    /\ cause \in [Worker -> {None, "site", "model", "store", "escaped"}]
    /\ DOMAIN msg = Worker /\ DOMAIN row = Worker

\* The URL is in one place: the environment or one thread's "previous".
OnePlace ==
    /\ env => \A w \in Worker : ~held[w]
    /\ \A v, w \in Worker : held[v] /\ held[w] => v = w
    /\ Configured <=> (env \/ \E w \in Worker : held[w])
    /\ \A w \in Worker : held[w] => pc[w] \in Inside

SaysSite(w) == cause[w] = "site" /\ \E p \in SitePrefix : \E s : msg[w] = Message(p, s)
SaysModel(w) == cause[w] = "model" /\ \E p \in ModelPrefix : msg[w] = Message(p, 0)
SaysStore(w) == cause[w] = "store" /\ msg[w].insert_failed
Silent(w) == cause[w] = None /\ msg[w] = NoError
Escaped(w) == cause[w] = "escaped"

\* What a thread says went wrong, at each stage.
Story(w) ==
    /\ pc[w] \in {"idle", "probe", "recon", "fetch", "gather", "ask"} => Silent(w)
    /\ pc[w] = "persist" => Silent(w) \/ SaysSite(w) \/ SaysModel(w)
    /\ pc[w] = "leave" =>
          Silent(w) \/ SaysSite(w) \/ SaysModel(w) \/ SaysStore(w) \/ Escaped(w)
    /\ pc[w] = "fail" => SaysSite(w) \/ SaysModel(w) \/ SaysStore(w) \/ Escaped(w)

Outcome(w) ==
    /\ "status" \in DOMAIN row[w]
    /\ row[w].status = "failed" => pc[w] = "done" /\ (row[w].refunded <=> cause[w] # "site")

EnvInv == Types /\ OnePlace
CauseInv == Types /\ \A w \in Worker : Story(w) /\ Outcome(w)

-----------------------------------------------------------------------------
(* The environment                                                         *)

LEMMA TypesInit == Init => Types
BY PipelineAssumption DEF Init, Types, Stage, Inside

\* No step leaves the types.
LEMMA TypesStep == Types /\ [Next]_vars => Types'
<1> SUFFICES ASSUME Types, [Next]_vars PROVE Types'
  OBVIOUS
<1> USE DEF Types, Stage, Inside, Goto, GiveUp
<1>1. ASSUME NEW w \in Worker, Survey(w) \/ Enter(w) \/ ProbeSite(w) \/ ReconSite(w)
                               \/ FetchPage(w) \/ Gather(w) PROVE Types'
  <2>1. CASE Survey(w) BY <2>1 DEF Survey
  <2>2. CASE Enter(w) BY <2>2 DEF Enter
  <2>3. CASE ProbeSite(w) BY <2>3 DEF ProbeSite
  <2>4. CASE ReconSite(w) BY <2>4 DEF ReconSite
  <2>5. CASE FetchPage(w) BY <2>5 DEF FetchPage
  <2>6. CASE Gather(w) BY <2>6 DEF Gather
  <2> QED BY <1>1, <2>1, <2>2, <2>3, <2>4, <2>5, <2>6
<1>2. ASSUME NEW w \in Worker, AskModel(w) \/ Persist(w) \/ Leave(w) \/ Fail(w)
                               \/ Bundle(w) \/ Save(w) \/ Score(w) PROVE Types'
  <2>1. CASE AskModel(w) BY <2>1 DEF AskModel
  <2>2. CASE Persist(w) BY <2>2 DEF Persist
  <2>3. CASE Leave(w) BY <2>3 DEF Leave
  <2>4. CASE Fail(w) BY <2>4 DEF Fail
  <2>5. CASE Bundle(w) BY <2>5 DEF Bundle
  <2>6. CASE Save(w) BY <2>6 DEF Save
  <2>7. CASE Score(w) BY <2>7 DEF Score
  <2> QED BY <1>2, <2>1, <2>2, <2>3, <2>4, <2>5, <2>6, <2>7
<1>3. ASSUME NEW w \in Worker, Export(w) \/ ExportAnonymous(w) \/ ConvertTo(w) PROVE Types'
  BY <1>3 DEF Export, ExportAnonymous, ConvertTo, Answered
<1>4. CASE UNCHANGED vars BY <1>4 DEF vars
<1> QED BY <1>1, <1>2, <1>3, <1>4 DEF Next

\* A step that leaves the environment alone and moves one thread, within the
\* extractor or outside of it, keeps the URL in its one place.
LEMMA QuietStep ==
  ASSUME EnvInv, NEW w \in Worker, UNCHANGED <<env, held>>, NEW there,
         pc' = [pc EXCEPT ![w] = there], held[w] => there \in Inside
  PROVE  OnePlace'
BY DEF EnvInv, Types, OnePlace

LEMMA EnvStep == EnvInv /\ [Next]_vars => EnvInv'
<1> SUFFICES ASSUME EnvInv, [Next]_vars PROVE OnePlace'
  BY TypesStep DEF EnvInv
<1> USE DEF Goto, GiveUp
<1>1. ASSUME NEW w \in Worker, Enter(w) PROVE OnePlace'
  <2>1. /\ pc[w] = "idle" /\ env' = FALSE
        /\ held' = [held EXCEPT ![w] = env] /\ pc' = [pc EXCEPT ![w] = "probe"]
    BY <1>1 DEF Enter
  <2>2. ~held[w] BY <2>1 DEF EnvInv, OnePlace, Inside
  <2> QED BY <2>1, <2>2 DEF EnvInv, Types, OnePlace, Inside
<1>2. ASSUME NEW w \in Worker, Leave(w) PROVE OnePlace'
  <2>1. /\ env' = (held[w] \/ env) /\ held' = [held EXCEPT ![w] = FALSE]
        /\ \E there : pc' = [pc EXCEPT ![w] = there]
    BY <1>2 DEF Leave
  <2> QED BY <2>1 DEF EnvInv, Types, OnePlace
<1>3. ASSUME NEW w \in Worker, ProbeSite(w) \/ ReconSite(w) \/ FetchPage(w) \/ Gather(w)
                               \/ AskModel(w) \/ Persist(w) PROVE OnePlace'
  <2>1. UNCHANGED <<env, held>> /\ \E there \in Inside : pc' = [pc EXCEPT ![w] = there]
    BY <1>3 DEF ProbeSite, ReconSite, FetchPage, Gather, AskModel, Persist, Inside
  <2> QED BY <2>1, QuietStep
<1>4. ASSUME NEW w \in Worker, Survey(w) \/ Fail(w) \/ Bundle(w) \/ Save(w) \/ Score(w)
      PROVE OnePlace'
  <2>1. /\ UNCHANGED <<env, held>> /\ pc[w] \notin Inside
        /\ \E there : pc' = [pc EXCEPT ![w] = there]
    BY <1>4 DEF Survey, Fail, Bundle, Save, Score, Inside
  <2>2. ~held[w] BY <2>1 DEF EnvInv, OnePlace
  <2> QED BY <2>1, <2>2, QuietStep
<1>5. ASSUME NEW w \in Worker, Export(w) \/ ExportAnonymous(w) \/ ConvertTo(w)
      PROVE OnePlace'
  <2>1. UNCHANGED <<env, pc, held>>
    BY <1>5 DEF Export, ExportAnonymous, ConvertTo, Answered
  <2> QED BY <2>1 DEF EnvInv, OnePlace
<1>6. CASE UNCHANGED vars BY <1>6 DEF vars, EnvInv, OnePlace
<1> QED BY <1>1, <1>2, <1>3, <1>4, <1>5, <1>6 DEF Next

\* The environment is as it was configured whenever no thread is inside the
\* extractor, for any number of threads (extractor_bridge.py).
THEOREM EnvironmentIsKept == Spec => []EnvironmentKept
<1>1. Init => EnvInv
  BY TypesInit, PipelineAssumption DEF Init, EnvInv, OnePlace
<1>2. EnvInv => EnvironmentKept
  BY PipelineAssumption DEF EnvInv, Types, OnePlace, EnvironmentKept
<1> QED BY <1>1, <1>2, EnvStep, PTL DEF Spec
-----------------------------------------------------------------------------
(* Whose failure it was                                                    *)

\* What the messages of the extractor are read as (failure_modes.py).
LEMMA SiteIsCharged ==
  ASSUME NEW p \in SitePrefix, NEW s
  PROVE  ClassifyExtractorError(Message(p, s)) \notin RefundableCodes
BY DEF SitePrefix, Message, ClassifyExtractorError, RefundableCodes

LEMMA ModelIsRefunded ==
  ASSUME NEW p \in ModelPrefix
  PROVE  ClassifyExtractorError(Message(p, 0)) \in RefundableCodes
BY DEF ModelPrefix, Message, ClassifyExtractorError, RefundableCodes

LEMMA StoreIsRefunded ==
  ASSUME NEW m, m.insert_failed
  PROVE  ClassifyExtractorError(m) \in RefundableCodes
BY DEF ClassifyExtractorError, RefundableCodes

\* A step of one thread that leaves the rows alone and keeps its story.
LEMMA StoryStep ==
  ASSUME CauseInv, Types', NEW w \in Worker, UNCHANGED row, pc[w] # "done",
         \A v \in Worker \ {w} : pc'[v] = pc[v] /\ cause'[v] = cause[v] /\ msg'[v] = msg[v],
         Story(w)'
  PROVE  CauseInv'
<1>1. ASSUME NEW v \in Worker PROVE Story(v)'
  BY <1>1 DEF CauseInv, Story, Silent, SaysSite, SaysModel, SaysStore, Escaped
<1>2. ASSUME NEW v \in Worker PROVE Outcome(v)'
  BY <1>2 DEF CauseInv, Outcome
<1> QED BY <1>1, <1>2 DEF CauseInv

LEMMA CauseStep == CauseInv /\ [Next]_vars => CauseInv'
<1> SUFFICES ASSUME CauseInv, [Next]_vars PROVE CauseInv'
  OBVIOUS
<1>0. Types' BY TypesStep DEF CauseInv
<1> USE DEF Goto, GiveUp
<1>1. ASSUME NEW w \in Worker, Survey(w) \/ Enter(w) \/ Gather(w) PROVE CauseInv'
  <2>1. /\ UNCHANGED <<msg, cause, row>> /\ Silent(w) /\ pc[w] # "done"
        /\ \E there \in {"probe", "ask", "done"} : pc' = [pc EXCEPT ![w] = there]
    BY <1>1 DEF Survey, Enter, Gather, CauseInv, Story
  <2>2. Story(w)' BY <2>1 DEF Story, Silent, CauseInv, Types
  <2> QED BY <1>0, <2>1, <2>2, StoryStep DEF CauseInv, Types
<1>2. ASSUME NEW w \in Worker, ProbeSite(w) \/ ReconSite(w) \/ FetchPage(w) PROVE CauseInv'
  <2>1. /\ UNCHANGED row /\ Silent(w) /\ pc[w] # "done"
        /\ \/ /\ \E there \in {"recon", "fetch", "gather"} : pc' = [pc EXCEPT ![w] = there]
              /\ UNCHANGED <<msg, cause>>
           \/ /\ pc' = [pc EXCEPT ![w] = "leave"] /\ UNCHANGED msg
              /\ cause' = [cause EXCEPT ![w] = "escaped"]
           \/ /\ pc' = [pc EXCEPT ![w] = "persist"]
              /\ cause' = [cause EXCEPT ![w] = "site"]
              /\ \E p \in SitePrefix : \E s : msg' = [msg EXCEPT ![w] = Message(p, s)]
    BY <1>2 DEF ProbeSite, ReconSite, FetchPage, CauseInv, Story, SitePrefix
  <2>2. Story(w)'
    BY <2>1 DEF Story, Silent, SaysSite, Escaped, CauseInv, Types
  <2> QED BY <1>0, <2>1, <2>2, StoryStep DEF CauseInv, Types
<1>3. ASSUME NEW w \in Worker, AskModel(w) PROVE CauseInv'
  <2>1. /\ UNCHANGED row /\ Silent(w) /\ pc[w] # "done"
        /\ pc' = [pc EXCEPT ![w] = "persist"]
        /\ \/ UNCHANGED <<msg, cause>>
           \/ /\ cause' = [cause EXCEPT ![w] = "model"]
              /\ \E p \in ModelPrefix : msg' = [msg EXCEPT ![w] = Message(p, 0)]
    BY <1>3 DEF AskModel, CauseInv, Story, ModelPrefix
  <2>2. Story(w)' BY <2>1 DEF Story, Silent, SaysModel, CauseInv, Types
  <2> QED BY <1>0, <2>1, <2>2, StoryStep DEF CauseInv, Types
<1>4. ASSUME NEW w \in Worker, Persist(w) PROVE CauseInv'
  <2>1. /\ UNCHANGED row /\ pc[w] = "persist" /\ pc' = [pc EXCEPT ![w] = "leave"]
        /\ Silent(w) \/ SaysSite(w) \/ SaysModel(w)
    BY <1>4 DEF Persist, CauseInv, Story
  <2>2. Story(w)'
    <3>1. CASE UNCHANGED <<msg, cause>>
      BY <2>1, <3>1 DEF Story, Silent, SaysSite, SaysModel, CauseInv, Types
    <3>2. CASE cause' = [cause EXCEPT ![w] = "store"] /\ msg'[w].insert_failed
      BY <2>1, <3>2 DEF Story, SaysStore, CauseInv, Types
    <3>3. \/ UNCHANGED <<msg, cause>>
          \/ /\ cause' = [cause EXCEPT ![w] = "store"]
             /\ msg'[w] = IF msg[w] = NoError THEN InsertFailed
                          ELSE [msg[w] EXCEPT !.insert_failed = TRUE]
      BY <1>4 DEF Persist, CauseInv, Types
    <3>4. "insert_failed" \in DOMAIN msg[w]
      <4>1. \A p, s : "insert_failed" \in DOMAIN Message(p, s)
        BY DEF Message
      <4> QED BY <2>1, <4>1 DEF Silent, SaysSite, SaysModel, NoError
    <3>5. InsertFailed.insert_failed
      BY DEF InsertFailed, Message
    <3> QED BY <3>1, <3>2, <3>3, <3>4, <3>5
  <2> QED BY <1>0, <1>4, <2>1, <2>2, StoryStep DEF Persist, CauseInv, Types
<1>5. ASSUME NEW w \in Worker, Leave(w) PROVE CauseInv'
  <2>1. /\ UNCHANGED <<msg, cause, row>> /\ pc[w] = "leave"
        /\ pc' = [pc EXCEPT ![w] = IF cause[w] = None THEN "bundle" ELSE "fail"]
    BY <1>5 DEF Leave
  <2>2. Story(w)'
    BY <2>1, PipelineAssumption
       DEF Story, Silent, SaysSite, SaysModel, SaysStore, Escaped, CauseInv, Types
  <2> QED BY <1>0, <2>1, <2>2, StoryStep DEF CauseInv, Types
<1>6. ASSUME NEW w \in Worker, Bundle(w) PROVE CauseInv'
  <2>1. /\ UNCHANGED <<msg, row>> /\ pc[w] = "bundle"
        /\ \/ pc' = [pc EXCEPT ![w] = "save"] /\ UNCHANGED cause
           \/ pc' = [pc EXCEPT ![w] = "fail"] /\ cause' = [cause EXCEPT ![w] = "escaped"]
    BY <1>6 DEF Bundle
  <2>2. Story(w)' BY <2>1 DEF Story, Escaped, CauseInv, Types
  <2> QED BY <1>0, <2>1, <2>2, StoryStep DEF CauseInv, Types
<1>7. ASSUME NEW w \in Worker, Fail(w) \/ Save(w) \/ Score(w) PROVE CauseInv'
  <2>1. /\ UNCHANGED <<msg, cause>>
        /\ \E there \in {"done", "score"} : pc' = [pc EXCEPT ![w] = there]
        /\ \A v \in Worker \ {w} : row'[v] = row[v]
        /\ pc[w] # "done"
    BY <1>7 DEF Fail, Save, Score, CauseInv, Types
  <2>2. \A v \in Worker : Story(v)'
    BY <2>1 DEF Story, Silent, SaysSite, SaysModel, SaysStore, Escaped, CauseInv, Types
  <2>3. \A v \in Worker \ {w} : Outcome(v)'
    BY <2>1 DEF Outcome, CauseInv, Types
  <2>4. Outcome(w)'
    <3>1. CASE Fail(w)
      <4> DEFINE code == IF cause[w] = "escaped" THEN "PERSIST_ERROR"
                         ELSE ClassifyExtractorError(msg[w])
      <4>1. /\ pc[w] = "fail" /\ pc' = [pc EXCEPT ![w] = "done"] /\ cause' = cause
            /\ row' = [row EXCEPT ![w] = [NoRow EXCEPT !.status = "failed", !.code = code,
                                          !.refunded = code \in RefundableCodes]]
        BY <3>1 DEF Fail
      <4>2. code \in RefundableCodes <=> cause[w] # "site"
        <5>1. SaysSite(w) \/ SaysModel(w) \/ SaysStore(w) \/ Escaped(w)
          BY <4>1 DEF CauseInv, Story
        <5>2. CASE SaysSite(w) BY <5>2, SiteIsCharged DEF SaysSite
        <5>3. CASE SaysModel(w) BY <5>3, ModelIsRefunded DEF SaysModel
        <5>4. CASE SaysStore(w) BY <5>4, StoreIsRefunded DEF SaysStore
        <5>5. CASE Escaped(w) BY <5>5 DEF Escaped, RefundableCodes
        <5> QED BY <5>1, <5>2, <5>3, <5>4, <5>5
      <4> HIDE DEF code
      <4> QED BY <4>1, <4>2 DEF Outcome, NoRow, CauseInv, Types
    <3>2. CASE Save(w) BY <3>2 DEF Save, Outcome, NoRow, CauseInv, Types
    <3>3. CASE Score(w)
      <4>1. row'[w].status \in {"ok", "low_quality"} /\ "status" \in DOMAIN row'[w]
        BY <3>3 DEF Score, Outcome, CauseInv, Types
      <4> QED BY <4>1 DEF Outcome
    <3> QED BY <1>7, <3>1, <3>2, <3>3
  <2> QED BY <1>0, <2>2, <2>3, <2>4 DEF CauseInv
<1>8. ASSUME NEW w \in Worker, Export(w) \/ ExportAnonymous(w) \/ ConvertTo(w)
      PROVE CauseInv'
  <2>1. UNCHANGED <<pc, msg, cause, row>>
    BY <1>8 DEF Export, ExportAnonymous, ConvertTo, Answered
  <2> QED BY <1>0, <2>1
          DEF CauseInv, Story, Silent, SaysSite, SaysModel, SaysStore, Escaped, Outcome
<1>9. CASE UNCHANGED vars
  BY <1>0, <1>9
     DEF vars, CauseInv, Story, Silent, SaysSite, SaysModel, SaysStore, Escaped, Outcome
<1> QED BY <1>1, <1>2, <1>3, <1>4, <1>5, <1>6, <1>7, <1>8, <1>9 DEF Next

\* A failed extraction is refunded exactly when the site is not to blame,
\* whatever sites, models and stores do (failure_modes.py, codex_extractor.py).
THEOREM RefundsMatchCauses == Spec => []FailureMatchesCause
<1>1. Init => CauseInv
  BY TypesInit DEF Init, CauseInv, Story, Silent, Outcome, NoRow
<1>2. CauseInv => FailureMatchesCause
  BY DEF CauseInv, Outcome, FailureMatchesCause
<1> QED BY <1>1, <1>2, CauseStep, PTL DEF Spec

-----------------------------------------------------------------------------
(* Token sets, and finite sets of what is made from them                   *)

\* A token set whose names are finitely many keys and whose colours are read.
Readable(t) ==
    /\ IsFiniteSet(DOMAIN t) /\ DOMAIN t \subseteq Seq(STRING)
    /\ \A k \in DOMAIN t : t[k].hex \in HexColors

\* What coerce_token_set() keeps of an answer can be read.
LEMMA CoercedIsReadable ==
    ASSUME NEW r \in Request
    PROVE  Readable(CoerceTokenSet(What[r].answer))
<1> DEFINE answer == What[r].answer
           known == {x \in DOMAIN answer : x \in AllowedKeys /\ answer[x].kind \notin NotScalar}
<1>1. CoerceTokenSet(answer) = [k \in known |-> answer[k].value]
  BY DEF CoerceTokenSet
<1>2. /\ IsFiniteSet(DOMAIN answer) /\ DOMAIN answer \subseteq Seq(STRING)
      /\ \A k \in DOMAIN answer : answer[k].value.hex \in HexColors
  BY AnswerAssumption
<1>3. known \in SUBSET (DOMAIN answer)
  OBVIOUS
<1> HIDE DEF known, answer
<1>4. IsFiniteSet(known)
  BY <1>2, <1>3, FS_Subset
<1>5. ASSUME NEW t, t = [k \in known |-> answer[k].value] PROVE Readable(t)
  <2>1. DOMAIN t = known /\ \A k \in known : t[k] = answer[k].value
    BY <1>5
  <2>2. IsFiniteSet(DOMAIN t) BY <2>1, <1>4
  <2>3. DOMAIN t \subseteq Seq(STRING) BY <2>1, <1>2, <1>3
  <2>4. \A k \in DOMAIN t : t[k].hex \in HexColors BY <2>1, <1>2, <1>3
  <2> QED BY <2>2, <2>3, <2>4 DEF Readable
<1> QED BY <1>1, <1>5 DEF answer

\* As many values as things, when no two things have the same value.
LEMMA AsMany ==
    ASSUME NEW S, IsFiniteSet(S), NEW f, DOMAIN f = S,
           \A x, y \in S : f[x] = f[y] => x = y
    PROVE  /\ IsFiniteSet({f[x] : x \in S})
           /\ Cardinality({f[x] : x \in S}) = Cardinality(S)
<1> DEFINE g == [x \in S |-> f[x]] T == {f[x] : x \in S}
<1>1. g \in Bijection(S, T)
  BY DEF Bijection, Injection, Surjection, IsInjective
<1> QED BY <1>1, FS_Bijection DEF ExistsBijection

\* No more values than things.
LEMMA ImageIsFinite ==
    ASSUME NEW S, IsFiniteSet(S), NEW f
    PROVE  /\ IsFiniteSet({f[x] : x \in S})
           /\ Cardinality({f[x] : x \in S}) \in Nat
           /\ Cardinality({f[x] : x \in S}) <= Cardinality(S)
<1> DEFINE g == [x \in S |-> f[x]] T == {f[x] : x \in S}
<1>1. g \in Surjection(S, T)
  BY DEF Surjection
<1> HIDE DEF g, T
<1>2. IsFiniteSet(T) /\ Cardinality(T) <= Cardinality(S)
  BY <1>1, FS_Surjection
<1>3. Cardinality(T) \in Nat
  BY <1>2, FS_CardinalityType
<1> QED BY <1>2, <1>3 DEF T

\* The elements of a concatenation.
LEMMA Joined ==
    ASSUME NEW P, NEW K, NEW p \in Seq(P), NEW k \in Seq(K)
    PROVE  /\ Len(p \o k) = Len(p) + Len(k)
           /\ \A i \in 1..Len(p) : (p \o k)[i] = p[i]
           /\ \A i \in 1..Len(k) : (p \o k)[Len(p) + i] = k[i]
OBVIOUS

-----------------------------------------------------------------------------
(* The names of the exports                                                *)

\* The groups of a tree.
Group == {"color", "dimension", "number", "fontFamily", "shadow", "duration", "cubicBezier",
          "other"}

\* Every key belongs to a group.
LEMMA ClassifyType == \A k : Classify(k) \in Group
<1>1. \A p \in DOMAIN GroupByPrefix : GroupByPrefix[p] = "color"
  BY DEF GroupByPrefix
<1>2. \A p \in DOMAIN OtherGroups : OtherGroups[p] \in Group
  BY DEF OtherGroups, Group
<1> QED BY <1>1, <1>2 DEF Classify, Group

\* The tree of a token set has each token once, in the group of its key.
LEMMA TreeOf ==
    ASSUME NEW t
    PROVE  /\ DOMAIN ToDtcgJson(t) = {Classify(k) : k \in DOMAIN t}
           /\ \A g \in DOMAIN ToDtcgJson(t) :
                 /\ DOMAIN ToDtcgJson(t)[g] = {k \in DOMAIN t : Classify(k) = g}
                 /\ \A k \in DOMAIN ToDtcgJson(t)[g] : ToDtcgJson(t)[g][k] = t[k]
BY DEF ToDtcgJson

\* The first segment of a kebab-cased group name.
Head1(g) == IF g = "fontFamily" THEN "font" ELSE IF g = "cubicBezier" THEN "cubic" ELSE g

\* A kebab-cased group name has one or two segments, and the first tells the groups apart.
LEMMA KebabShape ==
    ASSUME NEW g \in Group
    PROVE  /\ Kebab(g) \in Seq({Head1(g), "family", "bezier"})
           /\ Len(Kebab(g)) \in 1..2 /\ Kebab(g)[1] = Head1(g)
<1>1. CASE g = "fontFamily" BY <1>1 DEF Kebab, Head1
<1>2. CASE g = "cubicBezier" BY <1>2 DEF Kebab, Head1
<1>3. CASE g \notin {"fontFamily", "cubicBezier"}
  <2>1. Kebab(g) = <<g>> /\ Head1(g) = g BY <1>3 DEF Kebab, Head1
  <2> QED BY <2>1
<1> QED BY <1>1, <1>2, <1>3

\* A custom property starts with its group.
LEMMA KebabHead ==
    ASSUME NEW g \in Group, NEW K, NEW k \in Seq(K)
    PROVE  (Kebab(g) \o k)[1] = Head1(g)
<1>1. \A i \in 1..Len(Kebab(g)) : (Kebab(g) \o k)[i] = Kebab(g)[i]
  BY KebabShape, Joined
<1>2. Len(Kebab(g)) \in 1..2 /\ Kebab(g)[1] = Head1(g)
  BY KebabShape
<1>3. 1 \in 1..Len(Kebab(g)) BY <1>2
<1> QED BY <1>1, <1>2, <1>3

\* Two custom properties of the same name are the same token.
LEMMA KebabApart ==
    ASSUME NEW g \in Group, NEW h \in Group, NEW K, NEW k \in Seq(K), NEW m \in Seq(K)
    PROVE  Kebab(g) \o k = Kebab(h) \o m => k = m
<1>1. /\ Len(Kebab(g) \o k) = Len(Kebab(g)) + Len(k)
      /\ \A i \in 1..Len(k) : (Kebab(g) \o k)[Len(Kebab(g)) + i] = k[i]
  BY KebabShape, Joined
<1>2. /\ Len(Kebab(h) \o m) = Len(Kebab(h)) + Len(m)
      /\ \A i \in 1..Len(m) : (Kebab(h) \o m)[Len(Kebab(h)) + i] = m[i]
  BY KebabShape, Joined
<1>3. (Kebab(g) \o k)[1] = Head1(g) /\ (Kebab(h) \o m)[1] = Head1(h)
  BY KebabHead
<1>4. Head1(g) = Head1(h) => g = h BY DEF Group, Head1
<1> SUFFICES ASSUME Kebab(g) \o k = Kebab(h) \o m PROVE k = m
  OBVIOUS
<1>5. g = h BY <1>3, <1>4
<1>6. Len(k) = Len(m) /\ \A i \in 1..Len(k) : k[i] = m[i]
  BY <1>1, <1>2, <1>5, KebabShape
<1> QED BY <1>6

\* A stylesheet has a name for every token.
LEMMA CssNames ==
    ASSUME NEW t, Readable(t)
    PROVE  LET css == DtcgToCss(ToDtcgJson(t))
           IN  Cardinality({d.name : d \in css}) = Cardinality(DOMAIN t)
<1> DEFINE css == DtcgToCss(ToDtcgJson(t))
           name == [k \in DOMAIN t |-> Kebab(Classify(k)) \o k]
<1>1. {d.name : d \in css} = {name[k] : k \in DOMAIN t}
  <2> DEFINE dtcg == ToDtcgJson(t)
  <2>1. /\ DOMAIN dtcg = {Classify(k) : k \in DOMAIN t}
        /\ \A g \in DOMAIN dtcg : DOMAIN dtcg[g] = {k \in DOMAIN t : Classify(k) = g}
    BY TreeOf
  <2> HIDE DEF dtcg
  <2>2. css = UNION {{Declaration(Kebab(g) \o k, dtcg[g][k]) : k \in DOMAIN dtcg[g]} :
                     g \in DOMAIN dtcg}
    BY DEF DtcgToCss, dtcg
  <2> HIDE DEF css
  <2>3. ASSUME NEW d \in css PROVE \E k \in DOMAIN t : d.name = name[k]
    <3>0. PICK g \in DOMAIN dtcg :
              \E k \in DOMAIN dtcg[g] : d = Declaration(Kebab(g) \o k, dtcg[g][k])
      BY <2>2
    <3>1. PICK k \in DOMAIN dtcg[g] : d = Declaration(Kebab(g) \o k, dtcg[g][k])
      BY <3>0
    <3>2. d.name = Kebab(g) \o k BY <3>1 DEF Declaration
    <3>3. k \in DOMAIN t /\ Classify(k) = g BY <2>1
    <3> QED BY <3>2, <3>3
  <2>4. ASSUME NEW k \in DOMAIN t PROVE \E d \in css : d.name = name[k]
    <3>1. Classify(k) \in DOMAIN dtcg /\ k \in DOMAIN dtcg[Classify(k)] BY <2>1
    <3>2. Declaration(Kebab(Classify(k)) \o k, dtcg[Classify(k)][k]) \in css
      BY <2>2, <3>1
    <3> QED BY <3>2 DEF Declaration
  <2> HIDE DEF name
  <2> QED BY <2>3, <2>4
<1>2. \A k, m \in DOMAIN t : name[k] = name[m] => k = m
  BY KebabApart, ClassifyType DEF Readable
<1>3. IsFiniteSet(DOMAIN t) BY DEF Readable
<1> HIDE DEF name, css
<1>4. DOMAIN name = DOMAIN t BY DEF name
<1>5. Cardinality({name[k] : k \in DOMAIN t}) = Cardinality(DOMAIN t)
  BY <1>2, <1>3, <1>4, AsMany
<1> QED BY <1>1, <1>5 DEF css

\* A name behind a prefix of one segment tells the keys apart.
LEMMA OnePrefix ==
    ASSUME NEW a, NEW b, NEW K, NEW k \in Seq(K), NEW m \in Seq(K)
    PROVE  <<a>> \o k = <<b>> \o m => k = m
<1>1. /\ Len(<<a>> \o k) = 1 + Len(k)
      /\ \A i \in 1..Len(k) : (<<a>> \o k)[1 + i] = k[i]
  OBVIOUS
<1>2. /\ Len(<<b>> \o m) = 1 + Len(m)
      /\ \A i \in 1..Len(m) : (<<b>> \o m)[1 + i] = m[i]
  OBVIOUS
<1> SUFFICES ASSUME <<a>> \o k = <<b>> \o m PROVE k = m
  OBVIOUS
<1>3. Len(k) = Len(m) /\ \A i \in 1..Len(k) : k[i] = m[i]
  BY <1>1, <1>2
<1> QED BY <1>3

\* The names of a set of declarations or variables.
Names(ds) == {d.name : d \in ds}

\* The things of ds are made from the keys of S and named by them.
MadeFrom(ds, S, f, head) ==
    /\ \A k \in S : f[k].name = <<head[k]>> \o k
    /\ \A d \in ds : \E k \in S : d = f[k]

\* Things made from keys and named by their key share no name.
LEMMA NamesApart ==
    ASSUME NEW S, IsFiniteSet(S), S \subseteq Seq(STRING), NEW f, NEW head, NEW ds,
           MadeFrom(ds, S, f, head)
    PROVE  Cardinality(Names(ds)) = Cardinality(ds)
<1>1. IsFiniteSet({f[k] : k \in S}) BY ImageIsFinite
<1>2. ds \subseteq {f[k] : k \in S} BY DEF MadeFrom
<1>3. IsFiniteSet(ds) BY <1>1, <1>2, FS_Subset
<1>0. \A k, m \in S : <<head[k]>> \o k = <<head[m]>> \o m => k = m
  <2> TAKE k \in S, m \in S
  <2>1. k \in Seq(STRING) /\ m \in Seq(STRING) OBVIOUS
  <2> QED BY <2>1, OnePrefix
<1>4. ASSUME NEW d \in ds, NEW e \in ds, d.name = e.name PROVE d = e
  <2>1. PICK k \in S : d = f[k] BY DEF MadeFrom
  <2>2. PICK m \in S : e = f[m] BY DEF MadeFrom
  <2>3. <<head[k]>> \o k = <<head[m]>> \o m BY <1>4, <2>1, <2>2 DEF MadeFrom
  <2>4. k = m BY <2>3, <1>0
  <2> QED BY <2>1, <2>2, <2>4
<1> DEFINE name == [d \in ds |-> d.name]
<1>5. \A d, e \in ds : name[d] = name[e] => d = e BY <1>4
<1>6. {name[d] : d \in ds} = Names(ds) BY DEF Names
<1>7. DOMAIN name = ds OBVIOUS
<1> HIDE DEF name
<1>8. Cardinality({name[d] : d \in ds}) = Cardinality(ds)
  BY <1>3, <1>5, <1>7, AsMany
<1> QED BY <1>6, <1>8

\* No two declarations of a Tailwind theme share a name.
LEMMA TailwindNames ==
    ASSUME NEW t, Readable(t)
    PROVE  LET theme == DtcgToTailwindTheme(ToDtcgJson(t))
           IN  Cardinality(Names(theme)) = Cardinality(theme)
<1> DEFINE dtcg == ToDtcgJson(t)
           theme == DtcgToTailwindTheme(dtcg)
           head == [k \in DOMAIN t |-> IF Classify(k) = "dimension" THEN DimensionNamespace[k[1]]
                                       ELSE Namespace[Classify(k)]]
           f == [k \in DOMAIN t |-> Declaration(<<head[k]>> \o k, t[k])]
<1>1. /\ DOMAIN dtcg = {Classify(k) : k \in DOMAIN t}
      /\ \A g \in DOMAIN dtcg : /\ DOMAIN dtcg[g] = {k \in DOMAIN t : Classify(k) = g}
                                /\ \A k \in DOMAIN dtcg[g] : dtcg[g][k] = t[k]
  BY TreeOf
<1> HIDE DEF dtcg
<1>2. \A d \in EmitDimensionGroup(dtcg) : \E k \in DOMAIN t : d = f[k]
  BY <1>1 DEF EmitDimensionGroup
<1>3. "dimension" \notin DOMAIN Namespace BY DEF Namespace
<1>4. \A g \in DOMAIN Namespace : \A d \in EmitSimpleGroup(dtcg, g) : \E k \in DOMAIN t : d = f[k]
  BY <1>1, <1>3 DEF EmitSimpleGroup
<1> HIDE DEF head, f
<1>5. \A d \in theme : \E k \in DOMAIN t : d = f[k]
  <2> DEFINE simple == UNION {EmitSimpleGroup(dtcg, g) : g \in DOMAIN Namespace}
  <2>0. theme = simple \union EmitDimensionGroup(dtcg)
    BY DEF DtcgToTailwindTheme
  <2> HIDE DEF theme
  <2> TAKE d \in theme
  <2>1. CASE d \in EmitDimensionGroup(dtcg) BY <2>1, <1>2
  <2>2. ASSUME NEW g \in DOMAIN Namespace, d \in EmitSimpleGroup(dtcg, g)
        PROVE  \E k \in DOMAIN t : d = f[k]
    BY <2>2, <1>4
  <2>3. CASE d \in simple BY <2>2, <2>3
  <2>4. d \in simple \/ d \in EmitDimensionGroup(dtcg)
    <3> HIDE DEF simple
    <3> QED BY <2>0
  <2> QED BY <2>1, <2>3, <2>4
<1>6. \A k \in DOMAIN t : f[k].name = <<head[k]>> \o k BY DEF Declaration, f
<1> HIDE DEF theme
<1>0. IsFiniteSet(DOMAIN t) /\ DOMAIN t \subseteq Seq(STRING) BY DEF Readable
<1>7. MadeFrom(theme, DOMAIN t, f, head) BY <1>5, <1>6 DEF MadeFrom
<1>8. Cardinality(Names(theme)) = Cardinality(theme)
  BY <1>0, <1>7, NamesApart
<1> QED BY <1>8 DEF theme, dtcg

\* No two Figma variables share a name.
LEMMA FigmaNames ==
    ASSUME NEW t, Readable(t)
    PROVE  LET variables == DtcgToFigmaVariables(ToDtcgJson(t), Parsed).variables
           IN  Cardinality(Names(variables)) = Cardinality(variables)
<1> DEFINE dtcg == ToDtcgJson(t)
           variables == DtcgToFigmaVariables(dtcg, Parsed).variables
           head == [k \in DOMAIN t |-> Routing[Classify(k)].collection]
           f == [k \in DOMAIN t |->
                    [collection |-> head[k], type |-> Routing[Classify(k)].type,
                     name |-> <<head[k]>> \o k, value |-> t[k]]]
<1>1. /\ DOMAIN dtcg = {Classify(k) : k \in DOMAIN t}
      /\ \A g \in DOMAIN dtcg : /\ DOMAIN dtcg[g] = {k \in DOMAIN t : Classify(k) = g}
                                /\ \A k \in DOMAIN dtcg[g] : dtcg[g][k] = t[k]
  BY TreeOf
<1> HIDE DEF dtcg
<1>2. \A g \in DOMAIN dtcg : \A v \in GroupVariables(dtcg, g, Parsed) : \E k \in DOMAIN t : v = f[k]
  BY <1>1 DEF GroupVariables
<1>3. \A v \in variables : \E k \in DOMAIN t : v = f[k]
  BY <1>2 DEF DtcgToFigmaVariables
<1>4. \A k \in DOMAIN t : f[k].name = <<head[k]>> \o k OBVIOUS
<1> HIDE DEF head, f, variables
<1>0. IsFiniteSet(DOMAIN t) /\ DOMAIN t \subseteq Seq(STRING) BY DEF Readable
<1>5. MadeFrom(variables, DOMAIN t, f, head) BY <1>3, <1>4 DEF MadeFrom
<1>6. Cardinality(Names(variables)) = Cardinality(variables)
  BY <1>0, <1>5, NamesApart
<1> QED BY <1>6 DEF variables, dtcg

-----------------------------------------------------------------------------
(* Sums over a finite set                                                  *)

\* The least number of a set, and induction with a set in place of a predicate.
LEMMA LeastNat ==
    ASSUME NEW T, T \subseteq Nat, T # {}
    PROVE  \E x \in T : \A y \in T : x <= y
<1> DEFINE R == OpToRel(<, Nat)
<1>1. IsWellFoundedOn(R, Nat) BY NatLessThanWellFounded
<1> HIDE DEF R
<1>2. PICK x \in T : \A y \in T : ~ (<<y, x>> \in R) BY <1>1, WFMin
<1>3. \A y \in T : ~ (x <= y) => <<y, x>> \in R BY DEF R, OpToRel
<1> QED BY <1>2, <1>3

\* Induction: a set with zero that is closed under successor holds every number.
LEMMA NatSet ==
    ASSUME NEW S, 0 \in S, \A n \in Nat : n \in S => n + 1 \in S
    PROVE  Nat \subseteq S
<1> SUFFICES ASSUME Nat \ S # {} PROVE FALSE
  OBVIOUS
<1>1. PICK x \in Nat \ S : \A y \in Nat \ S : x <= y
  <2>1. Nat \ S \subseteq Nat OBVIOUS
  <2> QED BY <2>1, LeastNat
<1>2. x # 0 OBVIOUS
<1>3. x - 1 \in Nat /\ (x - 1) + 1 = x BY <1>2
<1>4. x - 1 \in Nat \ S BY <1>3
<1> QED BY <1>1, <1>3, <1>4

\* The function a sum over a set is defined by.
Sums(part, S) == CHOOSE iter : iter =
    [s \in SUBSET S |-> IF s = {} THEN 0
                        ELSE iter[s \ {CHOOSE x \in s : TRUE}] + part[CHOOSE x \in s : TRUE]]

\* A fold that adds up parts is a value of the function Sums.
LEMMA Unroll ==
    ASSUME NEW part, NEW S
    PROVE  FoldSet(LAMBDA d, n : n + part[d], 0, S) = Sums(part, S)[S]
BY DEF FoldSet, MapThenFoldSet, Sums

Pick(s) == CHOOSE x \in s : TRUE
Small(S, n) == {s \in SUBSET S : Cardinality(s) <= n}

SumsOver(f, part, S) ==
    f = [s \in SUBSET S |-> IF s = {} THEN 0 ELSE f[s \ {Pick(s)}] + part[Pick(s)]]
SumsUpTo(f, part, S, n) ==
    /\ f \in [Small(S, n) -> Nat]
    /\ \A s \in Small(S, n) : f[s] = IF s = {} THEN 0 ELSE f[s \ {Pick(s)}] + part[Pick(s)]

\* A subset of a finite set, without the element that is picked next.
LEMMA Sizes ==
    ASSUME NEW S, IsFiniteSet(S), NEW s \in SUBSET S
    PROVE  /\ IsFiniteSet(s) /\ Cardinality(s) \in Nat
           /\ Cardinality(s) <= Cardinality(S)
           /\ (Cardinality(s) = 0 <=> s = {})
           /\ s # {} => /\ Pick(s) \in s /\ s \ {Pick(s)} \in SUBSET S
                        /\ Cardinality(s \ {Pick(s)}) = Cardinality(s) - 1
<1>1. IsFiniteSet(s) /\ Cardinality(s) <= Cardinality(S) BY FS_Subset
<1>2. Cardinality(s) \in Nat BY <1>1, FS_CardinalityType
<1>3. Cardinality(s) = 0 <=> s = {} BY <1>1, FS_EmptySet
<1>4. s # {} => Pick(s) \in s BY DEF Pick
<1>5. Pick(s) \in s => Cardinality(s \ {Pick(s)}) = Cardinality(s) - 1
  BY <1>1, FS_RemoveElement
<1> QED BY <1>1, <1>2, <1>3, <1>4, <1>5

\* The recursion of a fold has a solution.
LEMMA SumsExist ==
    ASSUME NEW S, IsFiniteSet(S), NEW part, \A x \in S : part[x] \in Nat
    PROVE  \E f : SumsOver(f, part, S)
<1> DEFINE T == {n \in Nat : \E f : SumsUpTo(f, part, S, n)}
<1>1. \A s \in SUBSET S : /\ IsFiniteSet(s) /\ Cardinality(s) \in Nat
                          /\ Cardinality(s) <= Cardinality(S)
                          /\ (Cardinality(s) = 0 <=> s = {})
                          /\ s # {} => /\ Pick(s) \in s /\ s \ {Pick(s)} \in SUBSET S
                                       /\ Cardinality(s \ {Pick(s)}) = Cardinality(s) - 1
  BY Sizes
<1>2. 0 \in T
  <2> DEFINE f == [s \in Small(S, 0) |-> 0]
  <2>1. ASSUME NEW s \in Small(S, 0) PROVE s = {}
    <3>1. s \in SUBSET S /\ Cardinality(s) <= 0 BY DEF Small
    <3>2. Cardinality(s) \in Nat /\ (Cardinality(s) = 0 <=> s = {}) BY <1>1, <3>1
    <3> QED BY <3>1, <3>2
  <2>2. SumsUpTo(f, part, S, 0) BY <2>1 DEF SumsUpTo
  <2> QED BY <2>2
<1>3. ASSUME NEW n \in Nat, n \in T PROVE n + 1 \in T
  <2>1. PICK f : SumsUpTo(f, part, S, n) BY <1>3
  <2> DEFINE g == [s \in Small(S, n + 1) |-> IF s = {} THEN 0 ELSE f[s \ {Pick(s)}] + part[Pick(s)]]
  <2>2. \A s \in Small(S, n + 1) : s # {} =>
           /\ s \ {Pick(s)} \in Small(S, n) /\ s \ {Pick(s)} \in Small(S, n + 1)
           /\ part[Pick(s)] \in Nat
    BY <1>1 DEF Small
  <2>3. \A s \in Small(S, n) : s \in Small(S, n + 1) /\ g[s] = f[s]
    BY <1>1, <2>1 DEF Small, SumsUpTo
  <2>4. g \in [Small(S, n + 1) -> Nat]
    BY <2>1, <2>2 DEF SumsUpTo
  <2>5. \A s \in Small(S, n + 1) : s # {} => g[s \ {Pick(s)}] = f[s \ {Pick(s)}]
    BY <2>2, <2>3
  <2>6. SumsUpTo(g, part, S, n + 1)
    BY <2>4, <2>5 DEF SumsUpTo
  <2> QED BY <2>6
<1> HIDE DEF T
<1>4. Nat \subseteq T BY <1>2, <1>3, NatSet
<1>5. Cardinality(S) \in Nat BY FS_CardinalityType
<1>6. PICK f : SumsUpTo(f, part, S, Cardinality(S)) BY <1>4, <1>5 DEF T
<1>7. Small(S, Cardinality(S)) = SUBSET S BY <1>1 DEF Small
<1>8. f \in [SUBSET S -> Nat] BY <1>6, <1>7 DEF SumsUpTo
<1>9. f = [s \in SUBSET S |-> IF s = {} THEN 0 ELSE f[s \ {Pick(s)}] + part[Pick(s)]]
  BY <1>6, <1>7, <1>8 DEF SumsUpTo
<1> QED BY <1>9 DEF SumsOver


\* A sum of natural numbers is one.
LEMMA SumIsNat ==
    ASSUME NEW S, IsFiniteSet(S), NEW part, \A x \in S : part[x] \in Nat
    PROVE  Sums(part, S)[S] \in Nat
<1>1. \E f : SumsOver(f, part, S) BY SumsExist
<1>2. Sums(part, S) = CHOOSE f : SumsOver(f, part, S) BY DEF Sums, Pick, SumsOver
<1>3. SumsOver(Sums(part, S), part, S) BY <1>1, <1>2
<1>4. ASSUME NEW f, SumsOver(f, part, S) PROVE f[S] \in Nat
  <2> DEFINE V == {n \in Nat : \A s \in Small(S, n) : f[s] \in Nat}
  <2>0. f[{}] = 0
    BY <1>4 DEF SumsOver
  <2>1. \A s \in SUBSET S : s # {} => f[s] = f[s \ {Pick(s)}] + part[Pick(s)]
    BY <1>4 DEF SumsOver
  <2>2. 0 \in V
    <3>1. ASSUME NEW s \in Small(S, 0) PROVE s = {} /\ s \in SUBSET S
      <4>1. s \in SUBSET S /\ Cardinality(s) <= 0 BY DEF Small
      <4>2. Cardinality(s) \in Nat /\ (Cardinality(s) = 0 <=> s = {}) BY <4>1, Sizes
      <4> QED BY <4>1, <4>2
    <3> QED BY <3>1, <2>0
  <2>3. ASSUME NEW n \in Nat, n \in V PROVE n + 1 \in V
    <3>1. ASSUME NEW s \in Small(S, n + 1), s # {} PROVE f[s] \in Nat
      <4>1. s \in SUBSET S /\ Cardinality(s) <= n + 1 BY DEF Small
      <4>2. /\ Pick(s) \in s /\ s \ {Pick(s)} \in SUBSET S /\ Cardinality(s) \in Nat
            /\ Cardinality(s \ {Pick(s)}) = Cardinality(s) - 1
        BY <3>1, <4>1, Sizes
      <4>3. s \ {Pick(s)} \in Small(S, n) BY <4>1, <4>2 DEF Small
      <4>4. f[s \ {Pick(s)}] \in Nat /\ part[Pick(s)] \in Nat BY <2>3, <4>1, <4>2, <4>3
      <4>5. f[s] = f[s \ {Pick(s)}] + part[Pick(s)] BY <2>1, <3>1, <4>1
      <4> QED BY <4>4, <4>5
    <3>2. \A s \in Small(S, n + 1) : s = {} => f[s] \in Nat BY <2>0 DEF Small
    <3> QED BY <3>1, <3>2
  <2> HIDE DEF V
  <2>4. Nat \subseteq V BY <2>2, <2>3, NatSet
  <2>5. Cardinality(S) \in V /\ S \in Small(S, Cardinality(S)) BY <2>4, Sizes DEF Small
  <2> QED BY <2>5 DEF V
<1> QED BY <1>3, <1>4

\* The sum of the parts of a set.
Sum(part, S) == Sums(part, S)[S]

\* Sums is a solution of the recursion of its fold.
LEMMA SumsSolve ==
    ASSUME NEW S, IsFiniteSet(S), NEW part, \A x \in S : part[x] \in Nat
    PROVE  SumsOver(Sums(part, S), part, S)
<1>1. \E f : SumsOver(f, part, S) BY SumsExist
<1>2. Sums(part, S) = CHOOSE f : SumsOver(f, part, S) BY DEF Sums, Pick, SumsOver
<1> QED BY <1>1, <1>2

\* A fold over a set agrees with the fold over a part of it.
LEMMA SumsAgree ==
    ASSUME NEW S, IsFiniteSet(S), NEW T \in SUBSET S, NEW part,
           NEW f, SumsOver(f, part, S), NEW g, SumsOver(g, part, T),
           NEW s \in SUBSET T
    PROVE  f[s] = g[s]
<1> DEFINE V == {n \in Nat : \A t \in SUBSET T : Cardinality(t) <= n => f[t] = g[t]}
<1>1. f[{}] = 0 /\ g[{}] = 0 BY DEF SumsOver
<1>2. \A t \in SUBSET T : t # {} => /\ f[t] = f[t \ {Pick(t)}] + part[Pick(t)]
                                    /\ g[t] = g[t \ {Pick(t)}] + part[Pick(t)]
  BY DEF SumsOver
<1>3. \A t \in SUBSET T : /\ IsFiniteSet(t) /\ Cardinality(t) \in Nat
                          /\ (Cardinality(t) = 0 <=> t = {})
                          /\ t # {} => /\ Pick(t) \in t /\ t \ {Pick(t)} \in SUBSET T
                                       /\ Cardinality(t \ {Pick(t)}) = Cardinality(t) - 1
  <2>1. IsFiniteSet(T) BY FS_Subset
  <2> QED BY <2>1, Sizes
<1>4. 0 \in V
  <2>1. ASSUME NEW t \in SUBSET T, Cardinality(t) <= 0 PROVE t = {}
    <3>1. Cardinality(t) \in Nat /\ (Cardinality(t) = 0 <=> t = {}) BY <1>3
    <3> QED BY <2>1, <3>1
  <2> QED BY <1>1, <2>1
<1>5. ASSUME NEW n \in Nat, n \in V PROVE n + 1 \in V
  <2> SUFFICES ASSUME NEW t \in SUBSET T, Cardinality(t) <= n + 1, t # {} PROVE f[t] = g[t]
    BY <1>1
  <2>1. Cardinality(t \ {Pick(t)}) <= n /\ t \ {Pick(t)} \in SUBSET T BY <1>3
  <2>2. f[t \ {Pick(t)}] = g[t \ {Pick(t)}] BY <1>5, <2>1
  <2> QED BY <1>2, <2>2
<1> HIDE DEF V
<1>6. Nat \subseteq V BY <1>4, <1>5, NatSet
<1>7. Cardinality(s) \in V BY <1>3, <1>6
<1> QED BY <1>3, <1>7 DEF V

\* It does not matter which element a fold picks first.
LEMMA SumsRemove ==
    ASSUME NEW S, IsFiniteSet(S), NEW part, \A x \in S : part[x] \in Nat,
           NEW f, SumsOver(f, part, S), \A t \in SUBSET S : f[t] \in Nat,
           NEW s \in SUBSET S, NEW y \in s
    PROVE  f[s] = f[s \ {y}] + part[y]
<1> DEFINE Parts(n) == \A t \in SUBSET S : Cardinality(t) <= n =>
                        \A x \in t : f[t] = f[t \ {x}] + part[x]
           V == {n \in Nat : Parts(n)}
<1>2. \A t \in SUBSET S : t # {} => f[t] = f[t \ {Pick(t)}] + part[Pick(t)]
  BY DEF SumsOver
<1>3. \A t \in SUBSET S : /\ IsFiniteSet(t) /\ Cardinality(t) \in Nat
                          /\ (Cardinality(t) = 0 <=> t = {})
                          /\ t # {} => Pick(t) \in t
  BY Sizes
<1>7. \A t \in SUBSET S : \A x \in t : Cardinality(t \ {x}) = Cardinality(t) - 1
  BY <1>3, FS_RemoveElement
<1>4. 0 \in V BY <1>3
<1>5. ASSUME NEW n \in Nat, n \in V PROVE n + 1 \in V
  <2> SUFFICES Parts(n + 1)
    <3> HIDE DEF Parts
    <3> QED OBVIOUS
  <2> TAKE t \in SUBSET S
  <2> HAVE Cardinality(t) <= n + 1
  <2> TAKE x \in t
  <2> DEFINE p == Pick(t)
  <2>1. p \in t /\ f[t] = f[t \ {p}] + part[p] BY <1>2, <1>3
  <2> HIDE DEF p
  <2>2. CASE p = x BY <2>1, <2>2
  <2>3. CASE p # x
    <3>1. Cardinality(t \ {p}) <= n /\ Cardinality(t \ {x}) <= n BY <1>3, <1>7, <2>1
    <3>2. x \in t \ {p} /\ p \in t \ {x} /\ (t \ {p}) \ {x} = (t \ {x}) \ {p} BY <2>1, <2>3
    <3>3. \A u \in SUBSET S : Cardinality(u) <= n => \A z \in u : f[u] = f[u \ {z}] + part[z]
      BY <1>5
    <3> HIDE DEF V
    <3>4. f[t \ {p}] = f[(t \ {p}) \ {x}] + part[x] BY <3>1, <3>2, <3>3
    <3>5. f[t \ {x}] = f[(t \ {x}) \ {p}] + part[p] BY <3>1, <3>2, <3>3
    <3>6. /\ f[(t \ {p}) \ {x}] \in Nat /\ part[x] \in Nat /\ part[p] \in Nat
          /\ f[t \ {x}] = f[(t \ {p}) \ {x}] + part[p]
      BY <2>1, <3>2, <3>5
    <3> QED BY <2>1, <3>4, <3>6
  <2> QED BY <2>2, <2>3
<1> HIDE DEF V
<1>6. Nat \subseteq V BY <1>4, <1>5, NatSet
<1> QED BY <1>3, <1>6 DEF V

\* Finitely many parts, each a natural number.
Natural(part, S) == IsFiniteSet(S) /\ \A x \in S : part[x] \in Nat

\* A sum can be taken apart at any element.
LEMMA SumFacts ==
    ASSUME NEW S, NEW part, Natural(part, S)
    PROVE  /\ Sum(part, S) \in Nat
           /\ Sum(part, {}) = 0
           /\ \A x \in S : Sum(part, S) = Sum(part, S \ {x}) + part[x]
<1> USE DEF Natural
<1>1. \A T \in SUBSET S : /\ SumsOver(Sums(part, T), part, T)
                          /\ Sum(part, T) \in Nat /\ IsFiniteSet(T)
  <2> TAKE T \in SUBSET S
  <2>1. IsFiniteSet(T) BY FS_Subset
  <2>2. \A x \in T : part[x] \in Nat OBVIOUS
  <2> QED BY <2>1, <2>2, SumsSolve, SumIsNat DEF Sum
<1>2. \A T \in SUBSET S : Sums(part, S)[T] = Sum(part, T)
  <2> TAKE T \in SUBSET S
  <2>1. SumsOver(Sums(part, S), part, S) /\ SumsOver(Sums(part, T), part, T) BY <1>1
  <2> QED BY <2>1, SumsAgree DEF Sum
<1>3. \A T \in SUBSET S : Sums(part, S)[T] \in Nat BY <1>1, <1>2
<1>4. ASSUME NEW x \in S PROVE Sum(part, S) = Sum(part, S \ {x}) + part[x]
  <2>1. SumsOver(Sums(part, S), part, S) BY <1>1
  <2>2. Sums(part, S)[S] = Sums(part, S)[S \ {x}] + part[x] BY <1>3, <2>1, SumsRemove
  <2> QED BY <1>2, <2>2
<1>5. Sum(part, {}) = 0
  <2>1. SumsOver(Sums(part, {}), part, {}) BY <1>1
  <2> QED BY <2>1 DEF Sum, SumsOver
<1> QED BY <1>1, <1>4, <1>5

\* The sum over two sets that have nothing in common.
LEMMA SumUnion ==
    ASSUME NEW A, NEW B, A \intersect B = {}, NEW part, Natural(part, A \union B)
    PROVE  Sum(part, A \union B) = Sum(part, A) + Sum(part, B)
<1> DEFINE V == {n \in Nat : \A t \in SUBSET B : Cardinality(t) <= n =>
                                Sum(part, A \union t) = Sum(part, A) + Sum(part, t)}
<1>1. ASSUME NEW T \in SUBSET (A \union B) PROVE Natural(part, T) /\ Sum(part, T) \in Nat
  <2>1. IsFiniteSet(A \union B) BY DEF Natural
  <2>2. IsFiniteSet(T) BY <2>1, FS_Subset
  <2>3. Natural(part, T) BY <2>2 DEF Natural
  <2> QED BY <2>3, SumFacts
<1>2. Sum(part, {}) = 0 BY <1>1, SumFacts
<1>3. \A t \in SUBSET B : /\ IsFiniteSet(t) /\ Cardinality(t) \in Nat
                          /\ (Cardinality(t) = 0 <=> t = {})
  <2> TAKE t \in SUBSET B
  <2>1. IsFiniteSet(t) BY <1>1 DEF Natural
  <2> QED BY <2>1, FS_CardinalityType, FS_EmptySet
<1>4. 0 \in V
  <2> SUFFICES ASSUME NEW t \in SUBSET B, Cardinality(t) <= 0
               PROVE  Sum(part, A \union t) = Sum(part, A) + Sum(part, t)
    OBVIOUS
  <2>1. t = {} /\ A \union t = A BY <1>3
  <2> QED BY <1>1, <1>2, <2>1
<1>5. ASSUME NEW n \in Nat, n \in V PROVE n + 1 \in V
  <2> SUFFICES ASSUME NEW t \in SUBSET B, Cardinality(t) <= n + 1
               PROVE  Sum(part, A \union t) = Sum(part, A) + Sum(part, t)
    OBVIOUS
  <2>1. CASE t = {}
    <3>1. A \union t = A BY <2>1
    <3> QED BY <1>1, <1>2, <2>1, <3>1
  <2>2. CASE t # {}
    <3>1. PICK x \in t : TRUE BY <2>2
    <3>2. Cardinality(t \ {x}) <= n BY <1>3, <3>1, FS_RemoveElement
    <3>3. Sum(part, A \union (t \ {x})) = Sum(part, A) + Sum(part, t \ {x}) BY <1>5, <3>2
    <3>4. (A \union t) \ {x} = A \union (t \ {x}) BY <3>1
    <3>5. Natural(part, A \union t) /\ Natural(part, t) BY <1>1
    <3>6. Sum(part, A \union t) = Sum(part, A \union (t \ {x})) + part[x]
      BY <3>1, <3>4, <3>5, SumFacts
    <3>7. Sum(part, t) = Sum(part, t \ {x}) + part[x] BY <3>1, <3>5, SumFacts
    <3>8. part[x] \in Nat BY <3>1 DEF Natural
    <3>9. Sum(part, A) \in Nat /\ Sum(part, t \ {x}) \in Nat BY <1>1
    <3> QED BY <3>3, <3>6, <3>7, <3>8, <3>9
  <2> QED BY <2>1, <2>2
<1> HIDE DEF V
<1>6. Nat \subseteq V BY <1>4, <1>5, NatSet
<1> QED BY <1>3, <1>6 DEF V

\* A larger set has no smaller sum.
LEMMA SumGrows ==
    ASSUME NEW B, NEW A \in SUBSET B, NEW part, Natural(part, B)
    PROVE  Sum(part, A) \in Nat /\ Sum(part, A) <= Sum(part, B)
<1>1. A \union (B \ A) = B /\ A \intersect (B \ A) = {} OBVIOUS
<1>2. IsFiniteSet(A) /\ IsFiniteSet(B \ A) BY FS_Subset DEF Natural
<1>3. Natural(part, A) /\ Natural(part, B \ A) BY <1>2 DEF Natural
<1>4. Sum(part, B) = Sum(part, A) + Sum(part, B \ A) BY <1>1, SumUnion
<1>5. Sum(part, A) \in Nat /\ Sum(part, B \ A) \in Nat BY <1>3, SumFacts
<1> QED BY <1>4, <1>5

-----------------------------------------------------------------------------
(* The scores                                                              *)

\* A bounded set of numbers has a greatest.
LEMMA GreatestBounded ==
    ASSUME NEW b \in Nat, NEW S, S \subseteq 0..b, S # {}
    PROVE  Max(S) \in S
<1> DEFINE T == {n \in 0..b : b - n \in S}
<1>1. T \subseteq Nat /\ T # {}
  <2>1. PICK x \in S : TRUE OBVIOUS
  <2>2. b - x \in T BY <2>1
  <2> QED BY <2>2
<1>2. PICK n \in T : \A m \in T : n <= m
  <2> HIDE DEF T
  <2> QED BY <1>1, LeastNat
<1>3. \A y \in S : b - n >= y
  <2> TAKE y \in S
  <2>1. b - y \in T OBVIOUS
  <2>2. n <= b - y BY <2>1, <1>2
  <2> QED BY <2>2
<1>4. b - n \in S OBVIOUS
<1> QED BY <1>3, <1>4 DEF Max

\* What is listed is finite.
LEMMA ListedIsFinite ==
    ASSUME NEW n \in Nat, NEW f
    PROVE  IsFiniteSet({f[i] : i \in 1..n})
<1>1. IsFiniteSet(1..n) BY FS_Interval
<1> QED BY <1>1, ImageIsFinite

\* Six values are finitely many.
LEMMA SixAreFinite ==
    ASSUME NEW a, NEW b, NEW c, NEW d, NEW e, NEW g
    PROVE  IsFiniteSet({a, b, c, d, e, g})
<1> DEFINE f == <<a, b, c, d, e, g>>
<1>1. {a, b, c, d, e, g} = {f[i] : i \in 1..6} OBVIOUS
<1> HIDE DEF f
<1>2. IsFiniteSet({f[i] : i \in 1..6}) BY ListedIsFinite
<1> QED BY <1>1, <1>2

\* The colours and the values found in a token set are finitely many.
LEMMA FoundHexes ==
    ASSUME NEW t, Readable(t), NEW S
    PROVE  /\ IsFiniteSet(Hexes(t, S)) /\ Cardinality(Hexes(t, S)) \in Nat
           /\ Hexes(t, S) \subseteq (0..255) \X (0..255) \X (0..255)
<1> DEFINE f == [k \in DOMAIN t |-> t[k].hex]
<1>1. Populated(t, S) \in SUBSET (DOMAIN t) /\ IsFiniteSet(DOMAIN t)
  BY DEF Populated, Readable
<1>2. IsFiniteSet(Populated(t, S)) BY <1>1, FS_Subset
<1>3. Hexes(t, S) = {f[k] : k \in Populated(t, S)} BY <1>1 DEF Hexes
<1>4. \A k \in Populated(t, S) : t[k].hex \in (0..255) \X (0..255) \X (0..255)
  BY DEF Populated, Readable, HexColors
<1>5. Hexes(t, S) \subseteq (0..255) \X (0..255) \X (0..255) BY <1>4 DEF Hexes
<1> HIDE DEF f
<1> QED BY <1>2, <1>3, <1>5, ImageIsFinite

\* The values found in a token set are finitely many.
LEMMA FoundValues ==
    ASSUME NEW t, Readable(t), NEW S
    PROVE  IsFiniteSet(Values(t, S)) /\ Cardinality(Values(t, S)) \in Nat
<1> DEFINE f == [k \in DOMAIN t |-> t[k].text]
           known == S \intersect DOMAIN t
<1>1. known \in SUBSET (DOMAIN t) /\ IsFiniteSet(DOMAIN t)
  BY DEF Readable
<1>2. IsFiniteSet(known) BY <1>1, FS_Subset
<1>3. Values(t, S) = {f[k] : k \in known} BY DEF Values
<1> HIDE DEF f, known
<1> QED BY <1>2, <1>3, ImageIsFinite

\* The unit of a score.
LEMMA OneType == One \in Nat /\ One # 0
BY SMT DEF One

\* A share, in parts of One.
LEMMA Quotient ==
    ASSUME NEW a \in Nat, NEW b \in Nat, b # 0
    PROVE  (a * One) \div b \in Nat
<1>1. a * One \in Nat BY OneType
<1> DEFINE c == a * One
<1> HIDE DEF c
<1>2. \A x \in Nat : x \div b \in Nat OBVIOUS
<1> QED BY <1>1, <1>2

\* The greatest and the least channel of a colour.
LEMMA ExtremesOf ==
    ASSUME NEW c \in (0..255) \X (0..255) \X (0..255)
    PROVE  /\ Max({c[1], c[2], c[3]}) \in 0..255 /\ Min({c[1], c[2], c[3]}) \in 0..255
           /\ Min({c[1], c[2], c[3]}) <= Max({c[1], c[2], c[3]})
<1> DEFINE S == {c[1], c[2], c[3]}
<1>0. \A p, q, r \in Int : /\ \E x \in {p, q, r} : x >= p /\ x >= q /\ x >= r
                          /\ \E x \in {p, q, r} : x <= p /\ x <= q /\ x <= r
  <2> TAKE p, q, r \in Int
  <2>1. CASE p >= q /\ p >= r BY <2>1
  <2>2. CASE q >= p /\ q >= r BY <2>2
  <2>3. CASE r >= p /\ r >= q BY <2>3
  <2> QED BY <2>1, <2>2, <2>3
<1>6. c[1] \in Int /\ c[2] \in Int /\ c[3] \in Int OBVIOUS
<1>1. \E x \in S : \A y \in S : x >= y BY <1>0, <1>6
<1>2. \E x \in S : \A y \in S : x <= y BY <1>0, <1>6
<1>3. S \subseteq 0..255 OBVIOUS
<1> HIDE DEF S
<1>4. Max(S) \in S /\ \A y \in S : Max(S) >= y BY <1>1 DEF Max
<1>5. Min(S) \in S /\ \A y \in S : Min(S) <= y BY <1>2 DEF Min
<1> QED BY <1>3, <1>4, <1>5 DEF S

\* A saturation lies between zero and One.
LEMMA SaturationType ==
    ASSUME NEW c \in (0..255) \X (0..255) \X (0..255)
    PROVE  Saturation(c) \in 0..One
<1> DEFINE hi == Max({c[1], c[2], c[3]}) lo == Min({c[1], c[2], c[3]})
           room == IF hi + lo <= 255 THEN hi + lo ELSE 510 - hi - lo
<1>1. hi \in 0..255 /\ lo \in 0..255 /\ lo <= hi BY ExtremesOf
<1>2. Saturation(c) = IF hi = lo THEN 0 ELSE ((hi - lo) * One) \div room BY DEF Saturation
<1> HIDE DEF hi, lo
<1>3. CASE hi = lo BY <1>2, <1>3, OneType
<1>4. CASE hi # lo
  <2>1. room \in Nat /\ hi - lo \in Nat /\ room # 0 /\ hi - lo <= room BY <1>1, <1>4
  <2>2. \A x, y \in Nat : y # 0 /\ x <= y => (x * One) \div y \in 0..One
    <3> TAKE x, y \in Nat
    <3> HAVE y # 0 /\ x <= y
    <3>1. x * One \in Nat /\ y * One \in Nat /\ x * One <= y * One BY OneType
    <3>2. \A m, o \in Nat : m <= y * o => m \div y \in 0..o OBVIOUS
    <3> QED BY <3>1, <3>2, OneType
  <2> HIDE DEF room
  <2> QED BY <1>2, <1>4, <2>1, <2>2
<1> QED BY <1>3, <1>4

\* Each dimension of the quality score is a natural number.
LEMMA CoverageIsNat ==
    ASSUME NEW t, Readable(t)
    PROVE  ScorePaletteRoleCoverage(t) \in Nat
<1>1. IsFiniteSet(PaletteRoleSlots)
  <2>1. PaletteRoleSlots = {<<"bg">>, <<"text">>, <<"accent">>, <<"text", "muted">>, <<"border">>,
                            <<"bg">>}
    BY DEF PaletteRoleSlots
  <2> QED BY <2>1, SixAreFinite
<1>2. PaletteRoleSlots # {} BY DEF PaletteRoleSlots
<1>3. Cardinality(PaletteRoleSlots) \in Nat /\ Cardinality(PaletteRoleSlots) # 0
  BY <1>1, <1>2, FS_CardinalityType, FS_EmptySet
<1>4. Cardinality(Hexes(t, PaletteRoleSlots)) \in Nat BY FoundHexes
<1> QED BY <1>3, <1>4, Quotient DEF ScorePaletteRoleCoverage

\* The scores of the dimensions.
LEMMA ChromaIsNat ==
    ASSUME NEW t, Readable(t)
    PROVE  ScoreColorChromaDiversity(t) \in Nat
<1> DEFINE seen == {Saturation(c) : c \in Hexes(t, ChromaInputSlots)}
<1>1. seen \subseteq 0..One BY FoundHexes, SaturationType
<1>2. ScoreColorChromaDiversity(t) = IF seen = {} THEN 0 ELSE Least((Max(seen) * 4), One)
  BY DEF ScoreColorChromaDiversity
<1> HIDE DEF seen
<1>3. seen # {} => Max(seen) \in Nat
  <2>1. seen # {} => Max(seen) \in seen BY <1>1, OneType, GreatestBounded
  <2>2. \A x \in 0..One : x \in Nat BY OneType
  <2> QED BY <2>1, <2>2, <1>1
<1> QED BY <1>2, <1>3, OneType DEF Least

LEMMA ScaleIsNat ==
    ASSUME NEW t, Readable(t)
    PROVE  ScoreTypeScaleCompleteness(t) \in Nat /\ ScoreSpacingScaleCompleteness(t) \in Nat
<1>1. \A n \in Nat : Least((n * One) \div TypeScaleTarget, One) \in Nat
  BY Quotient, OneType DEF TypeScaleTarget, Least
<1>2. \A n \in Nat : Least((n * One) \div SpacingScaleTarget, One) \in Nat
  BY Quotient, OneType DEF SpacingScaleTarget, Least
<1>3. Cardinality(Values(t, TextSizeKeys)) \in Nat /\ Cardinality(Values(t, SpacingKeys)) \in Nat
  BY FoundValues
<1> QED BY <1>1, <1>2, <1>3 DEF ScoreTypeScaleCompleteness, ScoreSpacingScaleCompleteness

LEMMA DiversityIsNat ==
    ASSUME NEW t, Readable(t)
    PROVE  ScoreTokenValueDiversity(t) \in Nat
<1>1. IsFiniteSet(DOMAIN t) BY DEF Readable
<1>2. DOMAIN t # {} => Cardinality(DOMAIN t) \in Nat /\ Cardinality(DOMAIN t) # 0
  BY <1>1, FS_CardinalityType, FS_EmptySet
<1>3. Cardinality(Values(t, DOMAIN t)) \in Nat BY FoundValues
<1> QED BY <1>2, <1>3, Quotient DEF ScoreTokenValueDiversity

\* So is the composite, a weighted sum of them.
LEMMA CompositeIsNat ==
    ASSUME NEW t, Readable(t)
    PROVE  ComputeQualityScore(t).composite \in Nat
<1> DEFINE scores == Scores(t)
           part == [d \in DOMAIN Weights |-> scores[d] * Weights[d]]
           sum == FoldSet(LAMBDA d, n : n + part[d], 0, DOMAIN Weights)
<1>1. ScoreTypePairingSignal(t) \in Nat BY OneType DEF ScoreTypePairingSignal
<1>2. DOMAIN Weights = {"palette_role_coverage", "color_chroma_diversity",
                        "type_scale_completeness", "type_pairing_signal",
                        "spacing_scale_completeness", "token_value_diversity"}
  BY DEF Weights
<1>3. \A d \in DOMAIN Weights : scores[d] \in Nat /\ Weights[d] \in Nat
  BY <1>1, <1>2, CoverageIsNat, ChromaIsNat, ScaleIsNat, DiversityIsNat DEF Scores, Weights
<1>4. IsFiniteSet(DOMAIN Weights)
  <2>1. IsFiniteSet({"palette_role_coverage", "color_chroma_diversity",
                     "type_scale_completeness", "type_pairing_signal",
                     "spacing_scale_completeness", "token_value_diversity"})
    BY SixAreFinite, Zenon
  <2> QED BY <1>2, <2>1
<1>5. \A d \in DOMAIN Weights : part[d] \in Nat BY <1>3
<1>6. ComputeQualityScore(t).composite = sum \div 100 BY DEF ComputeQualityScore
<1> HIDE DEF part
<1>7. sum \in Nat
  <2>1. Sums(part, DOMAIN Weights)[DOMAIN Weights] \in Nat BY <1>4, <1>5, SumIsNat
  <2> QED BY <2>1, Unroll DEF sum
<1> HIDE DEF sum
<1> QED BY <1>6, <1>7

\* A penalty lowers a score, and the near-default rule floors it.
LEMMA PenaltiesLower ==
    ASSUME NEW t, NEW c \in Nat
    PROVE  LET score == ApplyHeuristicPenalties(t, c).score
           IN  score \in Nat /\ score <= c /\ (DetectNearDefaultExtraction(t) => score = 0)
<1> DEFINE taken == FoldSet(LAMBDA p, n : n + Penalty[p], 0, Triggered(t))
<1>1. DOMAIN Penalty = {"all_system_font_stack", "all_common_default_colors",
                        "missing_accent_diversity", "display_equals_body"}
      /\ \A p \in DOMAIN Penalty : Penalty[p] \in Nat
  BY SMT DEF Penalty
<1>2. Triggered(t) \in SUBSET (DOMAIN Penalty) BY DEF Triggered
<1>3. IsFiniteSet(DOMAIN Penalty)
  <2>1. IsFiniteSet({"all_system_font_stack", "all_common_default_colors",
                     "missing_accent_diversity", "display_equals_body",
                     "display_equals_body", "display_equals_body"})
    BY SixAreFinite, Zenon
  <2> QED BY <1>1, <2>1
<1>4. IsFiniteSet(Triggered(t)) BY <1>2, <1>3, FS_Subset
<1>5. taken \in Nat
  <2>1. Sums(Penalty, Triggered(t))[Triggered(t)] \in Nat BY <1>1, <1>2, <1>4, SumIsNat
  <2> QED BY <2>1, Unroll DEF taken
<1>6. ApplyHeuristicPenalties(t, c).score =
         IF DetectNearDefaultExtraction(t) \/ c - taken < 0 THEN 0 ELSE c - taken
  BY DEF ApplyHeuristicPenalties
<1> HIDE DEF taken
<1> QED BY <1>5, <1>6

-----------------------------------------------------------------------------
(* The colours of a screenshot                                             *)

\* The colours of a screenshot, and its pixels whose colour is in one of the buckets.
Rgb == [1..3 -> 0..255]
Within(px, cells) == {c \in DOMAIN px : Bucket(c) \in cells}
Shot(px) == Natural(px, DOMAIN px) /\ DOMAIN px \subseteq Rgb

\* The sums of the model are the ones reasoned about.
LEMMA SumOverIsSum ==
    ASSUME NEW f, NEW S PROVE SumOver(f, S) = Sum(f, S)
BY Unroll DEF SumOver, Sum

\* The base of a bucket is within it.
LEMMA BucketNear ==
    ASSUME NEW c \in Rgb
    PROVE  \A i \in 1..3 : Bucket(c)[i] \in 0..255 /\ c[i] - Bucket(c)[i] \in 0..15
<1> SUFFICES ASSUME NEW i \in 1..3 PROVE Bucket(c)[i] \in 0..255 /\ c[i] - Bucket(c)[i] \in 0..15
  OBVIOUS
<1>1. \A n \in 0..255 : (n \div 16) * 16 \in 0..255 /\ n - (n \div 16) * 16 \in 0..15 OBVIOUS
<1>2. c[i] \in 0..255 BY DEF Rgb
<1>3. Bucket(c)[i] = (c[i] \div 16) * 16 BY DEF Bucket, QuantizationStep
<1> QED BY <1>1, <1>2, <1>3

\* What is near the base of a bucket is not far from a colour in it.
LEMMA NearBucket ==
    ASSUME NEW c \in Rgb, NEW d \in Rgb, DistanceSquared(Bucket(c), d) <= SimilaritySquared
    PROVE  DistanceSquared(c, d) <= 36 * 36
<1>1. ASSUME NEW u \in 0..15, NEW v \in Int
      PROVE  4 * ((u + v) * (u + v)) <= 1140 + 19 * (v * v)
  <2>1. u * u <= 225 /\ u * u \in Int /\ u * v \in Int /\ v * v \in Int OBVIOUS
  <2>2. v * v >= 0 /\ v * v >= 8 * v - 16
    <3>1. (v - 4) * (v - 4) >= 0 /\ (v - 4) * (v - 4) = v * v - 8 * v + 16 OBVIOUS
    <3> QED BY <2>1, <3>1
  <2>3. (u + v) * (u + v) = u * u + 2 * (u * v) + v * v OBVIOUS
  <2>4. CASE v >= 0
    <3>1. (15 - u) * v >= 0 /\ (15 - u) * v = 15 * v - u * v BY <2>4
    <3> QED BY <2>1, <2>2, <2>3, <3>1
  <2>5. CASE v < 0
    <3>1. u * v <= 0 BY <2>5
    <3> QED BY <2>1, <2>2, <2>3, <3>1
  <2> QED BY <2>4, <2>5
<1> DEFINE b == Bucket(c)
           Gap(i) == (b[i] - d[i]) * (b[i] - d[i])
           Far(i) == (c[i] - d[i]) * (c[i] - d[i])
<1>2. ASSUME NEW i \in 1..3
      PROVE  Far(i) \in Int /\ Gap(i) \in Int /\ 4 * Far(i) <= 1140 + 19 * Gap(i)
  <2>1. b[i] \in Int /\ c[i] \in Int /\ d[i] \in Int /\ c[i] - b[i] \in 0..15
    <3>1. b[i] \in 0..255 /\ c[i] - b[i] \in 0..15 BY BucketNear
    <3>2. c[i] \in 0..255 /\ d[i] \in 0..255 BY DEF Rgb
    <3> HIDE DEF b
    <3> QED BY <3>1, <3>2
  <2> HIDE DEF b
  <2>2. c[i] - d[i] = (c[i] - b[i]) + (b[i] - d[i]) BY <2>1
  <2>3. b[i] - d[i] \in Int BY <2>1
  <2> DEFINE u == c[i] - b[i]
             v == b[i] - d[i]
  <2>4. 4 * ((u + v) * (u + v)) <= 1140 + 19 * (v * v) /\ c[i] - d[i] = u + v
        /\ (u + v) * (u + v) \in Int /\ v * v \in Int
    <3>1. u \in 0..15 /\ v \in Int /\ c[i] - d[i] = u + v BY <2>1, <2>2, <2>3
    <3> HIDE DEF u, v
    <3> QED BY <1>1, <3>1
  <2> QED BY <2>4
<1>3. Gap(1) + Gap(2) + Gap(3) <= 64 BY DEF DistanceSquared, SimilaritySquared
<1>4. Far(1) + Far(2) + Far(3) = DistanceSquared(c, d) BY DEF DistanceSquared
<1> HIDE DEF Gap, Far
<1> QED BY <1>2, <1>3, <1>4

\* Buckets that are all large, taken together.
LEMMA LargeTogether ==
    ASSUME NEW px, Shot(px), NEW cells, IsFiniteSet(cells), NEW least \in Nat, NEW m \in Nat,
           \A k \in cells : Sum(px, Within(px, {k})) * m >= least
    PROVE  Sum(px, Within(px, cells)) * m >= least * Cardinality(cells)
<1> DEFINE V == {n \in Nat : \A t \in SUBSET cells : Cardinality(t) = n =>
                                Sum(px, Within(px, t)) * m >= least * n}
<1>1. ASSUME NEW t PROVE Natural(px, Within(px, t)) /\ Sum(px, Within(px, t)) \in Nat
  <2>1. IsFiniteSet(DOMAIN px) BY DEF Shot, Natural
  <2>2. IsFiniteSet(Within(px, t)) BY <2>1, FS_Subset DEF Within
  <2>3. Natural(px, Within(px, t)) BY <2>2 DEF Shot, Natural, Within
  <2> QED BY <2>3, SumFacts
<1>2. \A t \in SUBSET cells : IsFiniteSet(t) BY FS_Subset
<1>3. 0 \in V
  <2> SUFFICES ASSUME NEW t \in SUBSET cells, Cardinality(t) = 0
               PROVE  Sum(px, Within(px, t)) * m >= least * 0
    OBVIOUS
  <2> DEFINE s == Sum(px, Within(px, t))
  <2>1. s \in Nat BY <1>1
  <2> HIDE DEF s
  <2>2. s * m >= 0 /\ least * 0 = 0 BY <2>1
  <2> QED BY <2>2 DEF s
<1>4. ASSUME NEW n \in Nat, n \in V PROVE n + 1 \in V
  <2> SUFFICES ASSUME NEW t \in SUBSET cells, Cardinality(t) = n + 1
               PROVE  Sum(px, Within(px, t)) * m >= least * (n + 1)
    OBVIOUS
  <2>1. IsFiniteSet(t) /\ t # {} BY <1>2, FS_EmptySet
  <2>2. PICK k \in t : TRUE BY <2>1
  <2>3. Cardinality(t \ {k}) = n
    <3>1. Cardinality(t \ {k}) = Cardinality(t) - 1 BY <2>1, <2>2, FS_RemoveElement
    <3> QED BY <3>1
  <2> DEFINE A == Within(px, t \ {k})
             B == Within(px, {k})
  <2>4. Within(px, t) = A \union B /\ A \intersect B = {} BY <2>2 DEF Within
  <2>5. Natural(px, A \union B) BY <1>1, <2>4
  <2>6. Sum(px, A) \in Nat /\ Sum(px, B) \in Nat BY <1>1
  <2>7. Sum(px, A) * m >= least * n /\ Sum(px, B) * m >= least
    BY <1>4, <2>2, <2>3
  <2> HIDE DEF A, B
  <2>8. Sum(px, Within(px, t)) = Sum(px, A) + Sum(px, B) BY <2>4, <2>5, SumUnion
  <2>9. \A x, y \in Nat : (x + y) * m = x * m + y * m /\ x * m \in Nat /\ y * m \in Nat
    OBVIOUS
  <2>10. least * (n + 1) = least * n + least /\ least * n \in Nat OBVIOUS
  <2> QED BY <2>6, <2>7, <2>8, <2>9, <2>10
<1> HIDE DEF V
<1>5. Nat \subseteq V BY <1>3, <1>4, NatSet
<1>6. Cardinality(cells) \in V BY <1>5, FS_CardinalityType
<1> QED BY <1>6 DEF V

\* A colour that covers its share of the screenshot is among the largest.
LEMMA LargeIsTaken ==
    ASSUME NEW shot, Shot(shot.pixels), shot.transparent \in Nat,
           NEW c \in DOMAIN shot.pixels, shot.pixels[c] > 0,
           shot.pixels[c] * MaxDominantColors
             >= SumOver(shot.pixels, DOMAIN shot.pixels) + shot.transparent
    PROVE  Bucket(c) \in DOMAIN CountPixels(shot)
<1> DEFINE px == shot.pixels
           m == MaxDominantColors
           total == Sum(px, DOMAIN px) + shot.transparent
           keys == {Bucket(x) : x \in DOMAIN px}
           counts == [k \in keys |-> Sum(px, Within(px, {k}))]
           dominant == {k \in keys : counts[k] * 1000 >= FractionPerMille * total}
           b == Bucket(c)
<1>1. CountPixels(shot) = TakeLargest([k \in dominant |-> counts[k]])
  <2>1. \A k : Within(px, {k}) = {x \in DOMAIN px : Bucket(x) = k} BY DEF Within
  <2> DEFINE whole == SumOver(px, DOMAIN px) + shot.transparent
             sums == [k \in keys |-> SumOver(px, {x \in DOMAIN px : Bucket(x) = k})]
             kept == {k \in keys : sums[k] * 1000 >= FractionPerMille * whole}
  <2>2. CountPixels(shot) = TakeLargest([k \in kept |-> sums[k]]) BY Zenon DEF CountPixels
  <2>3. whole = total BY SumOverIsSum
  <2>4. sums = counts BY <2>1, SumOverIsSum
  <2>5. kept = dominant BY <2>3, <2>4
  <2> HIDE DEF kept, sums, whole
  <2> QED BY <2>2, <2>4, <2>5
<1>2. \A t : /\ Natural(px, Within(px, t)) /\ Sum(px, Within(px, t)) \in Nat
              /\ Sum(px, Within(px, t)) <= Sum(px, DOMAIN px) /\ Sum(px, DOMAIN px) \in Nat
  <2> TAKE t
  <2>1. Within(px, t) \in SUBSET DOMAIN px BY DEF Within
  <2>2. Natural(px, DOMAIN px) BY DEF Shot
  <2>3. IsFiniteSet(Within(px, t)) BY <2>1, <2>2, FS_Subset DEF Natural
  <2>4. Natural(px, Within(px, t)) BY <2>1, <2>2, <2>3 DEF Natural
  <2> QED BY <2>1, <2>2, <2>4, SumFacts, SumGrows
<1>3. total \in Nat /\ total >= px[c] /\ px[c] \in Nat /\ px[c] > 0
  <2>1. px[c] \in Nat BY DEF Shot, Natural
  <2>2. Sum(px, DOMAIN px) = Sum(px, DOMAIN px \ {c}) + px[c] BY SumFacts DEF Shot
  <2>3. Sum(px, DOMAIN px \ {c}) \in Nat
    <3>1. DOMAIN px \ {c} \in SUBSET DOMAIN px OBVIOUS
    <3> QED BY <3>1, SumGrows DEF Shot
  <2> QED BY <1>2, <2>1, <2>2, <2>3
<1>4. counts[b] \in Nat /\ counts[b] >= px[c] /\ b \in keys
  <2>1. c \in Within(px, {b}) BY DEF Within
  <2>2. Sum(px, Within(px, {b})) = Sum(px, Within(px, {b}) \ {c}) + px[c]
    BY <1>2, <2>1, SumFacts
  <2>3. Sum(px, Within(px, {b}) \ {c}) \in Nat
    <3>1. Within(px, {b}) \ {c} \in SUBSET Within(px, {b}) OBVIOUS
    <3> QED BY <1>2, <3>1, SumGrows
  <2> QED BY <1>2, <1>3, <2>2, <2>3
<1>5. \A k \in keys : counts[k] = Sum(px, Within(px, {k})) /\ counts[k] \in Nat BY <1>2
<1>6. px[c] * m >= total BY SumOverIsSum
<1>7. b \in dominant
  <2>1. m \in Nat \ {0} /\ FractionPerMille \in Nat /\ FractionPerMille * m <= 1000
    BY PaletteAssumption
  <2> HIDE DEF px, m, total, keys, counts, b
  <2>2. counts[b] * m >= total
    <3>1. counts[b] * m >= px[c] * m /\ px[c] * m \in Nat /\ counts[b] * m \in Nat
      BY <1>3, <1>4, <2>1
    <3> QED BY <1>3, <1>6, <3>1
  <2>3. FractionPerMille * total <= FractionPerMille * (counts[b] * m)
    BY <1>3, <1>4, <2>1, <2>2
  <2>4. FractionPerMille * (counts[b] * m) = (FractionPerMille * m) * counts[b]
    BY <1>4, <2>1
  <2>5. (FractionPerMille * m) * counts[b] <= 1000 * counts[b] BY <1>4, <2>1
  <2>6. /\ FractionPerMille * total \in Nat /\ (FractionPerMille * m) * counts[b] \in Nat
        /\ 1000 * counts[b] = counts[b] * 1000 /\ counts[b] * 1000 \in Nat
    BY <1>3, <1>4, <2>1
  <2> QED BY <1>4, <2>3, <2>4, <2>5, <2>6
<1> DEFINE ahead == {k \in dominant : k # b /\ counts[k] >= counts[b]}
<1>8. IsFiniteSet(dominant)
  <2>1. IsFiniteSet(DOMAIN px) BY DEF Shot, Natural
  <2> DEFINE f == [x \in DOMAIN px |-> Bucket(x)]
  <2>2. IsFiniteSet({f[x] : x \in DOMAIN px}) BY <2>1, ImageIsFinite
  <2>3. keys = {f[x] : x \in DOMAIN px} OBVIOUS
  <2> QED BY <2>2, <2>3, FS_Subset
<1>9. IsFiniteSet(ahead) /\ Cardinality(ahead) \in Nat BY <1>8, FS_Subset, FS_CardinalityType
<1>10. Cardinality(ahead) < m
  <2> DEFINE all == ahead \union {b}
             n == Cardinality(ahead)
             sum == Sum(px, Within(px, all))
  <2>1. IsFiniteSet(all) /\ Cardinality(all) = n + 1 BY <1>9, FS_AddElement
  <2>2. \A k \in all : Sum(px, Within(px, {k})) * m >= total
    <3> TAKE k \in all
    <3>1. k \in keys /\ counts[k] >= counts[b] /\ counts[k] \in Nat
      <4>1. k = b \/ k \in ahead OBVIOUS
      <4> HIDE DEF px, m, total, keys, counts, b
      <4>2. CASE k = b BY <1>4, <4>2
      <4>3. CASE k \in ahead BY <1>5, <4>3
      <4> QED BY <4>1, <4>2, <4>3
    <3>2. m \in Nat BY PaletteAssumption
    <3>3. counts[k] = Sum(px, Within(px, {k})) BY <1>5, <3>1
    <3> HIDE DEF px, m, total, keys, counts, b, dominant, ahead, all
    <3>4. counts[k] >= px[c] BY <1>3, <1>4, <3>1
    <3>5. counts[k] * m >= px[c] * m /\ px[c] * m \in Nat /\ counts[k] * m \in Nat
      BY <1>3, <3>1, <3>2, <3>4
    <3> QED BY <1>3, <1>6, <3>3, <3>5
  <2>3. sum * m >= total * (n + 1)
    <3>1. m \in Nat BY PaletteAssumption
    <3> HIDE DEF px, m, total, keys, counts, b, dominant, ahead, all
    <3>2. Shot(px) BY DEF px
    <3> QED BY <1>3, <2>1, <2>2, <3>1, <3>2, LargeTogether
  <2>4. sum \in Nat /\ sum <= total BY <1>2, <1>3
  <2>5. m \in Nat /\ n \in Nat BY <1>9, PaletteAssumption
  <2> SUFFICES ASSUME n >= m PROVE FALSE BY <2>5
  <2> HIDE DEF px, m, total, keys, counts, b, dominant, ahead, all, sum, n
  <2>6. sum * m <= total * m BY <1>3, <2>4, <2>5
  <2>7. total * (n + 1) = total * n + total /\ total * n >= total * m BY <1>3, <2>5
  <2>8. sum * m \in Nat /\ total * m \in Nat /\ total * n \in Nat BY <1>3, <2>4, <2>5
  <2> QED BY <1>3, <2>3, <2>6, <2>7, <2>8
<1>11. b \in Rgb BY BucketNear DEF Rgb, Bucket, Shot
<1> QED
  <2> DEFINE buckets == [k \in dominant |-> counts[k]]
             Before(x, y) == buckets[x] > buckets[y] \/ (buckets[x] = buckets[y] /\
                               (x[1] * 65536 + x[2] * 256 + x[3]
                                  < y[1] * 65536 + y[2] * 256 + y[3]))
             first == {y \in dominant : Before(y, b)}
  <2>1. first \subseteq ahead
    <3>1. \A y \in dominant : counts[y] \in Nat BY <1>5
    <3>2. counts[b] \in Nat BY <1>4
    <3>3. b[1] \in Int /\ b[2] \in Int /\ b[3] \in Int BY <1>11 DEF Rgb
    <3> HIDE DEF px, m, total, keys, counts, b, dominant
    <3> QED BY <1>7, <3>1, <3>2, <3>3
  <2>2. Cardinality(first) < m
    <3> HIDE DEF px, m, ahead, first
    <3>1. IsFiniteSet(first) /\ Cardinality(first) <= Cardinality(ahead) BY <1>9, <2>1, FS_Subset
    <3>2. Cardinality(first) \in Nat BY <3>1, FS_CardinalityType
    <3>3. m \in Nat BY PaletteAssumption DEF m
    <3> QED BY <1>9, <1>10, <3>1, <3>2, <3>3
  <2>3. DOMAIN TakeLargest(buckets) =
          {x \in dominant : Cardinality({y \in dominant : Before(y, x)}) < m}
    BY DEF TakeLargest
  <2>4. b \in DOMAIN TakeLargest(buckets)
    <3> HIDE DEF dominant, b, m, buckets, Before
    <3> QED BY <1>7, <2>2, <2>3 DEF first
  <2> HIDE DEF dominant, counts
  <2> QED BY <1>1, <2>4

-----------------------------------------------------------------------------
(* The root properties                                                     *)

Top(s) == CHOOSE x \in s : \A y \in s : x >= y

\* A set of numbers below a bound has a greatest.
LEMMA TopOf ==
    ASSUME NEW n \in Nat, NEW s \in SUBSET (1..n), s # {}
    PROVE  Top(s) \in s /\ \A y \in s : Top(s) >= y
<1>1. \A y \in s : y \in Nat /\ y <= n OBVIOUS
<1>2. \E x \in s : \A y \in s : x >= y
  <2> DEFINE V == {m \in Nat : \A t \in SUBSET Nat : t # {} /\ (\A y \in t : y <= m) =>
                                  \E x \in t : \A y \in t : x >= y}
  <2>1. 0 \in V
    <3> SUFFICES ASSUME NEW t \in SUBSET Nat, t # {}, \A y \in t : y <= 0
                 PROVE  \E x \in t : \A y \in t : x >= y
      OBVIOUS
    <3>1. \A y \in t : y = 0 OBVIOUS
    <3> QED BY <3>1
  <2>2. ASSUME NEW m \in Nat, m \in V PROVE m + 1 \in V
    <3> SUFFICES ASSUME NEW t \in SUBSET Nat, t # {}, \A y \in t : y <= m + 1
                 PROVE  \E x \in t : \A y \in t : x >= y
      OBVIOUS
    <3>1. CASE m + 1 \in t BY <3>1
    <3>2. CASE m + 1 \notin t
      <4>1. \A y \in t : y <= m BY <3>2
      <4> QED BY <2>2, <4>1
    <3> QED BY <3>1, <3>2
  <2> HIDE DEF V
  <2>3. Nat \subseteq V BY <2>1, <2>2, NatSet
  <2>4. n \in V BY <2>3
  <2> QED BY <1>1, <2>4 DEF V
<1> QED BY <1>2 DEF Top

\* A fold over a list whose step is a function of what was made so far and of
\* the next element, and of its parts.
FoldsOver(f, step, base, seq) ==
    f = [s \in SUBSET DOMAIN seq |->
            IF s = {} THEN base ELSE step[<<f[s \ {Top(s)}], seq[Top(s)]>>]]

FoldsUpTo(f, step, base, seq, A, n) ==
    /\ f \in [Small(DOMAIN seq, n) -> A]
    /\ \A s \in Small(DOMAIN seq, n) :
          f[s] = IF s = {} THEN base ELSE step[<<f[s \ {Top(s)}], seq[Top(s)]>>]

\* The recursion of a fold has a solution.
LEMMA FoldsExist ==
    ASSUME NEW n \in Nat, NEW seq, DOMAIN seq = 1..n, NEW A, NEW B,
           \A i \in DOMAIN seq : seq[i] \in B, NEW base \in A, NEW step \in [A \X B -> A]
    PROVE  \E f \in [SUBSET DOMAIN seq -> A] : FoldsOver(f, step, base, seq)
<1> DEFINE S == DOMAIN seq
           V == {m \in Nat : \E f : FoldsUpTo(f, step, base, seq, A, m)}
<1>0. IsFiniteSet(S) BY FS_Interval
<1>1. \A s \in SUBSET S : /\ IsFiniteSet(s) /\ Cardinality(s) \in Nat
                          /\ Cardinality(s) <= Cardinality(S)
                          /\ (Cardinality(s) = 0 <=> s = {})
  BY <1>0, Sizes
<1>2. \A s \in SUBSET S : s # {} => /\ Top(s) \in s /\ s \ {Top(s)} \in SUBSET S
                                    /\ Cardinality(s \ {Top(s)}) = Cardinality(s) - 1
  BY <1>1, TopOf, FS_RemoveElement
<1>3. 0 \in V
  <2> DEFINE f == [s \in Small(S, 0) |-> base]
  <2>1. ASSUME NEW s \in Small(S, 0) PROVE s = {}
    <3>1. s \in SUBSET S /\ Cardinality(s) <= 0 BY DEF Small
    <3>2. Cardinality(s) \in Nat /\ (Cardinality(s) = 0 <=> s = {}) BY <1>1, <3>1
    <3> QED BY <3>1, <3>2
  <2>2. FoldsUpTo(f, step, base, seq, A, 0) BY <2>1 DEF FoldsUpTo
  <2> QED BY <2>2
<1>4. ASSUME NEW m \in Nat, m \in V PROVE m + 1 \in V
  <2>1. PICK f : FoldsUpTo(f, step, base, seq, A, m) BY <1>4
  <2> DEFINE g == [s \in Small(S, m + 1) |->
                      IF s = {} THEN base ELSE step[<<f[s \ {Top(s)}], seq[Top(s)]>>]]
  <2>2. \A s \in Small(S, m + 1) : s # {} =>
           /\ s \ {Top(s)} \in Small(S, m) /\ s \ {Top(s)} \in Small(S, m + 1)
           /\ seq[Top(s)] \in B
    BY <1>1, <1>2 DEF Small
  <2>3. \A s \in Small(S, m) : s \in Small(S, m + 1) /\ g[s] = f[s]
    <3> TAKE s \in Small(S, m)
    <3>1. s \in Small(S, m + 1) BY <1>1 DEF Small
    <3>2. f[s] = IF s = {} THEN base ELSE step[<<f[s \ {Top(s)}], seq[Top(s)]>>]
      BY <2>1 DEF FoldsUpTo
    <3> QED BY <3>1, <3>2
  <2>4. g \in [Small(S, m + 1) -> A]
    <3>1. \A s \in Small(S, m) : f[s] \in A BY <2>1 DEF FoldsUpTo
    <3>2. \A a \in A, b \in B : step[<<a, b>>] \in A OBVIOUS
    <3> QED BY <2>2, <3>1, <3>2
  <2>5. \A s \in Small(S, m + 1) : s # {} => g[s \ {Top(s)}] = f[s \ {Top(s)}]
    BY <2>2, <2>3
  <2>6. FoldsUpTo(g, step, base, seq, A, m + 1)
    BY <2>4, <2>5 DEF FoldsUpTo
  <2> QED BY <2>6
<1> HIDE DEF V
<1>5. Nat \subseteq V BY <1>3, <1>4, NatSet
<1>6. Cardinality(S) \in Nat BY <1>0, FS_CardinalityType
<1>7. PICK f : FoldsUpTo(f, step, base, seq, A, Cardinality(S)) BY <1>5, <1>6 DEF V
<1>8. Small(S, Cardinality(S)) = SUBSET S BY <1>1 DEF Small
<1>9. f \in [SUBSET S -> A] BY <1>7, <1>8 DEF FoldsUpTo
<1>10. f = [s \in SUBSET S |-> IF s = {} THEN base ELSE step[<<f[s \ {Top(s)}], seq[Top(s)]>>]]
  BY <1>7, <1>8, <1>9 DEF FoldsUpTo
<1> QED BY <1>9, <1>10 DEF FoldsOver

\* The values of a fold over the beginnings of a list.
LEMMA Beginnings ==
    ASSUME NEW n \in Nat, NEW k \in 0..n
    PROVE  /\ 1..k \in SUBSET (1..n)
           /\ (1..0) = {}
           /\ k > 0 => 1..k # {} /\ Top(1..k) = k /\ (1..k) \ {k} = 1..(k - 1)
<1>1. 1..k \in SUBSET (1..n) /\ (1..0) = {} OBVIOUS
<1>2. ASSUME k > 0 PROVE 1..k # {} /\ Top(1..k) = k /\ (1..k) \ {k} = 1..(k - 1)
  <2>1. k \in 1..k BY <1>2
  <2>2. Top(1..k) \in 1..k /\ \A y \in 1..k : Top(1..k) >= y BY <1>1, <2>1, TopOf
  <2>3. Top(1..k) >= k BY <2>1, <2>2
  <2> QED BY <2>1, <2>2, <2>3
<1> QED BY <1>1, <1>2

\* The two folds of parse_root_custom_properties().
CaptureFold(captured, ds) == CHOOSE f : f =
    [s \in SUBSET DOMAIN ds |->
        IF s = {} THEN captured ELSE Capture(f[s \ {Top(s)}], ds[Top(s)])]
RuleFold(rules) == CHOOSE f : f =
    [s \in SUBSET DOMAIN rules |->
        IF s = {} THEN <<>> ELSE CaptureRule(f[s \ {Top(s)}], rules[Top(s)])]

\* A fold that adds up parts is a value of the function Sums.
\* The folds of the model are these.
LEMMA UnrollCapture ==
    ASSUME NEW captured, NEW ds
    PROVE  FoldLeft(Capture, captured, ds) = CaptureFold(captured, ds)[DOMAIN ds]
BY DEF FoldLeft, MapThenFoldSet, Max, CaptureFold, Top

\* A fold that adds up parts is a value of the function Sums.
LEMMA UnrollRules ==
    ASSUME NEW page
    PROVE  ParseRootCustomProperties(page) = RuleFold(page.rules)[DOMAIN page.rules]
BY DEF ParseRootCustomProperties, FoldLeft, MapThenFoldSet, Max, RuleFold, Top

\* The declarations a page can make.
Declarations(rules) ==
    UNION {{Declared(rules[i])[j] : j \in DOMAIN rules[i].vars} : i \in DOMAIN rules}

\* Rules in order, each with its declarations in order.
IsPage(rules) == IsList(rules) /\ \A i \in DOMAIN rules : IsList(rules[i].vars)

\* Capturing a declaration makes a list of declarations.
LEMMA CaptureType ==
    ASSUME NEW D, NEW captured \in Seq(D), NEW d \in D
    PROVE  Capture(captured, d) \in Seq(D)
<1> DEFINE same == {i \in DOMAIN captured : captured[i].on = d.on /\ captured[i].name = d.name}
           new == [i \in DOMAIN captured |-> IF i \in same THEN d ELSE captured[i]]
<1>1. Capture(captured, d) \in {new, captured, Append(captured, d)}
  BY Zenon DEF Capture
<1>2. new \in Seq(D)
  <2>1. DOMAIN captured = 1..Len(captured) /\ Len(captured) \in Nat OBVIOUS
  <2>2. \A i \in 1..Len(captured) : captured[i] \in D OBVIOUS
  <2> HIDE DEF same
  <2>3. new \in [1..Len(captured) -> D] BY <2>1, <2>2
  <2> HIDE DEF new
  <2> QED BY <2>1, <2>3
<1>3. Append(captured, d) \in Seq(D) OBVIOUS
<1> HIDE DEF new
<1> QED BY <1>1, <1>2, <1>3

\* The fold over the declarations of a rule.
LEMMA CaptureSolves ==
    ASSUME NEW D, NEW captured \in Seq(D), NEW n \in Nat, NEW ds, DOMAIN ds = 1..n,
           \A i \in 1..n : ds[i] \in D
    PROVE  LET f == CaptureFold(captured, ds) IN
           /\ f[1..0] = captured
           /\ \A k \in 1..n : f[1..k] = Capture(f[1..(k - 1)], ds[k])
<1> DEFINE step == [p \in Seq(D) \X D |-> Capture(p[1], p[2])]
<1>1. step \in [Seq(D) \X D -> Seq(D)]
  <2>1. \A p \in Seq(D) \X D : Capture(p[1], p[2]) \in Seq(D) BY CaptureType
  <2> QED BY <2>1
<1>2. PICK f \in [SUBSET DOMAIN ds -> Seq(D)] : FoldsOver(f, step, captured, ds)
  <2> HIDE DEF step
  <2> QED BY <1>1, FoldsExist
<1>3. \A s \in SUBSET DOMAIN ds : s # {} => /\ s \ {Top(s)} \in SUBSET DOMAIN ds
                                            /\ ds[Top(s)] \in D
  BY TopOf
<1>4. f = [s \in SUBSET DOMAIN ds |->
             IF s = {} THEN captured ELSE Capture(f[s \ {Top(s)}], ds[Top(s)])]
  <2>1. \A s \in SUBSET DOMAIN ds : s # {} =>
           step[<<f[s \ {Top(s)}], ds[Top(s)]>>] = Capture(f[s \ {Top(s)}], ds[Top(s)])
    BY <1>3
  <2> HIDE DEF step
  <2>2. f = [s \in SUBSET DOMAIN ds |->
                IF s = {} THEN captured ELSE step[<<f[s \ {Top(s)}], ds[Top(s)]>>]]
    BY <1>2 DEF FoldsOver
  <2>3. \A s \in SUBSET DOMAIN ds :
           f[s] = IF s = {} THEN captured ELSE Capture(f[s \ {Top(s)}], ds[Top(s)])
    BY <2>1, <2>2
  <2> QED BY <2>3
<1> DEFINE g == CaptureFold(captured, ds)
<1>5. g = [s \in SUBSET DOMAIN ds |->
             IF s = {} THEN captured ELSE Capture(g[s \ {Top(s)}], ds[Top(s)])]
  BY <1>4 DEF CaptureFold
<1> HIDE DEF g
<1>6. g[1..0] = captured BY <1>5, Beginnings
<1>7. ASSUME NEW k \in 1..n PROVE g[1..k] = Capture(g[1..(k - 1)], ds[k])
  <2>1. /\ 1..k \in SUBSET DOMAIN ds /\ 1..k # {} /\ Top(1..k) = k
        /\ (1..k) \ {k} = 1..(k - 1)
    BY Beginnings
  <2> QED BY <1>5, <2>1
<1> QED BY <1>6, <1>7 DEF g

\* A fold of them keeps the type.
LEMMA CapturesType ==
    ASSUME NEW D, NEW captured \in Seq(D), NEW n \in Nat, NEW ds, DOMAIN ds = 1..n,
           \A i \in 1..n : ds[i] \in D
    PROVE  FoldLeft(Capture, captured, ds) \in Seq(D)
<1> DEFINE f == CaptureFold(captured, ds)
           V == {k \in Nat : k <= n => f[1..k] \in Seq(D)}
<1>1. /\ f[1..0] = captured
      /\ \A k \in 1..n : f[1..k] = Capture(f[1..(k - 1)], ds[k])
  BY CaptureSolves
<1> HIDE DEF f
<1>2. 0 \in V BY <1>1
<1>3. ASSUME NEW k \in Nat, k \in V PROVE k + 1 \in V
  <2> SUFFICES ASSUME k + 1 <= n PROVE f[1..(k + 1)] \in Seq(D)
    OBVIOUS
  <2>1. f[1..k] \in Seq(D) /\ k + 1 \in 1..n /\ (k + 1) - 1 = k BY <1>3
  <2>2. f[1..(k + 1)] = Capture(f[1..k], ds[k + 1]) BY <1>1, <2>1
  <2> QED BY <2>1, <2>2, CaptureType
<1> HIDE DEF V
<1>4. n \in V BY <1>2, <1>3, NatSet
<1> QED BY <1>4, UnrollCapture DEF V, f

\* So does reading a rule.
LEMMA RuleType ==
    ASSUME NEW D, NEW captured \in Seq(D), NEW rule, IsList(rule.vars),
           \A i \in DOMAIN rule.vars : Declared(rule)[i] \in D
    PROVE  CaptureRule(captured, rule) \in Seq(D)
<1>1. DOMAIN Declared(rule) = 1..Len(rule.vars) /\ Len(rule.vars) \in Nat
  BY DEF Declared, IsList
<1>2. FoldLeft(Capture, captured, Declared(rule)) \in Seq(D) BY <1>1, CapturesType DEF Declared
<1> QED BY <1>2 DEF CaptureRule

\* The fold over the rules.
LEMMA RulesSolve ==
    ASSUME NEW rules, IsPage(rules)
    PROVE  LET f == RuleFold(rules) IN
           /\ f[1..0] = <<>>
           /\ \A k \in DOMAIN rules : /\ f[1..(k - 1)] \in Seq(Declarations(rules))
                                       /\ f[1..k] = CaptureRule(f[1..(k - 1)], rules[k])
<1> DEFINE D == Declarations(rules)
           n == Len(rules)
           B == {rules[i] : i \in DOMAIN rules}
           step == [p \in Seq(D) \X B |-> CaptureRule(p[1], p[2])]
<1>0. n \in Nat /\ DOMAIN rules = 1..n BY DEF IsPage, IsList
<1>a. ASSUME NEW i \in DOMAIN rules, NEW c \in Seq(D) PROVE CaptureRule(c, rules[i]) \in Seq(D)
  <2>1. IsList(rules[i].vars) BY DEF IsPage
  <2>2. \A j \in DOMAIN rules[i].vars : Declared(rules[i])[j] \in D
    BY DEF Declarations
  <2> QED BY <2>1, <2>2, RuleType
<1>1. step \in [Seq(D) \X B -> Seq(D)]
  <2> HIDE DEF D
  <2> QED BY <1>a
<1>2. PICK f \in [SUBSET DOMAIN rules -> Seq(D)] : FoldsOver(f, step, <<>>, rules)
  <2>1. <<>> \in Seq(D) /\ \A i \in DOMAIN rules : rules[i] \in B OBVIOUS
  <2> HIDE DEF step, D, B
  <2> QED BY <1>0, <1>1, <2>1, FoldsExist
<1>3. \A s \in SUBSET DOMAIN rules : s # {} => /\ s \ {Top(s)} \in SUBSET DOMAIN rules
                                               /\ rules[Top(s)] \in B
  BY <1>0, TopOf
<1> HIDE DEF B, D
<1>4. f = [s \in SUBSET DOMAIN rules |->
             IF s = {} THEN <<>> ELSE CaptureRule(f[s \ {Top(s)}], rules[Top(s)])]
  <2>1. \A s \in SUBSET DOMAIN rules : s # {} =>
           step[<<f[s \ {Top(s)}], rules[Top(s)]>>] = CaptureRule(f[s \ {Top(s)}], rules[Top(s)])
    BY <1>3
  <2> HIDE DEF step
  <2>2. f = [s \in SUBSET DOMAIN rules |->
                IF s = {} THEN <<>> ELSE step[<<f[s \ {Top(s)}], rules[Top(s)]>>]]
    BY <1>2 DEF FoldsOver
  <2>3. \A s \in SUBSET DOMAIN rules :
           f[s] = IF s = {} THEN <<>> ELSE CaptureRule(f[s \ {Top(s)}], rules[Top(s)])
    BY <2>1, <2>2
  <2> QED BY <2>3
<1> DEFINE g == RuleFold(rules)
<1>5. g = [s \in SUBSET DOMAIN rules |->
             IF s = {} THEN <<>> ELSE CaptureRule(g[s \ {Top(s)}], rules[Top(s)])]
  BY <1>4 DEF RuleFold
<1> HIDE DEF g
<1>6. g[1..0] = <<>> BY <1>0, <1>5, Beginnings
<1>7. ASSUME NEW k \in 1..n PROVE g[1..k] = CaptureRule(g[1..(k - 1)], rules[k])
  <2>1. /\ 1..k \in SUBSET DOMAIN rules /\ 1..k # {} /\ Top(1..k) = k
        /\ (1..k) \ {k} = 1..(k - 1)
    <3>1. k \in 0..n /\ k > 0 BY <1>0
    <3> QED BY <1>0, <3>1, Beginnings
  <2> QED BY <1>5, <2>1
<1> DEFINE V == {k \in Nat : k <= n => g[1..k] \in Seq(D)}
<1>8. 0 \in V
  <2>1. <<>> \in Seq(D) OBVIOUS
  <2> QED BY <1>6, <2>1
<1>9. ASSUME NEW k \in Nat, k \in V PROVE k + 1 \in V
  <2> SUFFICES ASSUME k + 1 <= n PROVE g[1..(k + 1)] \in Seq(D)
    OBVIOUS
  <2>1. g[1..k] \in Seq(D) /\ k + 1 \in 1..n /\ (k + 1) - 1 = k BY <1>0, <1>9
  <2>2. g[1..(k + 1)] = CaptureRule(g[1..k], rules[k + 1]) BY <1>7, <2>1
  <2> QED BY <1>0, <1>a, <2>1, <2>2
<1> HIDE DEF V
<1>10. Nat \subseteq V BY <1>8, <1>9, NatSet
<1>11. ASSUME NEW k \in DOMAIN rules PROVE g[1..(k - 1)] \in Seq(D)
  <2>1. k - 1 \in Nat /\ k - 1 <= n BY <1>0
  <2> QED BY <1>10, <2>1 DEF V
<1> QED BY <1>0, <1>6, <1>7, <1>11 DEF g, D

\* The root rules, a declaration of one, and what replaces what.
Root(rules) == {i \in DOMAIN rules : SelectorIsRootLevel(rules[i].on)}
Said(rules, i, j) == Declared(rules[i])[j]
Key(d) == <<d.on, d.name>>

\* The declaration at <<i, j>> is not after <<k, l>>.
UpTo(i, j, k, l) == i < k \/ (i = k /\ j <= l)

\* A declaration some root rule makes up to <<k, l>>, and none up to there
\* declares again.
Standing(rules, d, k, l) ==
    \E i \in Root(rules) : \E j \in DOMAIN rules[i].vars :
        /\ UpTo(i, j, k, l) /\ d = Said(rules, i, j)
        /\ \A p \in Root(rules) : \A q \in DOMAIN rules[p].vars :
              UpTo(p, q, k, l) /\ ~UpTo(p, q, i, j) => Key(Said(rules, p, q)) # Key(d)

\* Within the cap, all that is captured stands.
CurrentTo(captured, rules, k, l) ==
    /\ Len(captured) <= MaxCapturedProperties
    /\ \A x \in DOMAIN captured : Standing(rules, captured[x], k, l)

\* A declaration stands until its name is declared again.
LEMMA StandingStays ==
    ASSUME NEW rules, IsPage(rules), NEW k \in Root(rules), NEW l \in Nat,
           l + 1 \in DOMAIN rules[k].vars,
           NEW d, Standing(rules, d, k, l), Key(d) # Key(Said(rules, k, l + 1))
    PROVE  Standing(rules, d, k, l + 1)
<1>0. PICK i \in Root(rules) : \E j \in DOMAIN rules[i].vars :
        /\ UpTo(i, j, k, l) /\ d = Said(rules, i, j)
        /\ \A p \in Root(rules) : \A q \in DOMAIN rules[p].vars :
              UpTo(p, q, k, l) /\ ~UpTo(p, q, i, j) => Key(Said(rules, p, q)) # Key(d)
  BY DEF Standing
<1>1. PICK j \in DOMAIN rules[i].vars :
        /\ UpTo(i, j, k, l) /\ d = Said(rules, i, j)
        /\ \A p \in Root(rules) : \A q \in DOMAIN rules[p].vars :
              UpTo(p, q, k, l) /\ ~UpTo(p, q, i, j) => Key(Said(rules, p, q)) # Key(d)
  BY <1>0
<1>2. \A p \in Root(rules) : p \in Nat /\ \A q \in DOMAIN rules[p].vars : q \in Nat
  BY DEF Root, IsPage, IsList
<1>3. UpTo(i, j, k, l + 1) BY <1>1, <1>2 DEF UpTo
<1>4. ASSUME NEW p \in Root(rules), NEW q \in DOMAIN rules[p].vars,
             UpTo(p, q, k, l + 1), ~UpTo(p, q, i, j)
      PROVE  Key(Said(rules, p, q)) # Key(d)
  <2>1. CASE UpTo(p, q, k, l) BY <1>1, <1>4, <2>1
  <2>2. CASE ~UpTo(p, q, k, l)
    <3>1. p = k /\ q = l + 1 BY <1>2, <1>4, <2>2 DEF UpTo
    <3> QED BY <3>1
  <2> QED BY <2>1, <2>2
<1> QED BY <1>1, <1>3, <1>4 DEF Standing

\* The last declaration stands.
LEMMA LastStands ==
    ASSUME NEW rules, IsPage(rules), NEW k \in Root(rules), NEW l \in DOMAIN rules[k].vars
    PROVE  Standing(rules, Said(rules, k, l), k, l)
<1>1. k \in Nat /\ l \in Nat BY DEF Root, IsPage, IsList
<1>2. UpTo(k, l, k, l) BY <1>1 DEF UpTo
<1> QED BY <1>2 DEF Standing

\* Capturing the next declaration keeps what is captured current.
LEMMA CaptureCurrent ==
    ASSUME NEW rules, IsPage(rules), NEW k \in Root(rules), NEW l \in Nat,
           l + 1 \in DOMAIN rules[k].vars,
           NEW captured \in Seq(Declarations(rules)), CurrentTo(captured, rules, k, l)
    PROVE  CurrentTo(Capture(captured, Said(rules, k, l + 1)), rules, k, l + 1)
<1> DEFINE d == Said(rules, k, l + 1)
           same == {i \in DOMAIN captured : captured[i].on = d.on /\ captured[i].name = d.name}
           new == [i \in DOMAIN captured |-> IF i \in same THEN d ELSE captured[i]]
<1>1. Capture(captured, d) =
        IF same # {} THEN new
        ELSE IF Len(captured) >= MaxCapturedProperties THEN captured
        ELSE Append(captured, d)
  BY Zenon DEF Capture
<1>2. Standing(rules, d, k, l + 1) BY LastStands
<1>3. \A x \in DOMAIN captured : x \notin same => Standing(rules, captured[x], k, l + 1)
  <2> TAKE x \in DOMAIN captured
  <2> HAVE x \notin same
  <2>1. Key(captured[x]) # Key(d) BY DEF Key
  <2>2. Standing(rules, captured[x], k, l) BY DEF CurrentTo
  <2> QED BY <2>1, <2>2, StandingStays
<1>4. DOMAIN captured = 1..Len(captured) /\ Len(captured) \in Nat
      /\ Len(captured) <= MaxCapturedProperties /\ MaxCapturedProperties \in Nat
  BY CaptureAssumption DEF CurrentTo
<1>5. CASE same # {}
  <2>1. Capture(captured, d) = new BY <1>1, <1>5
  <2>2. DOMAIN new = DOMAIN captured /\ Len(new) = Len(captured)
    <3>1. DOMAIN new = 1..Len(captured) BY <1>4
    <3>2. new \in [1..Len(captured) -> {new[i] : i \in DOMAIN captured}]
      <4> HIDE DEF same, d
      <4> QED BY <1>4
    <3> HIDE DEF new
    <3>3. new \in Seq({new[i] : i \in DOMAIN captured}) BY <1>4, <3>2
    <3> QED BY <1>4, <3>1, <3>3
  <2>3. \A x \in DOMAIN captured : Standing(rules, new[x], k, l + 1)
    <3> HIDE DEF d, same
    <3> QED BY <1>2, <1>3
  <2> HIDE DEF new, d, same
  <2> QED BY <1>4, <2>1, <2>2, <2>3 DEF CurrentTo, d
<1>6. CASE same = {} /\ Len(captured) >= MaxCapturedProperties
  <2>1. Capture(captured, d) = captured BY <1>1, <1>6
  <2>2. \A x \in DOMAIN captured : Standing(rules, captured[x], k, l + 1) BY <1>3, <1>6
  <2> HIDE DEF same, new
  <2> QED BY <1>4, <2>1, <2>2 DEF CurrentTo
<1>7. CASE same = {} /\ ~(Len(captured) >= MaxCapturedProperties)
  <2>1. Capture(captured, d) = Append(captured, d) BY <1>1, <1>7
  <2>2. \A x \in DOMAIN captured : Standing(rules, captured[x], k, l + 1) BY <1>3, <1>7
  <2> HIDE DEF same, new, d
  <2>3. /\ Len(Append(captured, d)) = Len(captured) + 1
        /\ \A x \in DOMAIN Append(captured, d) :
              Append(captured, d)[x] = IF x \in DOMAIN captured THEN captured[x] ELSE d
    BY <1>4
  <2> QED BY <1>2, <1>4, <1>7, <2>1, <2>2, <2>3 DEF CurrentTo, d
<1> QED BY <1>5, <1>6, <1>7

\* So do all the declarations of a rule.
LEMMA RuleCurrent ==
    ASSUME NEW rules, IsPage(rules), NEW k \in Root(rules),
           NEW captured \in Seq(Declarations(rules)), CurrentTo(captured, rules, k, 0)
    PROVE  CurrentTo(FoldLeft(Capture, captured, Declared(rules[k])), rules, k, Len(rules[k].vars))
<1> DEFINE D == Declarations(rules)
           ds == Declared(rules[k])
           n == Len(rules[k].vars)
           f == CaptureFold(captured, ds)
           V == {l \in Nat : l <= n => f[1..l] \in Seq(D) /\ CurrentTo(f[1..l], rules, k, l)}
<1>1. n \in Nat /\ DOMAIN rules[k].vars = 1..n /\ k \in DOMAIN rules
  BY DEF IsPage, IsList, Root
<1>2. DOMAIN ds = 1..n /\ \A l \in 1..n : ds[l] \in D
  BY <1>1 DEF Declared, Declarations
<1> HIDE DEF D, ds, n
<1>3. f[1..0] = captured /\ \A l \in 1..n : f[1..l] = Capture(f[1..(l - 1)], ds[l])
  <2>1. captured \in Seq(D) BY DEF D
  <2> QED BY <1>1, <1>2, <2>1, CaptureSolves
<1> HIDE DEF f
<1>4. 0 \in V BY <1>3 DEF D
<1>5. ASSUME NEW l \in Nat, l \in V PROVE l + 1 \in V
  <2> SUFFICES ASSUME l + 1 <= n
               PROVE  f[1..(l + 1)] \in Seq(D) /\ CurrentTo(f[1..(l + 1)], rules, k, l + 1)
    OBVIOUS
  <2>1. /\ f[1..l] \in Seq(D) /\ CurrentTo(f[1..l], rules, k, l)
        /\ l + 1 \in 1..n /\ (l + 1) - 1 = l
    BY <1>1, <1>5
  <2>2. f[1..(l + 1)] = Capture(f[1..l], ds[l + 1]) BY <1>3, <2>1
  <2>3. f[1..(l + 1)] \in Seq(D) BY <1>2, <2>1, <2>2, CaptureType
  <2>4. CurrentTo(Capture(f[1..l], Said(rules, k, l + 1)), rules, k, l + 1)
    <3> HIDE DEF V
    <3> QED BY <1>1, <2>1, CaptureCurrent DEF D
  <2> QED BY <2>2, <2>3, <2>4 DEF Said, ds
<1> HIDE DEF V
<1>6. n \in V BY <1>1, <1>4, <1>5, NatSet
<1>7. CurrentTo(f[DOMAIN ds], rules, k, n) BY <1>1, <1>2, <1>6 DEF V
<1> QED BY <1>7, UnrollCapture DEF f, ds, n

\* Between the last declaration of a rule and the first of the next there is none.
LEMMA NextRule ==
    ASSUME NEW rules, IsPage(rules), NEW k \in DOMAIN rules, NEW l \in Nat,
           k \in Root(rules) => l = Len(rules[k].vars),
           NEW captured, CurrentTo(captured, rules, k, l)
    PROVE  CurrentTo(captured, rules, k + 1, 0)
<1>1. \A p \in Root(rules) : /\ p \in Nat
                             /\ Len(rules[p].vars) \in Nat
                             /\ DOMAIN rules[p].vars = 1..Len(rules[p].vars)
  BY DEF Root, IsPage, IsList
<1>2. k \in Nat BY DEF IsPage, IsList
<1>3. \A p \in Root(rules) : \A q \in DOMAIN rules[p].vars :
         UpTo(p, q, k, l) <=> UpTo(p, q, k + 1, 0)
  <2> TAKE p \in Root(rules)
  <2> TAKE q \in DOMAIN rules[p].vars
  <2>1. q \in Nat /\ q >= 1 /\ q <= Len(rules[p].vars) BY <1>1
  <2>2. p = k => q <= l BY <2>1
  <2> QED BY <1>1, <1>2, <2>1, <2>2 DEF UpTo
<1>4. ASSUME NEW d, Standing(rules, d, k, l) PROVE Standing(rules, d, k + 1, 0)
  <2>1. PICK i \in Root(rules) : \E j \in DOMAIN rules[i].vars :
          /\ UpTo(i, j, k, l) /\ d = Said(rules, i, j)
          /\ \A p \in Root(rules) : \A q \in DOMAIN rules[p].vars :
                UpTo(p, q, k, l) /\ ~UpTo(p, q, i, j) => Key(Said(rules, p, q)) # Key(d)
    BY <1>4 DEF Standing
  <2> QED BY <1>3, <2>1 DEF Standing
<1> QED BY <1>4 DEF CurrentTo

\* What is captured of a page is current when its last rule is read.
LEMMA PageCurrent ==
    ASSUME NEW page, IsPage(page.rules)
    PROVE  CurrentTo(ParseRootCustomProperties(page), page.rules, Len(page.rules) + 1, 0)
<1> DEFINE rules == page.rules
           n == Len(rules)
           f == RuleFold(rules)
           V == {k \in Nat : k <= n => CurrentTo(f[1..k], rules, k + 1, 0)}
<1>1. n \in Nat /\ DOMAIN rules = 1..n BY DEF IsPage, IsList
<1>2. /\ f[1..0] = <<>>
      /\ \A k \in DOMAIN rules : /\ f[1..(k - 1)] \in Seq(Declarations(rules))
                                  /\ f[1..k] = CaptureRule(f[1..(k - 1)], rules[k])
  <2> HIDE DEF rules
  <2>1. IsPage(rules) BY DEF rules
  <2> QED BY <2>1, RulesSolve
<1>3. IsPage(rules) OBVIOUS
<1> HIDE DEF f, n, rules
<1>4. 0 \in V BY <1>2, CaptureAssumption DEF CurrentTo
<1>5. ASSUME NEW k \in Nat, k \in V PROVE k + 1 \in V
  <2> SUFFICES ASSUME k + 1 <= n PROVE CurrentTo(f[1..(k + 1)], rules, (k + 1) + 1, 0)
    OBVIOUS
  <2> DEFINE m == k + 1
  <2>1. m \in DOMAIN rules /\ m - 1 = k /\ m \in Nat BY <1>1
  <2>2. CurrentTo(f[1..k], rules, m, 0) BY <1>1, <1>5
  <2> HIDE DEF V, m
  <2>3. f[1..k] \in Seq(Declarations(rules)) /\ f[1..m] = CaptureRule(f[1..k], rules[m])
    BY <1>2, <2>1
  <2>4. CASE m \in Root(rules)
    <3>1. f[1..m] = FoldLeft(Capture, f[1..k], Declared(rules[m]))
      BY <2>3, <2>4 DEF CaptureRule, Root
    <3>2. CurrentTo(f[1..m], rules, m, Len(rules[m].vars))
      BY <1>3, <2>2, <2>3, <2>4, <3>1, RuleCurrent
    <3>3. Len(rules[m].vars) \in Nat BY <1>3, <2>1 DEF IsPage, IsList
    <3>4. CurrentTo(f[1..m], rules, m + 1, 0) BY <1>3, <2>1, <3>2, <3>3, NextRule
    <3> QED BY <3>4 DEF m
  <2>5. CASE m \notin Root(rules)
    <3>1. f[1..m] = f[1..k] BY <2>1, <2>3, <2>5 DEF CaptureRule, Root
    <3>2. CurrentTo(f[1..m], rules, m + 1, 0) BY <1>3, <2>1, <2>2, <2>5, <3>1, NextRule
    <3> QED BY <3>2 DEF m
  <2> QED BY <2>4, <2>5
<1> HIDE DEF V
<1>6. n \in V BY <1>1, <1>4, <1>5, NatSet
<1>7. CurrentTo(f[DOMAIN rules], rules, n + 1, 0) BY <1>1, <1>6 DEF V
<1> QED BY <1>7, UnrollRules DEF f, n, rules

-----------------------------------------------------------------------------
(* What a prompt shows                                                     *)

\* What a site gives a screenshot.
LEMMA SiteFacts ==
    ASSUME NEW r \in Request
    PROVE  LET shot == What[r].rendering IN
           /\ Shot(shot.pixels) /\ shot.transparent \in Nat
           /\ \A c \in DOMAIN shot.pixels : c \in Rgb /\ shot.pixels[c] > 0
           /\ \A v \in DOMAIN What[r].colors : What[r].colors[v] \subseteq Rgb
<1> DEFINE shot == What[r].rendering
<1>1. /\ IsFiniteSet(DOMAIN shot.pixels) /\ DOMAIN shot.pixels \subseteq Rgb
      /\ \A c \in DOMAIN shot.pixels : shot.pixels[c] \in Nat \ {0}
      /\ shot.transparent \in Nat
      /\ \A v \in DOMAIN What[r].colors : What[r].colors[v] \subseteq Rgb
  BY SiteAssumption DEF Rgb
<1> HIDE DEF shot
<1>2. Natural(shot.pixels, DOMAIN shot.pixels) BY <1>1 DEF Natural
<1>3. \A c \in DOMAIN shot.pixels : c \in Rgb /\ shot.pixels[c] > 0 BY <1>1
<1> QED BY <1>1, <1>2, <1>3 DEF Shot, shot

\* The colours a prompt says are missed include the large ones far from the
\* declared ones.
LargeAreIn(rendering, declared, colors) ==
    LET total == SumOver(rendering.pixels, DOMAIN rendering.pixels) + rendering.transparent
    IN  \A c \in DOMAIN rendering.pixels :
          (/\ rendering.pixels[c] * MaxDominantColors >= total
           /\ \A d \in declared : DistanceSquared(c, d) > 36 * 36)
          => Bucket(c) \in colors

\* They are, in the prompt and in the warning, if the screenshot was taken.
LEMMA LargeAreFiltered ==
    ASSUME NEW r \in Request, NEW declared \in SUBSET Rgb, What[r].rendering.shot = "ok"
    PROVE  LET rendering == What[r].rendering
               palette == CaptureScreenshotPalette(rendering)
           IN  LargeAreIn(rendering, declared,
                   PaletteCompletenessWarning(palette, declared)
                     \intersect RenderPalette(palette, declared))
<1> DEFINE rendering == What[r].rendering
           palette == CaptureScreenshotPalette(rendering)
           total == SumOver(rendering.pixels, DOMAIN rendering.pixels) + rendering.transparent
<1>1. palette.status = "ok" /\ palette.colors = CountPixels(rendering)
  BY DEF CaptureScreenshotPalette
<1> SUFFICES ASSUME NEW c \in DOMAIN rendering.pixels,
                    rendering.pixels[c] * MaxDominantColors >= total,
                    \A d \in declared : DistanceSquared(c, d) > 36 * 36
             PROVE  Bucket(c) \in PaletteCompletenessWarning(palette, declared)
                      \intersect RenderPalette(palette, declared)
  BY DEF LargeAreIn
<1>2. Bucket(c) \in DOMAIN CountPixels(rendering) BY SiteFacts, LargeIsTaken
<1>3. ASSUME NEW d \in declared PROVE DistanceSquared(Bucket(c), d) > SimilaritySquared
  <2>1. c \in Rgb /\ d \in Rgb BY SiteFacts
  <2>2. DistanceSquared(Bucket(c), d) \in Int /\ DistanceSquared(c, d) \in Int
    <3>1. \A i \in 1..3 : Bucket(c)[i] \in Int BY <2>1, BucketNear
    <3>2. \A i \in 1..3 : c[i] \in Int /\ d[i] \in Int BY <2>1 DEF Rgb
    <3> QED BY <3>1, <3>2 DEF DistanceSquared
  <2>3. DistanceSquared(c, d) > 36 * 36 OBVIOUS
  <2>4. SimilaritySquared \in Int BY DEF SimilaritySquared
  <2> QED BY <2>1, <2>2, <2>3, <2>4, NearBucket
<1> HIDE DEF rendering, palette
<1>4. Bucket(c) \in FilterAgainstDeclared(palette, declared)
  BY <1>1, <1>2, <1>3 DEF FilterAgainstDeclared
<1> QED BY <1>1, <1>2, <1>4 DEF PaletteCompletenessWarning, RenderPalette

\* Declared colours are colours.
LEMMA DeclaredAreColors ==
    ASSUME NEW r \in Request, NEW byName, NEW styles
    PROVE  DeclaredHexColors(What[r].colors, byName, styles) \in SUBSET Rgb
<1> DEFINE literals == {byName[n].lit : n \in DOMAIN byName}
           computed == IF styles.status # "ok" THEN {}
                       ELSE UNION {styles.signals[i].properties : i \in DOMAIN styles.signals}
<1>1. DeclaredHexColors(What[r].colors, byName, styles) =
        UNION {What[r].colors[v] :
                 v \in (literals \union computed) \intersect DOMAIN What[r].colors}
  BY DEF DeclaredHexColors
<1> HIDE DEF literals, computed
<1>2. \A v \in DOMAIN What[r].colors : What[r].colors[v] \subseteq Rgb BY SiteFacts
<1> QED BY <1>1, <1>2

\* What a prompt shows of a screenshot and of the root properties.
PromptKept(w) ==
    /\ prompt[w].palette.status = "ok" =>
          LargeAreIn(What[req[w]].rendering, prompt[w].declared,
                     prompt[w].warning.missed \intersect prompt[w].block)
    /\ LET rules == What[req[w]].page.rules
       IN  CurrentTo(prompt[w].captured, rules, Len(rules) + 1, 0)

\* What every prompt shows.
PromptInv ==
    /\ req \in [Worker -> Request] /\ DOMAIN prompt = Worker
    /\ \A w \in Worker : PromptKept(w)

\* The prompt a thread gathers shows them.
LEMMA GatherShows ==
    ASSUME PromptInv, NEW w \in Worker, Gather(w)
    PROVE  PromptKept(w)'
<1> DEFINE it == What[req[w]]
           palette == CaptureScreenshotPalette(it.rendering)
<1>1. PICK fonts, digest, byName, styles :
        LET captured == ParseRootCustomProperties(it.page)
            declared == DeclaredHexColors(it.colors, byName, styles)
            plain == [NoPrompt EXCEPT !.fonts = fonts, !.captured = captured, !.digest = digest]
        IN  prompt' = [prompt EXCEPT ![w] =
               IF it.browser_off THEN plain
               ELSE [plain EXCEPT
                       !.declared = declared, !.palette = palette,
                       !.block = RenderPalette(palette, declared),
                       !.warning = IF PaletteCompletenessWarning(palette, declared) = {}
                                   THEN NotRun
                                   ELSE Missed(PaletteCompletenessWarning(palette, declared))]]
  BY Zenon DEF Gather, Here
<1> DEFINE captured == ParseRootCustomProperties(it.page)
           declared == DeclaredHexColors(it.colors, byName, styles)
           missed == PaletteCompletenessWarning(palette, declared)
           plain == [NoPrompt EXCEPT !.fonts = fonts, !.captured = captured, !.digest = digest]
           shown == [plain EXCEPT
                       !.declared = declared, !.palette = palette,
                       !.block = RenderPalette(palette, declared),
                       !.warning = IF missed = {} THEN NotRun ELSE Missed(missed)]
<1>2. prompt'[w] = plain \/ prompt'[w] = shown BY <1>1 DEF PromptInv
<1>3. req' = req BY DEF Gather
<1>4. plain.palette.status = "skipped" /\ plain.captured = captured BY DEF NoPrompt
<1>5. /\ shown.captured = captured /\ shown.declared = declared
      /\ shown.palette = palette
      /\ shown.block = RenderPalette(palette, declared)
      /\ shown.warning = IF missed = {} THEN NotRun ELSE Missed(missed)
  BY DEF NoPrompt
<1> HIDE DEF plain, shown
<1>0. CurrentTo(captured, it.page.rules, Len(it.page.rules) + 1, 0)
  <2>1. IsPage(it.page.rules) BY SiteAssumption DEF PromptInv, IsPage
  <2> QED BY <2>1, PageCurrent
<1> HIDE DEF captured
<1>6. CASE prompt'[w] = plain BY <1>0, <1>3, <1>4, <1>6 DEF PromptKept
<1>7. CASE prompt'[w] = shown /\ palette.status = "ok"
  <2>1. it.rendering.shot = "ok" BY <1>7 DEF CaptureScreenshotPalette
  <2>2. req[w] \in Request BY DEF PromptInv
  <2>3. declared \in SUBSET Rgb BY <2>2, DeclaredAreColors
  <2>4. LargeAreIn(it.rendering, declared, missed \intersect shown.block)
    BY <1>5, <2>1, <2>2, <2>3, LargeAreFiltered
  <2>5. shown.warning.missed = missed BY <1>5 DEF NotRun, Missed
  <2> HIDE DEF it, palette, declared, missed
  <2> QED BY <1>0, <1>3, <1>5, <1>7, <2>4, <2>5 DEF PromptKept, it
<1>8. CASE prompt'[w] = shown /\ palette.status # "ok"
  <2> HIDE DEF palette
  <2> QED BY <1>0, <1>3, <1>5, <1>8 DEF PromptKept
<1> QED BY <1>2, <1>6, <1>7, <1>8

\* No step changes what a prompt shows, but the one that makes it.
LEMMA PromptStep == PromptInv /\ [Next]_vars => PromptInv'
<1> SUFFICES ASSUME PromptInv, [Next]_vars PROVE PromptInv'
  OBVIOUS
<1>1. ASSUME UNCHANGED <<req, prompt>> PROVE PromptInv'
  BY <1>1 DEF PromptInv, PromptKept
<1>2. ASSUME NEW w \in Worker, Gather(w) PROVE PromptInv'
  <2>1. UNCHANGED req /\ \E p : prompt' = [prompt EXCEPT ![w] = p] BY <1>2 DEF Gather
  <2>2. PromptKept(w)' BY <1>2, GatherShows
  <2>3. ASSUME NEW v \in Worker \ {w} PROVE PromptKept(v)'
    <3>1. prompt'[v] = prompt[v] BY <2>1 DEF PromptInv
    <3> QED BY <2>1, <3>1 DEF PromptInv, PromptKept
  <2> QED BY <2>1, <2>2, <2>3 DEF PromptInv
<1>3. ASSUME NEW w \in Worker, ~Gather(w),
             \/ Survey(w) \/ Enter(w) \/ ProbeSite(w) \/ ReconSite(w) \/ FetchPage(w)
             \/ AskModel(w) \/ Persist(w) \/ Leave(w)
             \/ Fail(w) \/ Bundle(w) \/ Save(w) \/ Score(w)
             \/ Export(w) \/ ExportAnonymous(w) \/ ConvertTo(w)
      PROVE  UNCHANGED <<req, prompt>>
  <2>1. CASE Survey(w) \/ Enter(w) \/ ProbeSite(w) \/ ReconSite(w)
    BY <2>1 DEF Survey, Enter, ProbeSite, ReconSite
  <2>2. CASE FetchPage(w) \/ AskModel(w) BY <2>2 DEF FetchPage, AskModel
  <2>3. CASE Persist(w) \/ Leave(w) \/ Bundle(w) BY <2>3 DEF Persist, Leave, Bundle
  <2>4. CASE Fail(w) \/ Save(w) \/ Score(w) BY <2>4 DEF Fail, Save, Score
  <2>5. CASE Export(w) \/ ExportAnonymous(w) \/ ConvertTo(w)
    BY <2>5 DEF Export, ExportAnonymous, ConvertTo, Answered
  <2> QED BY <1>3, <2>1, <2>2, <2>3, <2>4, <2>5
<1>4. CASE UNCHANGED vars BY <1>1, <1>4 DEF vars
<1> QED BY <1>1, <1>2, <1>3, <1>4 DEF Next

\* Every prompt shows that.
LEMMA PromptAlways == Spec => []PromptInv
<1>1. Init => PromptInv
  BY CaptureAssumption DEF Init, PromptInv, PromptKept, NoPrompt, CurrentTo
<1> QED BY <1>1, PromptStep, PTL DEF Spec

\* A colour that covers 1/MAX_DOMINANT_COLORS of the screenshot and is far from
\* every declared one is in the prompt and in the warning, whatever the other
\* colours of the site are (screenshot_palette.py).
THEOREM LargeColoursAreShown == Spec => []MissedColoursShown
<1>1. PromptInv => MissedColoursShown
  BY DEF PromptInv, PromptKept, LargeAreIn, MissedColoursShown, Here
<1> QED BY <1>1, PromptAlways, PTL

\* No more root properties than the cap are in a prompt, and each has the value
\* the last root rule gives it, whatever the rules of the page are
\* (css_root_parser.py).
THEOREM LastWordIsKept == Spec => []CapturedIsCurrent
<1>1. PromptInv => CapturedIsCurrent
  <2> SUFFICES ASSUME PromptInv, NEW w \in Worker PROVE
        LET captured == prompt[w].captured
            rules == What[req[w]].page.rules
        IN  /\ Len(captured) <= MaxCapturedProperties
            /\ \A x \in DOMAIN captured :
                 \E i \in Root(rules) : \E j \in DOMAIN rules[i].vars :
                    /\ captured[x] = Said(rules, i, j)
                    /\ \A k \in Root(rules) : \A l \in DOMAIN rules[k].vars :
                         k > i \/ (k = i /\ l > j) =>
                            <<Said(rules, k, l).on, Said(rules, k, l).name>>
                              # <<Said(rules, i, j).on, Said(rules, i, j).name>>
    BY Zenon DEF CapturedIsCurrent, Here, Root, Said
  <2> DEFINE captured == prompt[w].captured
             rules == What[req[w]].page.rules
             n == Len(rules) + 1
  <2>1. IsPage(rules) BY SiteAssumption DEF PromptInv, IsPage
  <2>2. CurrentTo(captured, rules, n, 0) BY DEF PromptInv, PromptKept
  <2> HIDE DEF captured, rules
  <2>3. \A p \in Root(rules) : /\ p \in Nat /\ p < n
                               /\ \A q \in DOMAIN rules[p].vars : q \in Nat
    BY <2>1 DEF Root, IsPage, IsList
  <2>4. ASSUME NEW x \in DOMAIN captured
        PROVE  \E i \in Root(rules) : \E j \in DOMAIN rules[i].vars :
                    /\ captured[x] = Said(rules, i, j)
                    /\ \A k \in Root(rules) : \A l \in DOMAIN rules[k].vars :
                         k > i \/ (k = i /\ l > j) =>
                            Key(Said(rules, k, l)) # Key(Said(rules, i, j))
    <3>1. PICK i \in Root(rules) : \E j \in DOMAIN rules[i].vars :
            /\ UpTo(i, j, n, 0) /\ captured[x] = Said(rules, i, j)
            /\ \A p \in Root(rules) : \A q \in DOMAIN rules[p].vars :
                  UpTo(p, q, n, 0) /\ ~UpTo(p, q, i, j)
                    => Key(Said(rules, p, q)) # Key(captured[x])
      BY <2>2 DEF CurrentTo, Standing
    <3>2. PICK j \in DOMAIN rules[i].vars :
            /\ UpTo(i, j, n, 0) /\ captured[x] = Said(rules, i, j)
            /\ \A p \in Root(rules) : \A q \in DOMAIN rules[p].vars :
                  UpTo(p, q, n, 0) /\ ~UpTo(p, q, i, j)
                    => Key(Said(rules, p, q)) # Key(captured[x])
      BY <3>1
    <3>3. \A k \in Root(rules) : \A l \in DOMAIN rules[k].vars :
             /\ UpTo(k, l, n, 0)
             /\ k > i \/ (k = i /\ l > j) => ~UpTo(k, l, i, j)
      BY <2>3 DEF UpTo
    <3> QED BY <3>2, <3>3
  <2> QED BY <2>2, <2>4 DEF CurrentTo, Key, captured, rules
<1> QED BY <1>1, PromptAlways, PTL

-----------------------------------------------------------------------------
(* Lists in a total order                                                  *)

\* below[i] is what comes before i in a total order of I.
TotalOrder(I, below) ==
    /\ \A i \in I : i \notin below[i]
    /\ \A i, j \in I : i = j \/ i \in below[j] \/ j \in below[i]
    /\ \A i, j, k \in I : i \in below[j] /\ j \in below[k] => i \in below[k]

\* Every place in a total order is taken.
LEMMA Placed ==
    ASSUME NEW I, IsFiniteSet(I), NEW below \in [I -> SUBSET I],
           TotalOrder(I, below),
           NEW n \in 1..Cardinality(I)
    PROVE  \E i \in I : Cardinality(below[i]) = n - 1
<1> USE DEF TotalOrder
<1> DEFINE rank == [i \in I |-> Cardinality(below[i]) + 1]
           m == Cardinality(I)
<1>1. m \in Nat BY FS_CardinalityType
<1>2. \A i \in I : /\ IsFiniteSet(below[i]) /\ Cardinality(below[i]) \in Nat
                   /\ Cardinality(below[i]) < m
  <2> TAKE i \in I
  <2>1. below[i] \in SUBSET I /\ below[i] # I OBVIOUS
  <2>2. /\ IsFiniteSet(below[i]) /\ Cardinality(below[i]) <= m
        /\ (m = Cardinality(below[i]) => I = below[i])
    BY <2>1, FS_Subset
  <2>3. Cardinality(below[i]) \in Nat BY <2>2, FS_CardinalityType
  <2> QED BY <1>1, <2>1, <2>2, <2>3
<1>3. \A i, j \in I : i \in below[j] => Cardinality(below[i]) < Cardinality(below[j])
  <2> TAKE i \in I, j \in I
  <2> HAVE i \in below[j]
  <2>1. below[i] \in SUBSET below[j] /\ below[i] # below[j] OBVIOUS
  <2>2. IsFiniteSet(below[j]) BY <1>2
  <2>3. /\ Cardinality(below[i]) <= Cardinality(below[j])
        /\ (Cardinality(below[j]) = Cardinality(below[i]) => below[j] = below[i])
    BY <2>1, <2>2, FS_Subset
  <2> QED BY <1>2, <2>1, <2>3
<1>4. rank \in Injection(I, 1..m)
  <2>1. rank \in [I -> 1..m] BY <1>1, <1>2
  <2>2. ASSUME NEW i \in I, NEW j \in I, rank[i] = rank[j] PROVE i = j
    <3>1. Cardinality(below[i]) = Cardinality(below[j]) BY <1>2, <2>2
    <3> QED BY <1>2, <1>3, <3>1
  <2> QED BY <2>1, <2>2 DEF Injection, IsInjective
<1>5. IsFiniteSet(1..m) /\ Cardinality(1..m) = m BY <1>1, FS_Interval
<1> HIDE DEF rank
<1>6. rank \in Surjection(I, 1..m) BY <1>4, <1>5, FS_Injection
<1>7. PICK i \in I : rank[i] = n BY <1>6 DEF Surjection
<1> QED BY <1>2, <1>7 DEF rank

\* What a colour of the tree becomes.
Shades == [hue : HexColors, s : Int, l : Int]

\* Elements listed in the order of their places.
LEMMA ByPlace ==
    ASSUME NEW s, NEW T, NEW N \in Nat, NEW I, I \subseteq 1..N,
           \A i \in I : s[i] \in T
    PROVE  InOrder(s, I, <) \in Seq(T)
<1>0. IsFiniteSet(I)
  <2>1. IsFiniteSet(1..N) BY FS_Interval
  <2> QED BY <2>1, FS_Subset
<1>1. Cardinality(I) \in Nat BY <1>0, FS_CardinalityType
<1> DEFINE below == [i \in I |-> {j \in I : j < i}]
           at(n) == CHOOSE i \in I : Cardinality({j \in I : j < i}) = n - 1
           C == Cardinality(I)
<1>2. \A n \in 1..C : at(n) \in I
  <2> TAKE n \in 1..C
  <2>1. below \in [I -> SUBSET I] OBVIOUS
  <2>2. \A i \in I : i \notin below[i] OBVIOUS
  <2>3. \A i, j \in I : i = j \/ i \in below[j] \/ j \in below[i] OBVIOUS
  <2>4. \A i, j, k \in I : i \in below[j] /\ j \in below[k] => i \in below[k] OBVIOUS
  <2>7. TotalOrder(I, below) BY <2>2, <2>3, <2>4 DEF TotalOrder
  <2> HIDE DEF below
  <2>5. \E i \in I : Cardinality(below[i]) = n - 1 BY <1>0, <2>1, <2>7, Placed
  <2>6. \E i \in I : Cardinality({j \in I : j < i}) = n - 1 BY <2>5 DEF below
  <2> QED BY <2>6
<1>3. InOrder(s, I, <) = [n \in 1..C |-> s[at(n)]] BY DEF InOrder
<1> HIDE DEF at, C
<1>4. [n \in 1..C |-> s[at(n)]] \in [1..C -> T] BY <1>2
<1>5. \A f, m : m \in Nat /\ f \in [1..m -> T] => f \in Seq(T) OBVIOUS
<1> QED BY <1>1, <1>3, <1>4, <1>5 DEF C

\* Shades listed by falling saturation, equals by place.
LEMMA BySaturation ==
    ASSUME NEW x \in Seq(Shades), NEW I, I \subseteq DOMAIN x
    PROVE  InOrder(x, I, LAMBDA i, j : x[i].s > x[j].s \/ (x[i].s = x[j].s /\ i < j))
             \in Seq(Shades)
<1>0. IsFiniteSet(1..Len(x)) /\ IsFiniteSet(I) /\ I \subseteq Int BY FS_Interval, FS_Subset
<1>1. Cardinality(I) \in Nat BY <1>0, FS_CardinalityType
<1> DEFINE Ahead(i, j) == x[i].s > x[j].s \/ (x[i].s = x[j].s /\ i < j)
           below == [i \in I |-> {j \in I : Ahead(j, i)}]
           at(n) == CHOOSE i \in I : Cardinality({j \in I : Ahead(j, i)}) = n - 1
           C == Cardinality(I)
<1>2. \A n \in 1..C : at(n) \in I
  <2> TAKE n \in 1..C
  <2>0. \A i \in I : x[i].s \in Int
    <3>1. \A y \in Shades : y.s \in Int BY DEF Shades
    <3> QED BY <3>1
  <2>1. below \in [I -> SUBSET I] OBVIOUS
  <2>2. \A i \in I : i \notin below[i] BY <1>0, <2>0
  <2>3. \A i, j \in I : i = j \/ i \in below[j] \/ j \in below[i] BY <1>0, <2>0
  <2>4. \A i, j, k \in I : i \in below[j] /\ j \in below[k] => i \in below[k] BY <1>0, <2>0
  <2>7. TotalOrder(I, below) BY <2>2, <2>3, <2>4 DEF TotalOrder
  <2> HIDE DEF below
  <2>5. \E i \in I : Cardinality(below[i]) = n - 1 BY <1>0, <2>1, <2>7, Placed
  <2>6. \E i \in I : Cardinality({j \in I : Ahead(j, i)}) = n - 1 BY <2>5 DEF below
  <2> QED BY <2>6
<1>3. InOrder(x, I, LAMBDA i, j : x[i].s > x[j].s \/ (x[i].s = x[j].s /\ i < j))
        = [n \in 1..C |-> x[at(n)]] BY DEF InOrder
<1>6. \A i \in I : x[i] \in Shades OBVIOUS
<1> HIDE DEF at, C
<1>4. [n \in 1..C |-> x[at(n)]] \in [1..C -> Shades] BY <1>2, <1>6
<1>5. \A f, m : m \in Nat /\ f \in [1..m -> Shades] => f \in Seq(Shades) OBVIOUS
<1> QED BY <1>1, <1>3, <1>4, <1>5 DEF C

\* Shades listed by rising lightness, equals by place.
LEMMA ByLightness ==
    ASSUME NEW x \in Seq(Shades), NEW I, I \subseteq DOMAIN x
    PROVE  InOrder(x, I, LAMBDA i, j : x[i].l < x[j].l \/ (x[i].l = x[j].l /\ i < j))
             \in Seq(Shades)
<1>0. IsFiniteSet(1..Len(x)) /\ IsFiniteSet(I) /\ I \subseteq Int BY FS_Interval, FS_Subset
<1>1. Cardinality(I) \in Nat BY <1>0, FS_CardinalityType
<1> DEFINE Ahead(i, j) == x[i].l < x[j].l \/ (x[i].l = x[j].l /\ i < j)
           below == [i \in I |-> {j \in I : Ahead(j, i)}]
           at(n) == CHOOSE i \in I : Cardinality({j \in I : Ahead(j, i)}) = n - 1
           C == Cardinality(I)
<1>2. \A n \in 1..C : at(n) \in I
  <2> TAKE n \in 1..C
  <2>0. \A i \in I : x[i].l \in Int
    <3>1. \A y \in Shades : y.l \in Int BY DEF Shades
    <3> QED BY <3>1
  <2>1. below \in [I -> SUBSET I] OBVIOUS
  <2>2. \A i \in I : i \notin below[i] BY <1>0, <2>0
  <2>3. \A i, j \in I : i = j \/ i \in below[j] \/ j \in below[i] BY <1>0, <2>0
  <2>4. \A i, j, k \in I : i \in below[j] /\ j \in below[k] => i \in below[k] BY <1>0, <2>0
  <2>7. TotalOrder(I, below) BY <2>2, <2>3, <2>4 DEF TotalOrder
  <2> HIDE DEF below
  <2>5. \E i \in I : Cardinality(below[i]) = n - 1 BY <1>0, <2>1, <2>7, Placed
  <2>6. \E i \in I : Cardinality({j \in I : Ahead(j, i)}) = n - 1 BY <2>5 DEF below
  <2> QED BY <2>6
<1>3. InOrder(x, I, LAMBDA i, j : x[i].l < x[j].l \/ (x[i].l = x[j].l /\ i < j))
        = [n \in 1..C |-> x[at(n)]] BY DEF InOrder
<1>6. \A i \in I : x[i] \in Shades OBVIOUS
<1> HIDE DEF at, C
<1>4. [n \in 1..C |-> x[at(n)]] \in [1..C -> Shades] BY <1>2, <1>6
<1>5. \A f, m : m \in Nat /\ f \in [1..m -> Shades] => f \in Seq(Shades) OBVIOUS
<1> QED BY <1>1, <1>3, <1>4, <1>5 DEF C

-----------------------------------------------------------------------------
(* The theme                                                               *)

\* Shades that can be a light page, and those that can be a dark one.
LightShades == {z \in Shades : z.l >= LightBackgroundFloor}
DarkShades == {z \in Shades : z.l <= 1000 - LightBackgroundFloor}

\* What the buckets of a palette hold.
LEMMA PaletteType ==
    ASSUME NEW x \in Seq(Shades)
    PROVE  LET b == ClassifyPalette(x)
           IN  /\ b.saturated \in Seq(Shades) /\ b.neutral \in Seq(Shades)
               /\ b.light \in Seq(LightShades) /\ b.dark \in Seq(DarkShades)
<1> DEFINE sat == {i \in DOMAIN x : x[i].s > NeutralSaturationCeiling}
           neu == {i \in DOMAIN x : x[i].s <= NeutralSaturationCeiling}
           lit == {i \in DOMAIN x : x[i].l >= LightBackgroundFloor}
           dim == {i \in DOMAIN x : x[i].l <= 1000 - LightBackgroundFloor}
<1>1. InOrder(x, sat, LAMBDA i, j : x[i].s > x[j].s \/ (x[i].s = x[j].s /\ i < j))
        \in Seq(Shades)
  BY BySaturation
<1>2. InOrder(x, neu, LAMBDA i, j : x[i].l < x[j].l \/ (x[i].l = x[j].l /\ i < j))
        \in Seq(Shades)
  BY ByLightness
<1>0. Len(x) \in Nat /\ \A i \in 1..Len(x) : x[i] \in Shades OBVIOUS
<1>3. InOrder(x, lit, <) \in Seq(LightShades)
  <2>1. \A i \in lit : x[i] \in LightShades BY <1>0 DEF LightShades
  <2>2. lit \subseteq 1..Len(x) OBVIOUS
  <2> HIDE DEF lit
  <2> QED BY <1>0, <2>1, <2>2, ByPlace
<1>4. InOrder(x, dim, <) \in Seq(DarkShades)
  <2>1. \A i \in dim : x[i] \in DarkShades BY <1>0 DEF DarkShades
  <2>2. dim \subseteq 1..Len(x) OBVIOUS
  <2> HIDE DEF dim
  <2> QED BY <1>0, <2>1, <2>2, ByPlace
<1> QED BY <1>1, <1>2, <1>3, <1>4 DEF ClassifyPalette

\* A rounded percentage is a number of tenths.
LEMMA TenthsType ==
    ASSUME NEW n \in Nat, NEW d \in Nat \ {0}
    PROVE  Tenths(n, d) \in Int
<1>1. 2000 * n + d \in Nat /\ 2 * d \in Nat /\ 2 * d # 0 OBVIOUS
<1>2. \A x, y \in Nat : y # 0 => x \div y \in Int OBVIOUS
<1> QED BY <1>1, <1>2 DEF Tenths

\* A hex colour becomes a shade.
LEMMA TripleType ==
    ASSUME NEW c \in (0..255) \X (0..255) \X (0..255)
    PROVE  HexToHslTriple(c) \in Shades
<1> DEFINE hi == Max({c[1], c[2], c[3]})
           lo == Min({c[1], c[2], c[3]})
           room == IF hi + lo <= 255 THEN hi + lo ELSE 510 - hi - lo
<1>1. hi \in 0..255 /\ lo \in 0..255 /\ lo <= hi BY ExtremesOf
<1>2. HexToHslTriple(c) = [hue |-> c, s |-> IF hi = lo THEN 0 ELSE Tenths(hi - lo, room),
                           l |-> Tenths(hi + lo, 510)]
  BY DEF HexToHslTriple, Shade
<1> HIDE DEF hi, lo
<1>3. hi # lo => Tenths(hi - lo, room) \in Int
  <2> HAVE hi # lo
  <2>1. room \in Nat \ {0} /\ hi - lo \in Nat BY <1>1
  <2> HIDE DEF room
  <2> QED BY <2>1, TenthsType
<1>4. Tenths(hi + lo, 510) \in Int
  <2>1. hi + lo \in Nat /\ 510 \in Nat \ {0} BY <1>1
  <2> QED BY <2>1, TenthsType
<1>5. c \in HexColors BY DEF HexColors
<1> HIDE DEF room
<1> QED BY <1>2, <1>3, <1>4, <1>5 DEF Shades

\* So does every colour of a tree.
LEMMA LeavesType ==
    ASSUME NEW t, Readable(t)
    PROVE  ColorLeaves(ToDtcgJson(t)) \in Seq(Shades)
<1> DEFINE tree == ToDtcgJson(t)
           colors == IF "color" \in DOMAIN tree THEN tree["color"] ELSE <<>>
           kept == {i \in DOMAIN KeyOrder : /\ KeyOrder[i] \in DOMAIN colors
                                            /\ colors[KeyOrder[i]].hex # NoHex}
           keys == InOrder(KeyOrder, kept, <)
           T == {k \in DOMAIN colors : colors[k].hex # NoHex}
<1>0. DOMAIN <<>> = {} OBVIOUS
<1>1. \A k \in T : colors[k].hex \in (0..255) \X (0..255) \X (0..255)
  <2> SUFFICES ASSUME NEW k \in DOMAIN colors, colors[k].hex # NoHex
               PROVE  colors[k].hex \in (0..255) \X (0..255) \X (0..255)
    OBVIOUS
  <2>1. "color" \in DOMAIN tree /\ colors = tree["color"] BY <1>0
  <2> HIDE DEF colors
  <2>4. /\ DOMAIN tree["color"] = {m \in DOMAIN t : Classify(m) = "color"}
        /\ \A m \in DOMAIN tree["color"] : tree["color"][m] = t[m]
    BY <2>1, TreeOf
  <2> HIDE DEF tree
  <2>2. k \in DOMAIN t /\ colors[k] = t[k] BY <2>1, <2>4
  <2>3. t[k].hex \in HexColors BY <2>2 DEF Readable
  <2> QED BY <2>2, <2>3 DEF HexColors
<1>2. keys \in Seq(T)
  <2>1. KeyOrder \in Seq(AllowedKeys) BY KeyOrderAssumption
  <2>2. Len(KeyOrder) \in Nat /\ kept \subseteq 1..Len(KeyOrder) BY <2>1
  <2>3. \A i \in kept : KeyOrder[i] \in T OBVIOUS
  <2> HIDE DEF kept, T
  <2> QED BY <2>2, <2>3, ByPlace
<1>3. ColorLeaves(tree) = [n \in DOMAIN keys |-> HexToHslTriple(colors[keys[n]].hex)]
  BY DEF ColorLeaves
<1> HIDE DEF keys, colors, tree
<1>4. \A n \in 1..Len(keys) : HexToHslTriple(colors[keys[n]].hex) \in Shades
  <2> TAKE n \in 1..Len(keys)
  <2>1. keys[n] \in T BY <1>2
  <2> HIDE DEF T
  <2> QED BY <1>1, <2>1, TripleType
<1> QED BY <1>2, <1>3, <1>4 DEF tree

\* The slots of a mode.
Page == {"background", "card", "popover"}
PageText == {"foreground", "card_foreground", "popover_foreground"}
Chip == {"primary", "secondary", "muted", "accent", "destructive"}
ChipText == {"primary_foreground", "secondary_foreground", "muted_foreground",
             "accent_foreground", "destructive_foreground"}
Slot == Page \union PageText \union Chip \union ChipText \union {"border", "input", "ring"}

\* A mode has every slot, and a chip and its text differ by 378 or more.
Legible(mode) ==
    /\ mode \in [Slot -> Shades]
    /\ \A s \in Chip : Distance(mode[s].l, mode[Grounded[s]].l) >= 378

\* The page is light and its text dark, or the reverse.
Bright(mode) == /\ \A s \in Page : mode[s] \in LightShades
                /\ \A s \in PageText : mode[s] \in DarkShades
Dim(mode) == /\ \A s \in Page : mode[s] \in DarkShades
             /\ \A s \in PageText : mode[s] \in LightShades

\* A slot and its text are different slots.
LEMMA GroundedType ==
    /\ DOMAIN Grounded = Page \union Chip
    /\ \A s \in Page : Grounded[s] \in PageText
    /\ \A s \in Chip : Grounded[s] \in ChipText
    /\ \A r, s \in Chip : Grounded[r] = Grounded[s] => r = s
    /\ Page \subseteq Slot /\ PageText \subseteq Slot
    /\ Chip \subseteq Slot /\ ChipText \subseteq Slot
    /\ Page \intersect Chip = {} /\ Page \intersect ChipText = {} /\ Page \intersect PageText = {}
    /\ PageText \intersect Chip = {} /\ PageText \intersect ChipText = {}
    /\ Chip \intersect ChipText = {}
BY DEF Grounded, Page, PageText, Chip, ChipText, Slot

\* A default is a shade.
LEMMA DefaultType ==
    ASSUME NEW a \in Int, NEW b \in Int
    PROVE  Default(a, b) \in Shades /\ Default(a, b).l = b
BY DEF Default, Shade, Shades, HexColors

\* The defaults of shadcn can be read.
LEMMA DefaultsLegible ==
    /\ Legible(DefaultLight) /\ Bright(DefaultLight)
    /\ Legible(DefaultDark) /\ Dim(DefaultDark)
<1>1. DOMAIN DefaultLight = Slot /\ DOMAIN DefaultDark = Slot
  BY DEF DefaultLight, DefaultDark, Slot, Page, PageText, Chip, ChipText
<1>2. NearWhite \in Shades /\ NearWhite.l = 980 /\ NearBlack \in Shades /\ NearBlack.l = 112
  BY DefaultType DEF NearWhite, NearBlack
<1>3. DefaultLight \in [Slot -> Shades]
  BY <1>2, DefaultType DEF DefaultLight, Slot, Page, PageText, Chip, ChipText
<1>4. DefaultDark \in [Slot -> Shades]
  BY <1>2, DefaultType DEF DefaultDark, Slot, Page, PageText, Chip, ChipText
<1>5. \A s \in Chip : Distance(DefaultLight[s].l, DefaultLight[Grounded[s]].l) >= 378
  <2>1. /\ DefaultLight["primary"].l = 112 /\ DefaultLight["primary_foreground"].l = 980
        /\ DefaultLight["secondary"].l = 961 /\ DefaultLight["secondary_foreground"].l = 112
        /\ DefaultLight["muted"].l = 961 /\ DefaultLight["muted_foreground"].l = 469
        /\ DefaultLight["accent"].l = 961 /\ DefaultLight["accent_foreground"].l = 112
        /\ DefaultLight["destructive"].l = 602 /\ DefaultLight["destructive_foreground"].l = 980
    BY <1>2, DefaultType DEF DefaultLight
  <2> QED BY <2>1 DEF Grounded, Chip, Distance
<1>6. \A s \in Chip : Distance(DefaultDark[s].l, DefaultDark[Grounded[s]].l) >= 378
  <2>1. /\ DefaultDark["primary"].l = 980 /\ DefaultDark["primary_foreground"].l = 112
        /\ DefaultDark["secondary"].l = 175 /\ DefaultDark["secondary_foreground"].l = 980
        /\ DefaultDark["muted"].l = 175 /\ DefaultDark["muted_foreground"].l = 651
        /\ DefaultDark["accent"].l = 175 /\ DefaultDark["accent_foreground"].l = 980
        /\ DefaultDark["destructive"].l = 306 /\ DefaultDark["destructive_foreground"].l = 980
    BY <1>2, DefaultType DEF DefaultDark
  <2> QED BY <2>1 DEF Grounded, Chip, Distance
<1>9. /\ Page \union PageText \subseteq Slot
      /\ LightShades = {z \in Shades : z.l >= 920} /\ DarkShades = {z \in Shades : z.l <= 80}
  BY DEF Slot, LightShades, DarkShades, LightBackgroundFloor
<1>7. Bright(DefaultLight)
  <2>1. /\ \A s \in Page : DefaultLight[s].l = 1000
        /\ \A s \in PageText : DefaultLight[s].l = 49
    BY DefaultType DEF DefaultLight, Page, PageText
  <2> QED BY <1>3, <1>9, <2>1 DEF Bright
<1>8. Dim(DefaultDark)
  <2>1. /\ \A s \in Page : DefaultDark[s].l = 49
        /\ \A s \in PageText : DefaultDark[s].l = 980
    BY <1>2, DefaultType DEF DefaultDark, Page, PageText
  <2> QED BY <1>4, <1>9, <2>1 DEF Dim
<1> QED BY <1>3, <1>4, <1>5, <1>6, <1>7, <1>8 DEF Legible

\* What leaves the chips and their text alone leaves them legible.
LEMMA SetElsewhere ==
    ASSUME NEW mode, Legible(mode), NEW shade \in Shades, NEW slots,
           slots \intersect (Chip \union ChipText) = {}
    PROVE  Legible(Set(mode, slots, shade))
BY GroundedType DEF Legible, Set

\* A foreground differs from its ground by 378 or more.
LEMMA ForegroundType ==
    ASSUME NEW shade \in Shades
    PROVE  ForegroundFor(shade) \in Shades /\ Distance(shade.l, ForegroundFor(shade).l) >= 378
<1>2. NearWhite \in Shades /\ NearWhite.l = 980 /\ NearBlack \in Shades /\ NearBlack.l = 112
  BY DefaultType DEF NearWhite, NearBlack
<1>3. shade.l \in Int BY DEF Shades
<1> QED BY <1>2, <1>3 DEF ForegroundFor, ForegroundLightnessPivot, Distance

\* A chip that is set gets a text that can be read on it.
LEMMA SetChips ==
    ASSUME NEW mode, Legible(mode), NEW shade \in Shades, NEW slots \in SUBSET Chip
    PROVE  /\ Legible(SetGround(mode, slots, shade))
           /\ \A s \in Page \union PageText : SetGround(mode, slots, shade)[s] = mode[s]
<1> DEFINE fore == ForegroundFor(shade)
           texts == {Grounded[s] : s \in slots}
           both == SetGround(mode, slots, shade)
<1>1. fore \in Shades /\ Distance(shade.l, fore.l) >= 378 BY ForegroundType
<1>2. texts \subseteq ChipText BY GroundedType
<1>3. both = [s \in Slot |-> IF s \in texts THEN fore ELSE IF s \in slots THEN shade ELSE mode[s]]
  BY DEF SetGround, Set, Legible
<1> HIDE DEF fore, both
<1>4. both \in [Slot -> Shades] BY <1>1, <1>3 DEF Legible
<1>5. \A s \in Chip : Grounded[s] \in texts <=> s \in slots BY GroundedType
<1>6. \A s \in Chip : s \notin texts BY <1>2, GroundedType
<1>7. \A s \in Chip : Grounded[s] \notin slots BY GroundedType
<1> HIDE DEF texts
<1>8. \A s \in Chip : Distance(both[s].l, both[Grounded[s]].l) >= 378
  <2> TAKE s \in Chip
  <2>0. s \in Slot /\ Grounded[s] \in Slot BY GroundedType
  <2>1. CASE s \in slots
    <3>1. both[s] = shade /\ both[Grounded[s]] = fore BY <1>3, <1>5, <1>6, <2>0, <2>1
    <3> QED BY <1>1, <3>1
  <2>2. CASE s \notin slots
    <3>1. both[s] = mode[s] /\ both[Grounded[s]] = mode[Grounded[s]]
      BY <1>3, <1>5, <1>6, <1>7, <2>0, <2>2
    <3> QED BY <3>1 DEF Legible
  <2> QED BY <2>1, <2>2
<1>9. \A s \in Page \union PageText : both[s] = mode[s]
  BY <1>2, <1>3, GroundedType
<1> QED BY <1>4, <1>8, <1>9 DEF Legible, both

\* A page or page text that is set is as light or as dark as its new shade.
LEMMA SetPage ==
    ASSUME NEW mode, Legible(mode), NEW shade \in Shades, NEW slots \in {Page, PageText}
    PROVE  /\ Legible(Set(mode, slots, shade))
           /\ \A s \in slots : Set(mode, slots, shade)[s] = shade
           /\ \A s \in Slot \ slots : Set(mode, slots, shade)[s] = mode[s]
<1>1. slots \intersect (Chip \union ChipText) = {} BY GroundedType
<1>2. Legible(Set(mode, slots, shade)) BY <1>1, SetElsewhere
<1>3. slots \subseteq Slot BY GroundedType
<1> QED BY <1>2, <1>3 DEF Set, Legible

\* Borders, inputs and rings carry no text.
LEMMA SetEdges ==
    ASSUME NEW mode, Legible(mode), NEW shade \in Shades,
           NEW slots \in SUBSET {"border", "input", "ring"}
    PROVE  /\ Legible(Set(mode, slots, shade))
           /\ \A s \in Page \union PageText : Set(mode, slots, shade)[s] = mode[s]
<1>1. slots \intersect (Chip \union ChipText) = {} /\ slots \intersect (Page \union PageText) = {}
  BY DEF Page, PageText, Chip, ChipText
<1>2. Legible(Set(mode, slots, shade)) BY <1>1, SetElsewhere
<1> QED BY <1>1, <1>2 DEF Set, Legible, Slot

\* Inverting and bumping a shade.
LEMMA TurnedType ==
    ASSUME NEW shade \in Shades
    PROVE  /\ InvertLightness(shade) \in Shades /\ BumpLightness(shade) \in Shades
           /\ shade \in LightShades => InvertLightness(shade) \in DarkShades
           /\ shade \in DarkShades => InvertLightness(shade) \in LightShades
BY DEF Shades, InvertLightness, BumpLightness, LightShades, DarkShades, LightBackgroundFloor

\* What the two modes are assigned from.
Buckets(b) == /\ b.saturated \in Seq(Shades) /\ b.neutral \in Seq(Shades)
              /\ b.light \in Seq(LightShades) /\ b.dark \in Seq(DarkShades)

\* The light mode can be read, whatever the buckets hold.
LEMMA LightMode ==
    ASSUME NEW b, Buckets(b)
    PROVE  Legible(AssignSlotsLight(b)) /\ Bright(AssignSlotsLight(b))
<1> DEFINE sat == b.saturated
           neu == b.neutral
           primary == IF sat = <<>> THEN DefaultLight
                      ELSE Set(SetGround(DefaultLight, {"primary"}, sat[1]), {"ring"}, sat[1])
           second == sat[IF Len(sat) >= 2 THEN 2 ELSE 1]
           accent == IF sat = <<>> THEN primary ELSE SetGround(primary, {"accent"}, second)
           back == IF b.light = <<>> THEN accent
                   ELSE Set(accent, {"background", "card", "popover"}, b.light[1])
           fore == IF b.dark = <<>> THEN back
                   ELSE Set(back, {"foreground", "card_foreground", "popover_foreground"},
                            b.dark[1])
           soft == IF neu = <<>> THEN fore
                   ELSE SetGround(fore, {"muted", "secondary"}, neu[Len(neu)])
           all == IF Len(neu) < 2 THEN soft ELSE Set(soft, {"border", "input"}, neu[1])
           Fine(mode) == Legible(mode) /\ Bright(mode)
<1>0. /\ sat # <<>> => sat[1] \in Shades /\ second \in Shades
      /\ neu # <<>> => neu[1] \in Shades /\ neu[Len(neu)] \in Shades
      /\ b.light # <<>> => b.light[1] \in LightShades
      /\ b.dark # <<>> => b.dark[1] \in DarkShades
  BY DEF Buckets
<1>1. AssignSlotsLight(b) = all BY DEF AssignSlotsLight
<1>2. /\ Page = {"background", "card", "popover"}
      /\ PageText = {"foreground", "card_foreground", "popover_foreground"}
      /\ {"primary"} \in SUBSET Chip /\ {"accent"} \in SUBSET Chip
      /\ {"muted", "secondary"} \in SUBSET Chip
      /\ Page \subseteq Slot \ PageText /\ PageText \subseteq Slot \ Page
      /\ LightShades \subseteq Shades /\ DarkShades \subseteq Shades
  BY GroundedType DEF Page, PageText, Chip, LightShades, DarkShades
<1> HIDE DEF sat, neu, second
<1>3. Fine(primary) /\ Fine(accent)
  <2>1. CASE sat = <<>> BY <2>1, DefaultsLegible
  <2>2. CASE sat # <<>>
    <3> DEFINE chip == SetGround(DefaultLight, {"primary"}, sat[1])
    <3>1. Fine(chip) BY <1>0, <1>2, <2>2, DefaultsLegible, SetChips DEF Bright
    <3>2. primary = Set(chip, {"ring"}, sat[1]) BY <2>2
    <3> HIDE DEF chip, primary
    <3>3. Fine(primary) BY <1>0, <2>2, <3>1, <3>2, SetEdges DEF Bright
    <3>4. accent = SetGround(primary, {"accent"}, second) BY <2>2
    <3> HIDE DEF accent
    <3>5. Fine(accent) BY <1>0, <1>2, <2>2, <3>3, <3>4, SetChips DEF Bright
    <3> QED BY <3>3, <3>5
  <2> QED BY <2>1, <2>2
<1> HIDE DEF accent
<1>4. Fine(back)
  <2>1. CASE b.light = <<>> BY <1>3, <2>1
  <2>2. CASE b.light # <<>>
    <3>1. back = Set(accent, Page, b.light[1]) BY <1>2, <2>2
    <3>2. b.light[1] \in LightShades /\ b.light[1] \in Shades BY <1>0, <1>2, <2>2
    <3> HIDE DEF back
    <3>3. /\ Legible(back) /\ \A s \in Page : back[s] = b.light[1]
          /\ \A s \in Slot \ Page : back[s] = accent[s]
      BY <1>3, <3>1, <3>2, SetPage
    <3> QED BY <1>2, <1>3, <3>2, <3>3 DEF Bright
  <2> QED BY <2>1, <2>2
<1> HIDE DEF back
<1>5. Fine(fore)
  <2>1. CASE b.dark = <<>> BY <1>4, <2>1
  <2>2. CASE b.dark # <<>>
    <3>1. fore = Set(back, PageText, b.dark[1]) BY <1>2, <2>2
    <3>2. b.dark[1] \in DarkShades /\ b.dark[1] \in Shades BY <1>0, <1>2, <2>2
    <3> HIDE DEF fore
    <3>3. /\ Legible(fore) /\ \A s \in PageText : fore[s] = b.dark[1]
          /\ \A s \in Slot \ PageText : fore[s] = back[s]
      BY <1>4, <3>1, <3>2, SetPage
    <3> QED BY <1>2, <1>4, <3>2, <3>3 DEF Bright
  <2> QED BY <2>1, <2>2
<1> HIDE DEF fore
<1>6. Fine(soft) BY <1>0, <1>2, <1>5, SetChips DEF Bright
<1> HIDE DEF soft
<1>7. Fine(all)
  <2>1. CASE Len(neu) < 2 BY <1>6, <2>1
  <2>2. CASE ~(Len(neu) < 2)
    <3>1. neu # <<>> BY <2>2
    <3> QED BY <1>0, <1>6, <2>2, <3>1, SetEdges DEF Bright
  <2> QED BY <2>1, <2>2
<1> QED BY <1>1, <1>7

\* The dark mode can be read if the light one it is turned from can.
LEMMA DarkMode ==
    ASSUME NEW b, Buckets(b), NEW light, Legible(light), Bright(light)
    PROVE  Legible(AssignSlotsDark(light, b)) /\ Dim(AssignSlotsDark(light, b))
<1> DEFINE sat == b.saturated
           turned == [s \in {"background", "card", "popover"} |->
                         IF b.dark # <<>> THEN b.dark[1] ELSE InvertLightness(light[s])]
           base == [s \in DOMAIN DefaultDark |->
                       IF s \in DOMAIN turned THEN turned[s] ELSE DefaultDark[s]]
           text == InvertLightness(light.foreground)
           fore == Set(base, {"foreground", "card_foreground", "popover_foreground"}, text)
           first == BumpLightness(sat[1])
           second == BumpLightness(sat[IF Len(sat) >= 2 THEN 2 ELSE 1])
           brand == IF sat = <<>> THEN fore
                    ELSE Set(SetGround(fore, {"primary"}, first), {"ring"}, first)
           accent == IF sat = <<>> THEN brand ELSE SetGround(brand, {"accent"}, second)
           muted == InvertLightness(light.muted)
           soft == SetGround(accent, {"muted", "secondary"}, muted)
           all == Set(soft, {"border", "input"}, muted)
           Fine(mode) == Legible(mode) /\ Dim(mode)
<1>1. AssignSlotsDark(light, b) = IF sat = <<>> /\ b.neutral = <<>> THEN DefaultDark ELSE all
  BY DEF AssignSlotsDark
<1>2. /\ Page = {"background", "card", "popover"}
      /\ PageText = {"foreground", "card_foreground", "popover_foreground"}
      /\ {"primary"} \in SUBSET Chip /\ {"accent"} \in SUBSET Chip
      /\ {"muted", "secondary"} \in SUBSET Chip
      /\ Page \subseteq Slot \ PageText /\ PageText \subseteq Slot \ Page
      /\ LightShades \subseteq Shades /\ DarkShades \subseteq Shades
      /\ "foreground" \in PageText /\ "muted" \in Slot
  BY GroundedType DEF Page, PageText, Chip, LightShades, DarkShades, Slot
<1>3. sat # <<>> => first \in Shades /\ second \in Shades
  <2> HAVE sat # <<>>
  <2>1. sat[1] \in Shades /\ sat[IF Len(sat) >= 2 THEN 2 ELSE 1] \in Shades BY DEF Buckets
  <2> QED BY <2>1, TurnedType
<1>4. text \in LightShades /\ muted \in Shades
  <2>1. /\ light["foreground"] \in DarkShades /\ light["foreground"] \in Shades
        /\ light["muted"] \in Shades
    BY <1>2 DEF Bright, Legible
  <2> QED BY <2>1, TurnedType
<1>5. \A s \in Page : turned[s] \in DarkShades
  <2> TAKE s \in Page
  <2>1. light[s] \in LightShades /\ light[s] \in Shades BY <1>2 DEF Bright
  <2>2. b.dark # <<>> => b.dark[1] \in DarkShades BY DEF Buckets
  <2> QED BY <1>2, <2>1, <2>2, TurnedType
<1>6. Legible(base) /\ \A s \in Page : base[s] \in DarkShades
  <2>1. DOMAIN turned = Page /\ DOMAIN DefaultDark = Slot
    BY <1>2, DefaultsLegible DEF Legible
  <2> HIDE DEF turned
  <2>2. base \in [Slot -> Shades] BY <1>2, <1>5, <2>1, DefaultsLegible DEF Legible
  <2>3. \A s \in Page : base[s] \in DarkShades BY <1>2, <1>5, <2>1
  <2>4. \A s \in Chip \union ChipText : base[s] = DefaultDark[s] BY <2>1, GroundedType
  <2> HIDE DEF base
  <2>5. \A s \in Chip : Distance(base[s].l, base[Grounded[s]].l) >= 378
    BY <2>4, GroundedType, DefaultsLegible DEF Legible
  <2> QED BY <2>2, <2>3, <2>5 DEF Legible
<1>7. fore = Set(base, PageText, text) BY <1>2
<1> HIDE DEF sat, turned, base, text, first, second, muted, fore
<1>8. Fine(fore)
  <2>0. text \in Shades /\ PageText \in {Page, PageText} BY <1>2, <1>4
  <2> HIDE DEF Fine
  <2>1. /\ Legible(fore) /\ \A s \in PageText : fore[s] = text
        /\ \A s \in Slot \ PageText : fore[s] = base[s]
    BY <2>0, <1>6, <1>7, SetPage
  <2> QED BY <1>2, <1>4, <1>6, <2>1 DEF Dim, Fine
<1>9. Fine(accent)
  <2>1. CASE sat = <<>> BY <1>8, <2>1
  <2>2. CASE sat # <<>>
    <3> DEFINE chip == SetGround(fore, {"primary"}, first)
    <3>1. Fine(chip) BY <1>2, <1>3, <1>8, <2>2, SetChips DEF Dim
    <3>2. brand = Set(chip, {"ring"}, first) BY <2>2
    <3> HIDE DEF chip, brand
    <3>3. Fine(brand) BY <1>3, <2>2, <3>1, <3>2, SetEdges DEF Dim
    <3>4. accent = SetGround(brand, {"accent"}, second) BY <2>2
    <3> HIDE DEF accent
    <3> QED BY <1>2, <1>3, <2>2, <3>3, <3>4, SetChips DEF Dim
  <2> QED BY <2>1, <2>2
<1> HIDE DEF accent
<1>10. Fine(soft) BY <1>2, <1>4, <1>9, SetChips DEF Dim
<1> HIDE DEF soft
<1>11. Fine(all) BY <1>4, <1>10, SetEdges DEF Dim
<1> QED BY <1>1, <1>11, DefaultsLegible

\* Both modes of a theme can be read.
LEMMA ThemeIsReadable ==
    ASSUME NEW t, Readable(t)
    PROVE  LET theme == DtcgToShadcn(ToDtcgJson(t), Parsed)
           IN  /\ Legible(theme.light) /\ Bright(theme.light)
               /\ Legible(theme.dark) /\ Dim(theme.dark)
<1> DEFINE b == ClassifyPalette(ColorLeaves(ToDtcgJson(t)))
           light == AssignSlotsLight(b)
<1>1. Buckets(b)
  <2>1. ColorLeaves(ToDtcgJson(t)) \in Seq(Shades) BY LeavesType
  <2> HIDE DEF b
  <2>2. \A x \in Seq(Shades) : Buckets(ClassifyPalette(x)) BY PaletteType DEF Buckets
  <2> QED BY <2>1, <2>2 DEF b
<1> HIDE DEF b
<1>2. Legible(light) /\ Bright(light) BY <1>1, LightMode
<1> HIDE DEF light
<1>3. Legible(AssignSlotsDark(light, b)) /\ Dim(AssignSlotsDark(light, b)) BY <1>1, <1>2, DarkMode
<1> QED BY <1>2, <1>3 DEF DtcgToShadcn, b, light

\* What can be read is what ThemeReadable asks for.
LEMMA ContrastOf ==
    ASSUME NEW mode, Legible(mode), Bright(mode) \/ Dim(mode)
    PROVE  /\ \A s \in DOMAIN Grounded : Distance(mode[s].l, mode[Grounded[s]].l) >= 378
           /\ \A s \in Page : Distance(mode[s].l, mode[Grounded[s]].l) >= 840
<1>1. /\ \A z \in LightShades : z.l \in Int /\ z.l >= 920
      /\ \A z \in DarkShades : z.l \in Int /\ z.l <= 80
  BY DEF LightShades, DarkShades, Shades, LightBackgroundFloor
<1>2. \A s \in Page : Distance(mode[s].l, mode[Grounded[s]].l) >= 840
  BY <1>1, GroundedType DEF Bright, Dim, Distance
<1>3. \A s \in Page : Distance(mode[s].l, mode[Grounded[s]].l) >= 378
  BY <1>1, GroundedType DEF Bright, Dim, Distance
<1> QED BY <1>2, <1>3, GroundedType DEF Legible

-----------------------------------------------------------------------------
(* Rows and files                                                          *)

\* A row has the tree of its tokens, or none, and a score no penalty raised.
RowKept(w) ==
    /\ {"raw", "tokens", "dtcg", "score", "refunded"} \subseteq DOMAIN row[w]
    /\ Readable(row[w].tokens)
    /\ row[w].dtcg \in {Empty, ToDtcgJson(row[w].tokens)}
    /\ row[w].raw # None =>
          /\ row[w].score <= row[w].raw
          /\ DetectNearDefaultExtraction(row[w].tokens) => row[w].refunded

\* A file that was sent is made from the tree of the row as it still is.
FileKept ==
    file.http = 200 =>
        /\ file.of \in Worker /\ pc[file.of] \in {"score", "done"}
        /\ LET dtcg == ToDtcgJson(row[file.of].tokens) IN
           \/ file.fmt \in SupportedFormats /\ file.body = BuildArtifact(file.fmt, dtcg)
           \/ file.fmt = "shadcn" /\ file.body = DtcgToShadcn(dtcg, Parsed)
           \/ file.fmt = "figma" /\ file.body = DtcgToFigmaVariables(dtcg, Parsed)

DataInv ==
    /\ req \in [Worker -> Request]
    /\ DOMAIN tokens = Worker /\ \A w \in Worker : Readable(tokens[w])
    /\ \A w \in Worker : RowKept(w)
    /\ FileKept

KeptInv == Types /\ DataInv

\* The row that holds no tokens yet.
LEMMA NothingIsReadable == Readable(<<>>)
<1>1. DOMAIN <<>> = {} OBVIOUS
<1>2. IsFiniteSet({}) BY FS_EmptySet
<1> QED BY <1>1, <1>2 DEF Readable

\* A step of one thread that leaves the rows and the file alone.
LEMMA QuietData ==
    ASSUME KeptInv, NEW w \in Worker, UNCHANGED <<req, row, file>>,
           pc[w] \notin {"score", "done"}, \A v \in Worker \ {w} : pc'[v] = pc[v],
           DOMAIN tokens' = Worker, \A v \in Worker : Readable(tokens'[v])
    PROVE  DataInv'
<1>1. req' \in [Worker -> Request] BY DEF KeptInv, DataInv
<1>2. ASSUME NEW v \in Worker PROVE RowKept(v)'
  BY DEF KeptInv, DataInv, RowKept
<1>3. FileKept' BY DEF KeptInv, DataInv, FileKept
<1> QED BY <1>1, <1>2, <1>3 DEF DataInv

\* A step of one thread that writes its row.
LEMMA RowData ==
    ASSUME KeptInv, NEW w \in Worker, UNCHANGED <<req, tokens, file>>,
           \A v \in Worker \ {w} : pc'[v] = pc[v] /\ row'[v] = row[v],
           RowKept(w)',
           \/ pc[w] \notin {"score", "done"}
           \/ pc'[w] = "done" /\ row'[w].tokens = row[w].tokens
    PROVE  DataInv'
<1>1. req' \in [Worker -> Request] /\ DOMAIN tokens' = Worker
      /\ \A v \in Worker : Readable(tokens'[v])
  BY DEF KeptInv, DataInv
<1>2. ASSUME NEW v \in Worker PROVE RowKept(v)'
  <2>1. CASE v = w BY <2>1
  <2>2. CASE v # w BY <2>2 DEF KeptInv, DataInv, RowKept
  <2> QED BY <2>1, <2>2
<1>3. FileKept' BY DEF KeptInv, DataInv, FileKept
<1> QED BY <1>1, <1>2, <1>3 DEF DataInv

\* No row holds anything yet, and no file was sent.
LEMMA DataInit == Init => DataInv
<1> SUFFICES ASSUME Init PROVE DataInv
  OBVIOUS
<1>1. req \in [Worker -> Request] BY DEF Init
<1>2. DOMAIN tokens = Worker /\ \A w \in Worker : Readable(tokens[w])
  BY NothingIsReadable DEF Init
<1>3. ASSUME NEW w \in Worker PROVE RowKept(w)
  BY NothingIsReadable DEF Init, NoRow, RowKept
<1>4. FileKept BY DEF Init, NoFile, FileKept
<1> QED BY <1>1, <1>2, <1>3, <1>4 DEF DataInv

\* What a scored row holds.
LEMMA ScoredRow ==
    ASSUME NEW t, Readable(t)
    PROVE  LET raw == ComputeQualityScore(t).composite
               score == ApplyHeuristicPenalties(t, raw).score
           IN  score <= raw /\ (DetectNearDefaultExtraction(t) => score < Threshold)
<1>1. 0 < Threshold BY SMT DEF Threshold
<1> QED BY <1>1, CompositeIsNat, PenaltiesLower

\* What a download holds, if there is something to download.
LEMMA FileData ==
    ASSUME KeptInv, NEW w \in Worker, NEW fmt, NEW body, NEW http,
           Answered(w, http, fmt, body),
           http = 200 => LET dtcg == ToDtcgJson(row[w].tokens) IN
               \/ fmt \in SupportedFormats /\ body = BuildArtifact(fmt, dtcg)
               \/ fmt = "shadcn" /\ body = DtcgToShadcn(dtcg, Parsed)
               \/ fmt = "figma" /\ body = DtcgToFigmaVariables(dtcg, Parsed)
    PROVE  DataInv'
<1>1. /\ UNCHANGED <<pc, req, tokens, row>> /\ pc[w] \in {"score", "done"}
      /\ file' = [http |-> http, fmt |-> fmt, of |-> w, body |-> IF http = 200 THEN body ELSE <<>>]
  BY DEF Answered
<1>2. ASSUME NEW v \in Worker PROVE RowKept(v)'
  BY <1>1 DEF KeptInv, DataInv, RowKept
<1>3. FileKept' BY <1>1 DEF FileKept
<1> QED BY <1>1, <1>2, <1>3 DEF KeptInv, DataInv

\* No step breaks what rows and files hold, one kind of action after the other.
LEMMA DataStep == KeptInv /\ [Next]_vars => KeptInv'
<1> SUFFICES ASSUME KeptInv, [Next]_vars PROVE DataInv'
  BY TypesStep DEF KeptInv
<1>0. /\ DOMAIN tokens = Worker /\ \A v \in Worker : Readable(tokens[v])
      /\ DOMAIN row = Worker /\ DOMAIN pc = Worker
  BY DEF KeptInv, DataInv, Types
<1> USE DEF Goto, GiveUp
<1>1. ASSUME NEW w \in Worker,
             \/ Survey(w) \/ Enter(w) \/ ProbeSite(w) \/ ReconSite(w) \/ FetchPage(w)
             \/ Gather(w) \/ Persist(w) \/ Leave(w) \/ Bundle(w)
      PROVE  DataInv'
  <2>1. /\ UNCHANGED <<req, tokens, row, file>> /\ pc[w] \notin {"score", "done"}
        /\ \E there : pc' = [pc EXCEPT ![w] = there]
    <3>1. CASE Survey(w) \/ Enter(w) \/ ProbeSite(w) \/ ReconSite(w)
      BY <3>1 DEF Survey, Enter, ProbeSite, ReconSite
    <3>2. CASE FetchPage(w) \/ Gather(w) BY <3>2 DEF FetchPage, Gather
    <3>3. CASE Persist(w) \/ Leave(w) \/ Bundle(w) BY <3>3 DEF Persist, Leave, Bundle
    <3> QED BY <1>1, <3>1, <3>2, <3>3
  <2> QED BY <1>0, <2>1, QuietData
<1>2. ASSUME NEW w \in Worker, AskModel(w) PROVE DataInv'
  <2>1. /\ UNCHANGED <<req, row, file>> /\ pc[w] = "ask"
        /\ pc' = [pc EXCEPT ![w] = "persist"]
        /\ \/ UNCHANGED tokens
           \/ tokens' = [tokens EXCEPT ![w] = CoerceTokenSet(What[req[w]].answer)]
    BY <1>2 DEF AskModel, Here
  <2>2. Readable(CoerceTokenSet(What[req[w]].answer))
    BY CoercedIsReadable DEF KeptInv, DataInv
  <2> QED BY <1>0, <2>1, <2>2, QuietData
<1>3. ASSUME NEW w \in Worker, Fail(w) PROVE DataInv'
  <2>1. PICK code : row' = [row EXCEPT ![w] =
                              [NoRow EXCEPT !.status = "failed", !.code = code,
                                            !.refunded = code \in RefundableCodes]]
    BY <1>3 DEF Fail
  <2>2. RowKept(w)' BY <1>0, <2>1, NothingIsReadable DEF RowKept, NoRow
  <2>3. /\ UNCHANGED <<req, tokens, file>> /\ pc[w] = "fail"
        /\ pc' = [pc EXCEPT ![w] = "done"]
    BY <1>3 DEF Fail
  <2> QED BY <1>0, <2>1, <2>2, <2>3, RowData
<1>4. ASSUME NEW w \in Worker, Save(w) PROVE DataInv'
  <2>1. /\ row' = [row EXCEPT ![w] = [NoRow EXCEPT !.status = "ok", !.tokens = tokens[w],
                                                   !.dtcg = ToDtcgJson(tokens[w])]]
        /\ UNCHANGED <<req, tokens, file>> /\ pc[w] = "save"
        /\ pc' = [pc EXCEPT ![w] = "score"]
    BY <1>4 DEF Save
  <2>2. RowKept(w)' BY <1>0, <2>1 DEF RowKept, NoRow
  <2> QED BY <1>0, <2>1, <2>2, RowData
<1>5. ASSUME NEW w \in Worker, Score(w) PROVE DataInv'
  <2> DEFINE t == row[w].tokens
             raw == ComputeQualityScore(t).composite
             score == ApplyHeuristicPenalties(t, raw).score
             low == score < Threshold
  <2>1. /\ UNCHANGED <<req, tokens, file>> /\ pc[w] = "score"
        /\ pc' = [pc EXCEPT ![w] = "done"]
        /\ \E dimensions, status, code :
              row' = [row EXCEPT ![w] =
                        [@ EXCEPT !.raw = raw, !.score = score, !.dimensions = dimensions,
                                  !.status = status, !.code = code, !.refunded = low]]
    BY <1>5 DEF Score
  <2>2. Readable(t) /\ RowKept(w) BY DEF KeptInv, DataInv, RowKept
  <2>3. score <= raw /\ (DetectNearDefaultExtraction(t) => low) BY <2>2, ScoredRow
  <2> HIDE DEF raw, score, low
  <2>4. /\ row'[w].raw = raw /\ row'[w].score = score /\ row'[w].refunded = low
        /\ row'[w].tokens = t /\ row'[w].dtcg = row[w].dtcg
        /\ DOMAIN row'[w] = DOMAIN row[w] /\ \A v \in Worker \ {w} : row'[v] = row[v]
    BY <1>0, <2>1, <2>2 DEF RowKept
  <2>5. RowKept(w)' BY <2>2, <2>3, <2>4 DEF RowKept
  <2> QED BY <1>0, <2>1, <2>4, <2>5, RowData
<1>6. ASSUME NEW w \in Worker, Export(w) \/ ExportAnonymous(w) \/ ConvertTo(w) PROVE DataInv'
  <2>1. row[w].dtcg \in {Empty, ToDtcgJson(row[w].tokens)} BY DEF KeptInv, DataInv, RowKept
  <2>2. Found(w).dtcg = row[w].dtcg BY DEF Found
  <2>3. CASE Export(w)
    <3>1. PICK fmt, user : Answered(w, ExportExtraction(fmt, user, Found(w)), fmt,
                                    BuildArtifact(fmt, row[w].dtcg))
      BY <2>3 DEF Export
    <3>2. ExportExtraction(fmt, user, Found(w)) = 200 =>
            fmt \in SupportedFormats /\ row[w].dtcg = ToDtcgJson(row[w].tokens)
      BY <2>1, <2>2 DEF ExportExtraction
    <3> QED BY <3>1, <3>2, FileData
  <2>4. CASE ExportAnonymous(w)
    <3>1. PICK fmt, token : Answered(w, ExportAnonymousExtraction(fmt, token, Found(w)), fmt,
                                     BuildArtifact(fmt, row[w].dtcg))
      BY <2>4 DEF ExportAnonymous
    <3>2. ExportAnonymousExtraction(fmt, token, Found(w)) = 200 =>
            fmt \in SupportedFormats /\ row[w].dtcg = ToDtcgJson(row[w].tokens)
      <4> DEFINE r == Found(w)
      <4> HIDE DEF r
      <4>1. fmt \notin SupportedFormats => ExportAnonymousExtraction(fmt, token, r) = 400
        BY DEF ExportAnonymousExtraction
      <4>2. ExportAnonymousExtraction(fmt, token, r)
              \in {400, 403, 404, IF r.dtcg = Empty THEN 409 ELSE 200}
        <5> DEFINE last == IF r.dtcg = Empty THEN 409 ELSE 200
                   kept == IF ~r.exists THEN 404 ELSE last
        <5>1. kept = 404 \/ kept = last OBVIOUS
        <5>2. ExportAnonymousExtraction(fmt, token, r) =
                IF fmt \notin SupportedFormats THEN 400
                ELSE IF token = "" THEN 403
                ELSE IF r.token = "" THEN 404
                ELSE IF r.token # token THEN 403 ELSE kept
          BY Zenon DEF ExportAnonymousExtraction
        <5> HIDE DEF kept, last
        <5>3. ExportAnonymousExtraction(fmt, token, r) \in {400, 403, 404, last}
          <6>1. CASE fmt \notin SupportedFormats BY <5>2, <6>1
          <6>2. CASE fmt \in SupportedFormats /\ token = "" BY <5>2, <6>2
          <6>3. CASE fmt \in SupportedFormats /\ token # "" /\ r.token = "" BY <5>2, <6>3
          <6>4. CASE fmt \in SupportedFormats /\ token # "" /\ r.token # "" /\ r.token # token
            BY <5>2, <6>4
          <6>5. CASE fmt \in SupportedFormats /\ token # "" /\ r.token # "" /\ r.token = token
            BY <5>1, <5>2, <6>5
          <6> QED BY <6>1, <6>2, <6>3, <6>4, <6>5
        <5> QED BY <5>3 DEF last
      <4>3. r.dtcg = row[w].dtcg BY <2>2 DEF r
      <4>4. ExportAnonymousExtraction(fmt, token, r) = 200 =>
              fmt \in SupportedFormats /\ r.dtcg # Empty
        BY <4>1, <4>2
      <4> QED BY <2>1, <4>3, <4>4 DEF r
    <3> QED BY <3>1, <3>2, FileData
  <2>5. CASE ConvertTo(w)
    <3>1. PICK to \in {"shadcn", "figma"} : \E user : Answered(w, Convert(user, Found(w)), to,
                 IF to = "shadcn" THEN DtcgToShadcn(row[w].dtcg, Parsed)
                 ELSE DtcgToFigmaVariables(row[w].dtcg, Parsed))
      BY <2>5 DEF ConvertTo
    <3>2. PICK user : Answered(w, Convert(user, Found(w)), to,
                 IF to = "shadcn" THEN DtcgToShadcn(row[w].dtcg, Parsed)
                 ELSE DtcgToFigmaVariables(row[w].dtcg, Parsed))
      BY <3>1
    <3>3. Convert(user, Found(w)) = 200 => row[w].dtcg = ToDtcgJson(row[w].tokens)
      BY <2>1, <2>2 DEF Convert
    <3> QED BY <3>1, <3>2, <3>3, FileData
  <2> QED BY <1>6, <2>3, <2>4, <2>5
<1>7. CASE UNCHANGED vars
  <2>1. UNCHANGED <<pc, req, tokens, row, file>> BY <1>7 DEF vars
  <2>2. ASSUME NEW v \in Worker PROVE RowKept(v)'
    BY <2>1 DEF KeptInv, DataInv, RowKept
  <2>3. FileKept' BY <2>1 DEF KeptInv, DataInv, FileKept
  <2> QED BY <2>1, <2>2, <2>3 DEF KeptInv, DataInv
<1> QED BY <1>1, <1>2, <1>3, <1>4, <1>5, <1>6, <1>7 DEF Next

LEMMA KeptAlways == Spec => []KeptInv
<1>1. Init => KeptInv BY TypesInit, DataInit DEF KeptInv
<1> QED BY <1>1, DataStep, PTL DEF Spec

\* An extraction whose fonts and colours are all defaults is refunded once it
\* is scored, and no penalty raises a score, whatever the site and the model say
\* (quality_scoring.py, quality_heuristics.py).
THEOREM DefaultsAreRefunded == Spec => []DefaultsNeverKept
<1>1. KeptInv => DefaultsNeverKept BY DEF KeptInv, DataInv, RowKept, DefaultsNeverKept
<1> QED BY <1>1, KeptAlways, PTL

\* Every token is in the stylesheet under a name of its own, and no two of a
\* theme or of the Figma collections share one, for every token set and however
\* rows are saved and downloaded (app/exporters, converters/figma).
THEOREM NoTokenIsLost == Spec => []ExportsKeepEveryToken
<1>1. KeptInv => ExportsKeepEveryToken
  <2> SUFFICES ASSUME KeptInv, file.http = 200
               PROVE  /\ file.fmt \in {"css", "zip"} =>
                           Cardinality(Names(file.body.css))
                             = Cardinality(DOMAIN row[file.of].tokens)
                      /\ file.fmt \in {"tailwind", "zip"} =>
                           Cardinality(Names(file.body.tailwind)) = Cardinality(file.body.tailwind)
                      /\ file.fmt = "figma" =>
                           Cardinality(Names(file.body.variables))
                             = Cardinality(file.body.variables)
    BY DEF ExportsKeepEveryToken, Names
  <2> DEFINE t == row[file.of].tokens
             dtcg == ToDtcgJson(t)
  <2>1. /\ Readable(t)
        /\ \/ file.fmt \in SupportedFormats /\ file.body = BuildArtifact(file.fmt, dtcg)
           \/ file.fmt = "shadcn" /\ file.body = DtcgToShadcn(dtcg, Parsed)
           \/ file.fmt = "figma" /\ file.body = DtcgToFigmaVariables(dtcg, Parsed)
    BY DEF KeptInv, DataInv, RowKept, FileKept
  <2>2. Cardinality(Names(DtcgToCss(dtcg))) = Cardinality(DOMAIN t)
    BY <2>1, CssNames DEF Names
  <2>3. Cardinality(Names(DtcgToTailwindTheme(dtcg))) = Cardinality(DtcgToTailwindTheme(dtcg))
    BY <2>1, TailwindNames
  <2>4. Cardinality(Names(DtcgToFigmaVariables(dtcg, Parsed).variables))
          = Cardinality(DtcgToFigmaVariables(dtcg, Parsed).variables)
    BY <2>1, FigmaNames
  <2> HIDE DEF t, dtcg
  <2>5. /\ BuildArtifact("css", dtcg).css = DtcgToCss(dtcg)
        /\ BuildArtifact("zip", dtcg).css = DtcgToCss(dtcg)
        /\ BuildArtifact("tailwind", dtcg).tailwind = DtcgToTailwindTheme(dtcg)
        /\ BuildArtifact("zip", dtcg).tailwind = DtcgToTailwindTheme(dtcg)
    BY DEF BuildArtifact, DtcgToZipBundle
  <2>6. CASE file.fmt \in SupportedFormats /\ file.body = BuildArtifact(file.fmt, dtcg)
    BY <2>2, <2>3, <2>5, <2>6 DEF SupportedFormats, t
  <2>7. CASE file.fmt = "shadcn" BY <2>7
  <2>8. CASE file.fmt = "figma" /\ file.body = DtcgToFigmaVariables(dtcg, Parsed)
    BY <2>4, <2>8
  <2> QED BY <2>1, <2>6, <2>7, <2>8
<1> QED BY <1>1, KeptAlways, PTL

\* Both modes of a shadcn theme can be read, whatever colours the site has
\* (converters/shadcn).
THEOREM ThemesAreReadable == Spec => []ThemeReadable
<1>1. KeptInv => ThemeReadable
  <2> SUFFICES ASSUME KeptInv, file.http = 200, file.fmt = "shadcn",
                      NEW mode \in {file.body.light, file.body.dark}
               PROVE  /\ \A s \in DOMAIN Grounded : Distance(mode[s].l, mode[Grounded[s]].l) >= 378
                      /\ \A s \in Page : Distance(mode[s].l, mode[Grounded[s]].l) >= 840
    BY DEF ThemeReadable, Page
  <2> DEFINE t == row[file.of].tokens
  <2>1. /\ Readable(t)
        /\ file.body = DtcgToShadcn(ToDtcgJson(t), Parsed)
    BY DEF KeptInv, DataInv, RowKept, FileKept, SupportedFormats
  <2> HIDE DEF t
  <2>2. Legible(mode) /\ (Bright(mode) \/ Dim(mode)) BY <2>1, ThemeIsReadable
  <2> QED BY <2>2, ContrastOf
<1> QED BY <1>1, KeptAlways, PTL
=============================================================================
