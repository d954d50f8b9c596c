--------------------------- MODULE CaptureManifest ---------------------------
(***************************************************************************)
(* What of a brand was captured (app/brand_capture_manifest.py), which     *)
(* category pages may therefore be shown (app/library_render_policy.py)    *)
(* and what the page and the hub card say is missing                       *)
(* (app/missing_data_notice.py).  A bag of tokens is a sequence of         *)
(* declarations [spelling, slot, value]: the seed writes keys with the ds- *)
(* prefix, an extraction writes them bare, and both name one slot.         *)
(***************************************************************************)
EXTENDS Integers, FiniteSets, Sequences, TLC

CONSTANT Contract       \* [group -> slots BRAND_TOKEN_CONTRACT gives it]

ComponentGroups ==
    {"badge", "button", "card", "color", "input", "layout", "motion", "radius",
     "section", "shadow", "spacing", "typography"}

\* The last declaration of a slot counts, whatever its spelling.
Overrides(tokens) ==
    LET declared == {tokens[i].slot : i \in DOMAIN tokens}
        last(slot) == CHOOSE i \in DOMAIN tokens :
                          /\ tokens[i].slot = slot
                          /\ \A j \in DOMAIN tokens : tokens[j].slot = slot => j <= i
    IN [slot \in declared |-> tokens[last(slot)].value]

-----------------------------------------------------------------------------
(* build_capture_manifest *)

GroupsOfClass ==
    [buttons |-> {"button"}, cards |-> {"card"}, badges |-> {"badge"},
     inputs |-> {"input"}, library |-> {"button", "card", "badge"}]
       @@ ("form-fields" :> {"input"})

GroupsForMinedClasses(classes) ==
    UNION {GroupsOfClass[c] : c \in classes \cap DOMAIN GroupsOfClass}

\* Whether the slots a brand supplies, or its button snapshot, show a group.
CaptureRule(group, supplied, snapshot) ==
    LET all(slots) == slots \subseteq supplied
        any(slots) == slots \cap supplied # {}
    IN CASE group = "color" -> all({"bg", "accent", "text"})
         [] group = "typography" -> any({"font-body", "font-display"} \cup Contract[group])
         [] group \in {"spacing", "layout", "section", "motion", "shadow"} ->
                any(Contract[group])
         [] group = "radius" ->
                any({"radius-xs", "radius-sm", "radius-md", "radius-lg", "radius-full"})
         [] group = "button" ->
                \/ snapshot
                \/ all({"button-padding-y", "button-padding-x", "button-border-width"})
         [] group = "card" ->
                all({"card-border-width"}) /\ any({"card-padding", "card-padding-y"})
         [] group = "badge" -> all({"badge-padding-y", "badge-padding-x"})
         [] group = "input" -> all({"input-padding-y", "input-border-width"})

CaptureManifestOf(tokens, snapshot, minedClasses) ==
    LET supplied == DOMAIN Overrides(tokens)
        mined == GroupsForMinedClasses(minedClasses)
        native(g) == CaptureRule(g, supplied, snapshot)
    IN [g \in ComponentGroups |->
           [captured |-> native(g) \/ g \in mined,
            provenance |-> IF native(g) THEN "native"
                           ELSE IF g \in mined THEN "mined" ELSE "none",
            present |-> Contract[g] \cap supplied,
            absent |-> Contract[g] \ supplied]]

CapturedGroups(manifest) ==
    {g \in DOMAIN manifest : manifest[g].captured}

-----------------------------------------------------------------------------
(* evaluate_category_render *)

CaptureRequirements == GroupsOfClass

\* A page pattern is always rendered, the library page when one of its groups
\* is captured, any other showcase page when all of its groups are.
EvaluateCategoryRender(category, manifest) ==
    LET needed == IF category \in DOMAIN CaptureRequirements
                  THEN CaptureRequirements[category] ELSE {}
        missing == needed \ CapturedGroups(manifest)
    IN [shouldRender |-> IF category = "library" THEN missing # needed
                                                ELSE missing = {},
        missing |-> IF needed = {} THEN {} ELSE missing]

-----------------------------------------------------------------------------
(* The notice of a page and the count of a hub card. *)

PrimaryShowcase == {"badges", "buttons", "cards", "form-fields", "inputs"}

MissingNotice(manifest) ==
    {c \in PrimaryShowcase :
        ~ CaptureRequirements[c] \subseteq CapturedGroups(manifest)}

HubCaptureSignal(groups) ==
    [captured |-> Cardinality({c \in PrimaryShowcase :
                                  CaptureRequirements[c] \subseteq groups}),
     total |-> Cardinality(PrimaryShowcase)]
=============================================================================
