---------------------------- MODULE WholeMining ----------------------------
(***************************************************************************)
(* Lifting the atoms of one class, its buttons say, out of a captured      *)
(* page (app/whole_mining.py).  The markup is the sequence of events the   *)
(* HTML parser reports: [kind, tag, classes] of kind start, end,           *)
(* selfclosed or comment.                                                  *)
(***************************************************************************)
EXTENDS Integers, ComponentCss

CONSTANT SubstringsOf   \* [class -> substrings of AtomDetectionHints it contains]

VoidElements == {"br", "img", "input", "link", "meta"}

AtomDetectionHints ==
    [buttons |-> [tags |-> {"button"}, substrings |-> {"btn", "button"}],
     cards   |-> [tags |-> {}, substrings |-> {"card"}],
     badges  |-> [tags |-> {}, substrings |-> {"badge", "pill", "tag", "chip"}],
     links   |-> [tags |-> {}, substrings |-> {"link"}],
     inputs  |-> [tags |-> {"input", "textarea"}, substrings |-> {"input", "field"}]]

ElementMatches(hint, event) ==
    \/ event.tag \in hint.tags
    \/ \E c \in event.classes : SubstringsOf[c] \cap hint.substrings # {}

-----------------------------------------------------------------------------
(* _FragmentExtractor: depth, the capture open at most once, and the       *)
(* fragments completed.                                                    *)

NoCapture == [tag |-> "", depth |-> 0, start |-> 0, classes |-> {}]

HandleStartTag(s, event, i, hint) ==
    LET depth == s.depth + (IF event.tag \in VoidElements THEN 0 ELSE 1)
    IN [s EXCEPT !.depth = depth,
                 !.capture = IF s.capture = NoCapture /\ ElementMatches(hint, event)
                             THEN [tag |-> event.tag, depth |-> depth, start |-> i,
                                   classes |-> event.classes]
                             ELSE @]

\* A capture ends at the end tag of its element, at its depth: never, for a
\* void element written without a slash.
HandleEndTag(s, event, i) ==
    LET ends == s.capture # NoCapture /\ event.tag = s.capture.tag
                                      /\ s.depth = s.capture.depth
    IN [depth |-> s.depth - (IF event.tag \in VoidElements THEN 0 ELSE 1),
        capture |-> IF ends THEN NoCapture ELSE s.capture,
        done |-> IF ends THEN Append(s.done, [from |-> s.capture.start, to |-> i,
                                              classes |-> s.capture.classes])
                         ELSE s.done]

HandleStartEndTag(s, event, i, hint) ==
    IF s.capture = NoCapture /\ ElementMatches(hint, event)
    THEN [s EXCEPT !.done = Append(@, [from |-> i, to |-> i, classes |-> event.classes])]
    ELSE s

Feed(markup, hint) ==
    LET step(s, i) ==
            CASE markup[i].kind = "start" -> HandleStartTag(s, markup[i], i, hint)
              [] markup[i].kind = "end" -> HandleEndTag(s, markup[i], i)
              [] markup[i].kind = "selfclosed" -> HandleStartEndTag(s, markup[i], i, hint)
              [] OTHER -> s
    IN FoldLeft(step, [depth |-> 0, capture |-> NoCapture, done |-> <<>>],
                [i \in DOMAIN markup |-> i])

-----------------------------------------------------------------------------

\* The completed fragments, in order, and the classes on their roots.
FindAtomFragments(markup, class) ==
    IF class \notin DOMAIN AtomDetectionHints THEN [html |-> <<>>, classes |-> {}]
    ELSE LET done == Feed(markup, AtomDetectionHints[class]).done
         IN [html |-> FlattenSeq([i \in DOMAIN done |->
                          StripComments(SubSeq(markup, done[i].from, done[i].to))]),
             classes |-> UNION {f.classes : f \in ToSet(done)}]

\* mine_atom_from_whole; a page without the atom yields html <<>>.
MineAtom(whole, class) ==
    LET found == FindAtomFragments(whole.body, class)
        css == CssRulesForClasses(StripComments(whole.styles), found.classes)
    IN [html |-> found.html, css |-> css, states |-> StatesPresent(css)]
=============================================================================
