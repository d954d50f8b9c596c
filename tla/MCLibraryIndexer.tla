-------------------------- MODULE MCLibraryIndexer --------------------------
(***************************************************************************)
(* An instance of LibraryIndexer for TLC: two asset versions of a brand    *)
(* and the three calls that enqueue them.                                  *)
(***************************************************************************)
EXTENDS LibraryIndexer

CONSTANTS c1, c2, c3

\* 1, a mined synthetic of class buttons, seeded by c1 and by c2.  2, a later
\* organic version of no class, with a template page for buttons and hero.
Versions == {1, 2}

Fetched == [a \in Asset |-> a]

Classes == [a \in Asset |-> IF a = 1 THEN "buttons" ELSE NoClass]

Captures == [a \in Asset |-> IF a = 1 THEN {"hero"} ELSE {"buttons", "hero"}]

Subjects == [c \in Call |-> IF c = c3 THEN 2 ELSE 1]
=============================================================================
