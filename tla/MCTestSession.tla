--------------------------- MODULE MCTestSession ----------------------------
(***************************************************************************)
(* Instances of TestSession for TLC.                                       *)
(***************************************************************************)
EXTENDS TestSession

Pair(a, b) == [n \in Node |-> IF n = "A" THEN a ELSE b]

\* The three pairs the workflow runs, and a C node against a foreign one.
MCPairs == {Pair("go", "c"), Pair("go", "rust"), Pair("c", "rust"),
            Pair("c", "other")}

\* A pair of the workflow, and one with a foreign node.
MCRealPair == {Pair("go", "c")}
MCForeign  == {Pair("c", "other")}
=============================================================================
