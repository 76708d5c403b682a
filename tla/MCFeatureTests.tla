--------------------------- MODULE MCFeatureTests ----------------------------
(***************************************************************************)
(* Instances of FeatureTests for TLC.                                      *)
(***************************************************************************)
EXTENDS FeatureTests

\* Both orders of the two implementations, and each against itself: the
\* harness takes any binaries.
MCPairs == [Node -> {"go", "c"}]
MCWorkflowPair == {[n \in Node |-> IF n = "A" THEN "go" ELSE "c"]}
=============================================================================
