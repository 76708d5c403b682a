------------------------------ MODULE MCPairRun ------------------------------
(***************************************************************************)
(* A small instance of PairRun: one feature at a time, as in the code      *)
(* (runCompatTest is called for one feature and one pair).                 *)
(***************************************************************************)
EXTENDS PairRun

Pair(a, b) == [n \in Node |-> IF n = "A" THEN a ELSE b]

MCPairs == {Pair("go", "c"), Pair("c", "c")}

\* Every result line in a pipe is what the test of its node ended with: the
\* link of the two parts on which the theorems about PairRun rest.
Link == \A n \in Node : \A k \in 1..Len(stdout[n]) :
  stdout[n][k].type = "result" =>
    place[n] = "done" /\ stdout[n][k] = S!ResultLine(out[n])

\* No test has begun at a node that has not read run_test.
Begun == \A n \in Node : place[n] # "idle" => S!ReadTest(n)
=============================================================================
