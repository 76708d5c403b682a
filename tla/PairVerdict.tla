---------------------------- MODULE PairVerdict -----------------------------
(***************************************************************************)
(* What one (feature, pair) run promises its caller, without processes,    *)
(* pipes or goroutines: each side answers at most once, the verdict is     *)
(* taken once, either from both answers or, before the test was started,   *)
(* without any, and nothing changes after it.                              *)
(***************************************************************************)
EXTENDS Classify

CONSTANT Node          \* the two sides of the pair
CONSTANT Initiator     \* the side whose exit code represents the pair
CONSTANT Responder

VARIABLES
  answer,              \* answer[n]: what side n answered, None so far
  verdict,             \* the entry of the report, None so far
  returned             \* the entry has been handed to the caller

vars == <<answer, verdict, returned>>

Init ==
  /\ answer   = [n \in Node |-> None]
  /\ verdict  = None
  /\ returned = FALSE

\* A side answers, or is answered for by the harness.
AnswerFor(n) ==
  /\ verdict = None
  /\ answer[n] = None
  /\ \E a \in Answer : answer' = [answer EXCEPT ![n] = a]
  /\ UNCHANGED <<verdict, returned>>

\* The run is given up before any side was asked: nothing was learnt about
\* the implementations, so the verdict is never "compatible".
GiveUp ==
  /\ verdict = None
  /\ \A n \in Node : answer[n] = None
  /\ verdict' \in {NotImplemented, ConflictingBy1}
  /\ returned' \in BOOLEAN        \* at once when no node has to be closed
  /\ UNCHANGED answer

Decide ==
  /\ verdict = None
  /\ \A n \in Node : answer[n] # None
  /\ verdict' = classifyResults(answer[Initiator], answer[Responder])
  /\ UNCHANGED <<answer, returned>>

Return ==
  /\ verdict # None
  /\ returned' = TRUE
  /\ UNCHANGED <<answer, verdict>>

Next ==
  \/ \E n \in Node : AnswerFor(n)
  \/ GiveUp
  \/ Decide
  \/ Return

Spec == Init /\ [][Next]_vars
=============================================================================
