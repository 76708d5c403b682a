--------------------------- MODULE Classify_proofs --------------------------
(***************************************************************************)
(* Facts about the pure part of the harness, for all answers.              *)
(***************************************************************************)
EXTENDS Classify, TLAPS

\* Whatever two nodes answer, and also before they did, the classification
\* is one of the three statuses of the report with an exit code
\* (classifyResults has no path without a status).
THEOREM ClassifyIsVerdict ==
  ASSUME NEW a \in Answer \cup {None}, NEW b \in Answer \cup {None}
  PROVE  classifyResults(a, b) \in Verdict
<1>1. a.exit \in ExitCode /\ b.exit \in ExitCode
  BY DEF Answer, None, ExitCode
<1>2. NotImplemented \in Verdict /\ ConflictingBy3 \in Verdict /\ ConflictingBy1 \in Verdict
  BY DEF NotImplemented, ConflictingBy3, ConflictingBy1, Verdict, Reported, ExitCode
<1>3. \A s \in Reported : [status |-> s, exit |-> a.exit] \in Verdict
  BY <1>1 DEF Verdict
<1> QED
  BY <1>2, <1>3 DEF classifyResults, Reported

\* "compatible" needs a participating answer with exit code 0 from each
\* side: neither a silent node nor a broken pipe nor a node without the
\* feature can be part of a compatible pair (classifyResults).
THEOREM CompatibleNeedsBoth ==
  ASSUME NEW a \in Answer, NEW b \in Answer,
         classifyResults(a, b).status = "compatible"
  PROVE  /\ a.exit = 0 /\ a.status \in {"compatible", "conflicting"}
         /\ b.exit = 0 /\ b.status \in {"compatible", "conflicting"}
<1>1. /\ a.status \notin {"not_implemented", "timeout", "error"}
      /\ b.status \notin {"not_implemented", "timeout", "error"}
      /\ a.exit = 0 /\ b.exit = 0
  BY DEF classifyResults, NotImplemented, ConflictingBy3, ConflictingBy1
<1> QED
  BY <1>1 DEF Answer, NodeStatus, Reported

\* The classification does not depend on the order of the two sides, but
\* for the exit code of a conflict, which is the initiator's.
THEOREM ClassifyIsSymmetric ==
  ASSUME NEW a \in Answer, NEW b \in Answer
  PROVE  classifyResults(a, b).status = classifyResults(b, a).status
  BY DEF classifyResults, NotImplemented, ConflictingBy3, ConflictingBy1

\* A failure to start is never reported as "compatible".
THEOREM StartupIsVerdict ==
  ASSUME NEW err
  PROVE  StartupVerdict(err) \in {NotImplemented, ConflictingBy1}
  BY DEF StartupVerdict
=============================================================================
