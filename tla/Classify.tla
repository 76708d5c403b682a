------------------------------ MODULE Classify ------------------------------
(***************************************************************************)
(* The pure part of the harness: how the answers of the two nodes of a     *)
(* pair, or the error StartNode returned, become one entry of the report   *)
(* (integration/report.go, integration/integration_test.go).               *)
(*                                                                         *)
(* An answer and a verdict are records of a status and an exit code; the   *)
(* free-text details are left out.                                         *)
(***************************************************************************)
EXTENDS Integers

\* What a node reports itself, and what the harness makes up for a node that
\* stays silent ("timeout") or whose pipe fails ("error").
Reported   == {"compatible", "conflicting", "not_implemented"}
NodeStatus == Reported \cup {"timeout", "error"}

ExitCode == 0..3

Answer   == [status : NodeStatus, exit : ExitCode]
Verdict  == [status : Reported, exit : ExitCode]

\* No answer, no verdict yet.
None == [status |-> "none", exit |-> 0]

Compatible     == [status |-> "compatible",      exit |-> 0]
ConflictingBy1 == [status |-> "conflicting",     exit |-> 1]
ConflictingBy3 == [status |-> "conflicting",     exit |-> 3]
NotImplemented == [status |-> "not_implemented", exit |-> 2]
HarnessTimeout == [status |-> "timeout",         exit |-> 3]
IPCError       == [status |-> "error",           exit |-> 1]

\* What the feature tests of a node can end with, by its implementation.
goResults == {Compatible, ConflictingBy1, ConflictingBy3, NotImplemented}
cResults  == {Compatible, ConflictingBy1, ConflictingBy3}

Results(i) ==
  CASE i = "go"    -> goResults
    [] i = "c"     -> cResults
    [] i = "rust"  -> {NotImplemented}
    [] i = "other" -> {Compatible, NotImplemented}

(***************************************************************************)
(* classifyResults: the first rule that applies decides.                   *)
(***************************************************************************)
\* Mutant: the initiator's exit code alone decides.
classifyByInitiator(a, b) ==
  IF a.exit = 0 THEN Compatible ELSE [status |-> "conflicting", exit |-> a.exit]

\* Mutant: one silent side is taken for two.
classifyOneSilent(a, b) ==
  IF a.status = "timeout" \/ b.status = "timeout"
    THEN NotImplemented
    ELSE [status |-> IF a.exit + b.exit = 0 THEN "compatible" ELSE "conflicting",
          exit |-> a.exit]

\* Mutant: two silent sides are no case of their own.
classifySilence(a, b) ==
  IF a.status = "not_implemented" \/ b.status = "not_implemented" THEN NotImplemented
    ELSE IF a.status = "timeout" \/ b.status = "timeout" THEN ConflictingBy3
    ELSE [status |-> IF a.exit + b.exit = 0 THEN "compatible" ELSE "conflicting",
          exit |-> a.exit]

classifyResults(a, b) ==
  LET some(s) == a.status = s \/ b.status = s
      both(s) == a.status = s /\ b.status = s
  IN  IF some("not_implemented") \/ both("timeout")
        THEN NotImplemented
      ELSE IF some("timeout") THEN ConflictingBy3
      ELSE IF some("error")   THEN ConflictingBy1
      ELSE IF a.exit = 0 /\ b.exit = 0
        THEN [status |-> "compatible",  exit |-> a.exit]
        ELSE [status |-> "conflicting", exit |-> a.exit]

(***************************************************************************)
(* What StartNode can return as an error, by the text isStartupFailure     *)
(* looks for: cmd.Start on a missing or unusable binary, the three ways    *)
(* the first line can be wrong, and the failures of pipe(2) and fork(2),   *)
(* whose texts ("too many open files", "resource temporarily unavailable") *)
(* the list does not contain.                                              *)
(***************************************************************************)
SpawnError == {"no such file or directory", "permission denied",
               "exec format error",
               "too many open files", "resource temporarily unavailable"}

ReadyError == {"stdout closed before ready", "bad ready message",
               "expected ready", "timed out waiting for ready"}

isStartupFailure(err) ==
  err \in {"no such file or directory", "permission denied",
           "exec format error"} \cup ReadyError

StartupVerdict(err) ==
  IF isStartupFailure(err) THEN NotImplemented ELSE ConflictingBy1
=============================================================================
