------------------------------- MODULE Matrix -------------------------------
(***************************************************************************)
(* One job over the whole matrix: the parallel subtests of                 *)
(* TestCompatibility, the results file they leave, the report generator    *)
(* that merges that file with the log of go test, and the gate of the      *)
(* workflow (integration/integration_test.go, integration/report.go,       *)
(* cmd/report/main.go, .github/workflows/testnet.yml).                     *)
(*                                                                         *)
(* What happens inside a subtest is TestSession; here it yields a status.  *)
(* A pair without both binaries has no cases: pairs() skips it, and        *)
(* TestCompatibility skips itself when no pair is left. The report is      *)
(* sorted, so the collections are sets of records.                         *)
(***************************************************************************)
CONSTANTS
  Cases,     \* the (feature, pair) combinations of the matrix
  Leftover   \* what an earlier job may have left in the results file

Status == {"compatible", "conflicting", "not_implemented"}
Record == [case : Cases, status : Status]

\* The results file: absent, cut short in the middle of a write, or complete.
Missing    == [state |-> "absent", recs |-> {}]
Torn       == [state |-> "torn",   recs |-> {}]
Complete(R) == [state |-> "ok",    recs |-> R]

ASSUME CasesAssumption == Cases # {}
ASSUME LeftoverAssumption == Leftover \subseteq SUBSET Record

VARIABLES
  stage,     \* stage[c]: how far subtest c is
  status,    \* status[c]: the status of runCompatTest's result
  results,   \* the slice the subtests append to
  log,       \* RESULT_JSON records go test's output holds as lines of their own
  garbled,   \* cases whose log line is none any more
  unreadable, \* the output cannot be scanned to its end
  file,      \* the results file
  harness,   \* the go test process
  report,    \* the records of the JSON report
  written,   \* the two files of the report that exist
  artifact,  \* the report was uploaded
  gate,      \* how far the job is after go test, and how it ended
  site       \* the page made of the report by the job that follows

vars == <<stage, status, results, log, garbled, unreadable, file, harness,
          report, written, artifact, gate, site>>
subtests == <<stage, status, results, log, garbled>>
job      == <<unreadable, report, written, artifact, gate, site>>

Init ==
  /\ stage   = [c \in Cases |-> "running"]
  /\ status  \in [Cases -> Status]
  /\ results = {} /\ log = {} /\ garbled = {} /\ unreadable = FALSE
  /\ file    \in {Missing} \cup {Complete(R) : R \in Leftover}
  /\ harness = "running"
  /\ report  = {} /\ written = {} /\ artifact = FALSE
  /\ gate    = "open" /\ site = "none"

-----------------------------------------------------------------------------
Result(c) == [case |-> c, status |-> status[c]]

\* Mutant: the log line is left out.
LogNothing(c) ==
  /\ harness = "running" /\ stage[c] = "running"
  /\ stage' = [stage EXCEPT ![c] = "logged"]
  /\ UNCHANGED <<status, results, log, garbled, file, harness, job>>

\* runCompatTest returned and t.Logf wrote its line. The nodes' stderr shares
\* the stream: it can run into the line.
LogResult(c) ==
  /\ harness = "running" /\ stage[c] = "running"
  /\ stage' = [stage EXCEPT ![c] = "logged"]
  /\ \/ log' = log \cup {Result(c)} /\ UNCHANGED garbled
     \/ garbled' = garbled \cup {c} /\ UNCHANGED log
  /\ UNCHANGED <<status, results, file, harness, job>>

\* Mutant: an append without the lock may be overwritten.
AppendUnlocked(c) ==
  /\ harness = "running" /\ stage[c] = "logged"
  /\ stage'   = [stage EXCEPT ![c] = "done"]
  /\ results' \in {results, results \cup {Result(c)}}
  /\ UNCHANGED <<status, log, garbled, file, harness, job>>

\* The append under mu.
AppendResult(c) ==
  /\ harness = "running" /\ stage[c] = "logged"
  /\ stage'   = [stage EXCEPT ![c] = "done"]
  /\ results' = results \cup {Result(c)}
  /\ UNCHANGED <<status, log, garbled, file, harness, job>>

\* Mutant: written when the body of TestCompatibility returns (a defer),
\* while the parallel subtests are still to run.
OpenFileEarly ==
  /\ harness = "running"
  /\ harness' = "writing" /\ file' = Torn
  /\ UNCHANGED <<subtests, job>>

\* writeResults, in the Cleanup of the parent test: open and truncate, ...
OpenFile ==
  /\ harness = "running"
  /\ \A c \in Cases : stage[c] = "done"
  /\ \/ harness' = "writing" /\ file' = Torn
     \/ harness' = "ended" /\ UNCHANGED file        \* t.Fatalf
  /\ UNCHANGED <<subtests, job>>

\* ... then write.
WriteFile ==
  /\ harness = "writing"
  /\ file' \in {Complete(results), Torn}            \* or t.Fatalf
  /\ harness' = "ended"
  /\ UNCHANGED <<subtests, job>>

\* The -timeout of go test, or a panic, ends the process.
Killed ==
  /\ harness \in {"running", "writing"}
  /\ harness' = "killed"
  /\ UNCHANGED <<subtests, file, job>>

\* The output gets a line of more than 64 KiB, or the file is lost.
LogSpoilt ==
  /\ gate = "open" /\ ~unreadable
  /\ unreadable' = TRUE
  /\ UNCHANGED <<subtests, file, harness, report, written, artifact, gate, site>>

-----------------------------------------------------------------------------
\* resultAdder: a case that was seen is not added again.
addAll(seen, recs) ==
  seen \cup {r \in recs : \A s \in seen : s.case # r.case}

loadResultsJSON == IF file.state = "ok" THEN file.recs ELSE {}

\* An error of the scanner makes loadResults drop what was read before it.
parseGoTestJSON == IF unreadable THEN {} ELSE log

\* Mutant: the log is read only when the file gave nothing.
loadEither ==
  IF loadResultsJSON # {} \/ file.state = "torn" THEN loadResultsJSON ELSE parseGoTestJSON

loadResults == addAll(addAll({}, loadResultsJSON), parseGoTestJSON)

\* Mutant: the report is made only after go test ended by itself.
OverByItself == harness = "ended"

Over == harness \in {"ended", "killed"}

\* The JSON file is written, then the Markdown file; log.Fatalf of either
\* fails the step, and the rest of the job is skipped.
WriteReport ==
  /\ Over /\ gate = "open"
  /\ \/ report' = loadResults /\ written' = {"json", "md"} /\ gate' = "report"
     \/ report' = loadResults /\ written' = {"json"} /\ gate' = "broken"
     \/ gate' = "broken" /\ UNCHANGED <<report, written>>
  /\ UNCHANGED <<subtests, unreadable, file, harness, artifact, site>>

Conflict(R) == \E r \in R : r.status = "conflicting"

\* Mutant: a report with a conflict is not uploaded.
UploadUnlessConflict ==
  /\ gate = "report"
  /\ artifact' = ~Conflict(report) /\ gate' = "uploaded"
  /\ UNCHANGED <<subtests, unreadable, file, harness, report, written, site>>

\* The job summary and the artifacts.
Upload ==
  /\ gate = "report"
  /\ \/ artifact' = TRUE /\ gate' = "uploaded"
     \/ gate' = "broken" /\ artifact' \in BOOLEAN
  /\ UNCHANGED <<subtests, unreadable, file, harness, report, written, site>>

\* Mutant: a report without records has no conflicts.
GateEmpty ==
  /\ gate = "uploaded"
  /\ gate' = IF Conflict(report) THEN "failed" ELSE "passed"
  /\ UNCHANGED <<subtests, unreadable, file, harness, report, written, artifact, site>>

\* Without records the report says "results": null, which jq cannot iterate
\* over; bash -e fails the step for that as it does for a conflict.
Gate ==
  /\ gate = "uploaded"
  /\ gate' = IF report = {} \/ Conflict(report) THEN "failed" ELSE "passed"
  /\ UNCHANGED <<subtests, unreadable, file, harness, report, written, artifact, site>>

Decided == gate \in {"passed", "failed", "broken"}

\* publish-pages runs always(), but does nothing without the artifact.
Publish ==
  /\ Decided /\ site = "none"
  /\ site' \in IF artifact THEN {"published", "broken"} ELSE {"skipped"}
  /\ UNCHANGED <<subtests, unreadable, file, harness, report, written, artifact, gate>>

WorkflowEnded == site # "none" /\ UNCHANGED vars

HarnessStep ==
  \/ \E c \in Cases : LogResult(c) \/ AppendResult(c)
  \/ OpenFile \/ WriteFile \/ Killed

WorkflowStep == WriteReport \/ Upload \/ Gate \/ Publish

Next == HarnessStep \/ LogSpoilt \/ WorkflowStep \/ WorkflowEnded

\* A subtest may hang, but then -timeout kills the process; and the steps of
\* the workflow after it are run.
Spec ==
  /\ Init /\ [][Next]_vars
  /\ WF_vars(HarnessStep) /\ WF_vars(WorkflowStep)

-----------------------------------------------------------------------------
(***************************************************************************)
(* Properties.                                                             *)
(***************************************************************************)
Finished(c) == stage[c] # "running"
Reported    == gate \notin {"open", "broken"}

\* Types; the slice and the log hold results of subtests that got there.
TypeOK ==
  /\ stage   \in [Cases -> {"running", "logged", "done"}]
  /\ status  \in [Cases -> Status]
  /\ results = {Result(c) : c \in {d \in Cases : stage[d] = "done"}}
  /\ garbled \subseteq {c \in Cases : Finished(c)}
  /\ log     = {Result(c) : c \in {d \in Cases : Finished(d) /\ d \notin garbled}}
  /\ unreadable \in BOOLEAN
  /\ file    \in [state : {"absent", "torn", "ok"}, recs : SUBSET Record]
  /\ harness \in {"running", "writing", "ended", "killed"}
  /\ report  \subseteq Record /\ artifact \in BOOLEAN
  /\ written \in {{}, {"json"}, {"json", "md"}}
  /\ gate    \in {"open", "report", "uploaded", "passed", "failed", "broken"}
  /\ site    \in {"none", "published", "broken", "skipped"}

(***************************************************************************)
(* The results file is written when every subtest is in it, although they  *)
(* run after the body of TestCompatibility returned: the Cleanup, not a    *)
(* defer, writes it (integration_test.go:129-134).                         *)
(***************************************************************************)
FileHasAll ==
  harness = "ended" /\ file.state = "ok" =>
    file.recs = {Result(c) : c \in Cases}

(***************************************************************************)
(* One of the two sources is enough: when the results file was written, or *)
(* was not but the log can be read, the report of a run that ended has     *)
(* every case exactly once, with this run's status (loadResults,           *)
(* resultAdder, writeResults).                                             *)
(***************************************************************************)
SourceIntact ==
  \/ file = Complete(results)
  \/ file.state # "ok" /\ garbled = {} /\ ~unreadable

FullReport ==
  Reported /\ harness = "ended" /\ SourceIntact =>
    report = {Result(c) : c \in Cases}

(***************************************************************************)
(* The log line lets the report generator "reconstruct results even if the *)
(* intermediate JSON file is not written (e.g. early process exit)"        *)
(* (integration_test.go:105-107): whatever was logged is in the report,    *)
(* as long as the log can be scanned.                                      *)
(***************************************************************************)
LogReconstructs == Reported /\ ~unreadable => log \subseteq report

(***************************************************************************)
(* The gate decides on what this job left to be read, and on all of it: a  *)
(* job passes just when the result of a subtest can be read back and none  *)
(* that can is a conflict. One that left nothing, because it died early or *)
(* its log cannot be scanned, does not pass for one without conflicts (the *)
(* last step of the workflow, loadResults). A conflict that was not logged *)
(* yet, or only on a spoilt line, is none the gate could see.              *)
(***************************************************************************)
Readable(c) ==
  Finished(c) /\ (file.state = "ok" \/ (c \notin garbled /\ ~unreadable))

GateIsRight ==
  gate \in {"passed", "failed"} =>
    (gate = "passed" <=>
       /\ \E c \in Cases : Readable(c)
       /\ \A c \in Cases : Readable(c) => status[c] # "conflicting")

(***************************************************************************)
(* The page is made "regardless of whether tests passed or failed"         *)
(* (testnet.yml:268-269): it is left out only when a step before the gate  *)
(* broke, never because of what the gate found; and it is made of a report *)
(* that was written to its end, never of half a one.                       *)
(***************************************************************************)
PublishedAnyway ==
  /\ site = "skipped" => gate = "broken"
  /\ site \in {"published", "broken"} => written = {"json", "md"}

\* The workflow always comes to its end, also when go test is killed or a
\* write fails (the if: conditions and continue-on-error of the workflow).
WorkflowEnds == <>(Decided /\ site # "none")
=============================================================================
