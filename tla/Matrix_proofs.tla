--------------------------- MODULE Matrix_proofs ----------------------------
(***************************************************************************)
(* Proofs about the report of a job, for every set of cases.               *)
(***************************************************************************)
EXTENDS Matrix, TLAPS

LEMMA ResultType == TypeOK => \A c \in Cases : Result(c) \in Record /\ Result(c).case = c
  BY DEF TypeOK, Result, Record

LEMMA InitType == Init => TypeOK
<1> SUFFICES ASSUME Init PROVE TypeOK
  OBVIOUS
<1>1. file \in [state : {"absent", "torn", "ok"}, recs : SUBSET Record]
  BY LeftoverAssumption DEF Init, Missing, Complete
<1>2. \A c \in Cases : stage[c] = "running"
  BY DEF Init
<1> QED
  BY <1>1, <1>2 DEF Init, TypeOK, Finished

\* The frame of a step that only touches one subtest.
LEMMA SubtestType ==
  ASSUME TypeOK, NEW c \in Cases, LogResult(c) \/ AppendResult(c)
  PROVE  TypeOK'
<1>1. stage \in [Cases -> {"running", "logged", "done"}]
  BY DEF TypeOK
<1>2. /\ UNCHANGED <<status, unreadable, file, harness, report, written, artifact, gate, site>>
      /\ \A d \in Cases : Result(d)' = Result(d)
  BY DEF LogResult, AppendResult, job, Result
<1>3. CASE LogResult(c)
  <2>1. /\ stage' = [stage EXCEPT ![c] = "logged"] /\ stage[c] = "running" /\ results' = results
        /\ \/ log' = log \cup {Result(c)} /\ garbled' = garbled
           \/ garbled' = garbled \cup {c} /\ log' = log
    BY <1>3 DEF LogResult
  <2>2. c \notin garbled
    BY <2>1 DEF TypeOK, Finished
  <2>3. \A d \in Cases : Finished(d)' <=> Finished(d) \/ d = c
    BY <1>1, <2>1 DEF Finished
  <2>4. \A d \in Cases : stage'[d] = "done" <=> stage[d] = "done"
    BY <1>1, <2>1
  <2>5. results' = {Result(d)' : d \in {e \in Cases : stage'[e] = "done"}}
    BY <1>2, <2>1, <2>4 DEF TypeOK
  <2>6. garbled' \subseteq {d \in Cases : Finished(d)'}
    BY <2>1, <2>3 DEF TypeOK
  <2>7. log' = {Result(d)' : d \in {e \in Cases : Finished(e)' /\ e \notin garbled'}}
    <3>1. log = {Result(d) : d \in {e \in Cases : Finished(e) /\ e \notin garbled}}
      BY DEF TypeOK
    <3>2. CASE log' = log \cup {Result(c)} /\ garbled' = garbled
      <4>1. {e \in Cases : Finished(e)' /\ e \notin garbled'}
              = {e \in Cases : Finished(e) /\ e \notin garbled} \cup {c}
        BY <2>2, <2>3, <3>2
      <4> QED
        BY <1>2, <3>1, <3>2, <4>1
    <3>3. CASE garbled' = garbled \cup {c} /\ log' = log
      <4>1. ~Finished(c)
        BY <2>1 DEF Finished
      <4>2. {e \in Cases : Finished(e)' /\ e \notin garbled'}
              = {e \in Cases : Finished(e) /\ e \notin garbled}
        BY <2>2, <2>3, <3>3, <4>1
      <4> QED
        BY <1>2, <3>1, <3>3, <4>2
    <3> QED
      BY <2>1, <3>2, <3>3
  <2>8. stage' \in [Cases -> {"running", "logged", "done"}]
    BY <1>1, <2>1
  <2> QED
    BY <1>2, <2>5, <2>6, <2>7, <2>8 DEF TypeOK
<1>4. CASE AppendResult(c)
  <2>1. /\ stage' = [stage EXCEPT ![c] = "done"] /\ stage[c] = "logged"
        /\ results' = results \cup {Result(c)} /\ UNCHANGED <<log, garbled>>
    BY <1>4 DEF AppendResult
  <2>2. \A d \in Cases : Finished(d)' <=> Finished(d)
    BY <1>1, <2>1 DEF Finished
  <2>3. \A d \in Cases : stage'[d] = "done" <=> stage[d] = "done" \/ d = c
    BY <1>1, <2>1
  <2>4. results' = {Result(d)' : d \in {e \in Cases : stage'[e] = "done"}}
    <3>1. results = {Result(d) : d \in {e \in Cases : stage[e] = "done"}}
      BY DEF TypeOK
    <3> QED
      BY <1>2, <2>1, <2>3, <3>1
  <2>5. /\ garbled' \subseteq {d \in Cases : Finished(d)'}
        /\ log' = {Result(d)' : d \in {e \in Cases : Finished(e)' /\ e \notin garbled'}}
    BY <1>2, <2>1, <2>2 DEF TypeOK
  <2>6. stage' \in [Cases -> {"running", "logged", "done"}]
    BY <1>1, <2>1
  <2> QED
    BY <1>2, <2>4, <2>5, <2>6 DEF TypeOK
<1> QED
  BY <1>3, <1>4

LEMMA RecordSets ==
  ASSUME TypeOK
  PROVE  results \subseteq Record /\ log \subseteq Record /\ loadResults \subseteq Record
<1>1. results \subseteq Record /\ log \subseteq Record
  BY ResultType DEF TypeOK
<1>2. loadResultsJSON \subseteq Record
  BY DEF TypeOK, loadResultsJSON
<1> QED
  BY <1>1, <1>2 DEF loadResults, addAll, parseGoTestJSON

LEMMA NextType == TypeOK /\ [Next]_vars => TypeOK'
<1> SUFFICES ASSUME TypeOK, [Next]_vars PROVE TypeOK'
  OBVIOUS
<1>1. ASSUME UNCHANGED <<stage, status, results, log, garbled>>,
             file' \in [state : {"absent", "torn", "ok"}, recs : SUBSET Record],
             harness' \in {"running", "writing", "ended", "killed"},
             unreadable' \in BOOLEAN, report' \subseteq Record, artifact' \in BOOLEAN,
             written' \in {{}, {"json"}, {"json", "md"}},
             gate' \in {"open", "report", "uploaded", "passed", "failed", "broken"},
             site' \in {"none", "published", "broken", "skipped"}
      PROVE  TypeOK'
  BY <1>1 DEF TypeOK, Result, Finished
<1>2. CASE \E c \in Cases : LogResult(c) \/ AppendResult(c)
  BY <1>2, SubtestType
<1>3. CASE OpenFile \/ WriteFile \/ Killed
  BY <1>1, <1>3, RecordSets
     DEF OpenFile, WriteFile, Killed, subtests, job, TypeOK, Torn, Complete
<1>4. CASE WorkflowStep
  <2>1. CASE WriteReport
    BY <1>1, <2>1, RecordSets DEF WriteReport, subtests, TypeOK
  <2>2. CASE Upload \/ Gate
    BY <1>1, <2>2 DEF Upload, Gate, subtests, TypeOK
  <2>3. CASE Publish
    BY <1>1, <2>3 DEF Publish, subtests, TypeOK
  <2> QED
    BY <1>4, <2>1, <2>2, <2>3 DEF WorkflowStep
<1>5. CASE UNCHANGED vars
  BY <1>1, <1>5 DEF vars, TypeOK
<1>6. CASE LogSpoilt
  BY <1>1, <1>6 DEF LogSpoilt, subtests, TypeOK
<1> QED
  BY <1>2, <1>3, <1>4, <1>5, <1>6 DEF Next, HarnessStep, WorkflowEnded

\* The variables keep their types; no append is lost and no log line but the
\* spoilt ones.
THEOREM TypeCorrect == Spec => []TypeOK
  BY InitType, NextType, PTL DEF Spec

-----------------------------------------------------------------------------
(***************************************************************************)
(* The file is written after the last subtest, and the report is made when *)
(* nothing it is made from can change any more.                            *)
(***************************************************************************)
ReportInv ==
  /\ harness \in {"writing", "ended"} => \A c \in Cases : stage[c] = "done"
  /\ harness = "writing" => file.state # "ok"
  /\ Reported => Over /\ report = loadResults
  /\ gate = "open" => ~artifact
  /\ Reported \/ artifact => written = {"json", "md"}
  /\ gate = "passed" => report # {} /\ ~Conflict(report)
  /\ gate = "failed" => report = {} \/ Conflict(report)
  /\ gate \in {"uploaded", "passed", "failed"} => artifact
  /\ site # "none" => Decided
  /\ site = "skipped" => ~artifact
  /\ site \in {"published", "broken"} => artifact

LEMMA ReportStep == TypeOK /\ ReportInv /\ [Next]_vars => ReportInv'
<1> SUFFICES ASSUME TypeOK, ReportInv, [Next]_vars PROVE ReportInv'
  OBVIOUS
<1>1. CASE \E c \in Cases : LogResult(c) \/ AppendResult(c)
  BY <1>1 DEF LogResult, AppendResult, ReportInv, Conflict, Reported, Over, job, TypeOK, Decided
<1>2. CASE OpenFile
  BY <1>2 DEF OpenFile, ReportInv, Conflict, Reported, Over, job, subtests, Torn, TypeOK, Decided
<1>3. CASE WriteFile
  BY <1>3 DEF WriteFile, ReportInv, Conflict, Reported, Over, job, subtests, TypeOK, Decided
<1>4. CASE Killed
  BY <1>4 DEF Killed, ReportInv, Conflict, Reported, Over, job, subtests, TypeOK, Decided
<1>5. CASE WorkflowStep
  <2>1. loadResults' = loadResults /\ harness' = harness /\ file' = file /\ stage' = stage
    BY <1>5 DEF WorkflowStep, WriteReport, Upload, Gate, Publish, loadResults, addAll,
                loadResultsJSON, parseGoTestJSON, subtests
  <2>2. CASE WriteReport
    BY <2>1, <2>2 DEF WriteReport, ReportInv, Conflict, Reported, Over, Decided
  <2>3. CASE Upload
    BY <2>1, <2>3 DEF Upload, ReportInv, Conflict, Reported, Over, Decided
  <2>4. CASE Gate
    BY <2>1, <2>4 DEF Gate, Conflict, ReportInv, Reported, Over, Decided
  <2>5. CASE Publish
    BY <2>1, <2>5 DEF Publish, ReportInv, Conflict, Reported, Over, Decided
  <2> QED
    BY <1>5, <2>2, <2>3, <2>4, <2>5 DEF WorkflowStep
<1>6. CASE UNCHANGED vars
  BY <1>6 DEF vars, ReportInv, Conflict, Reported, Over, Decided, loadResults, addAll,
              loadResultsJSON, parseGoTestJSON
<1>7. CASE LogSpoilt
  BY <1>7 DEF LogSpoilt, ReportInv, Conflict, Reported, Over, subtests, Decided
<1> QED
  BY <1>1, <1>2, <1>3, <1>4, <1>5, <1>6, <1>7 DEF Next, HarnessStep, WorkflowEnded

LEMMA ReportAlways == Spec => [](TypeOK /\ ReportInv)
<1>1. Init => ReportInv
  BY DEF Init, ReportInv, Reported, Decided
<1> QED
  BY <1>1, InitType, NextType, ReportStep, PTL DEF Spec

\* The report of a run that ended is complete when one of its two sources
\* is intact, whatever an earlier job left behind.
THEOREM ReportIsFull == Spec => []FullReport
<1>1. TypeOK /\ ReportInv => FullReport
  <2> SUFFICES ASSUME TypeOK, ReportInv, Reported, harness = "ended", SourceIntact
               PROVE  report = {Result(c) : c \in Cases}
    BY DEF FullReport
  <2>1. /\ report = addAll(addAll({}, loadResultsJSON), parseGoTestJSON)
        /\ \A c \in Cases : stage[c] = "done"
    BY DEF ReportInv, loadResults
  <2>2. results = {Result(c) : c \in Cases}
    BY <2>1 DEF TypeOK
  <2>3. log = {Result(c) : c \in {d \in Cases : d \notin garbled}}
    BY <2>1 DEF TypeOK, Finished
  <2>4. addAll({}, loadResultsJSON) = loadResultsJSON
    BY DEF addAll
  <2>5. CASE file = Complete(results)
    <3>1. loadResultsJSON = results
      BY <2>5 DEF loadResultsJSON, Complete
    <3>2. \A r \in parseGoTestJSON : \E s \in results : s.case = r.case
      BY <2>2, <2>3 DEF parseGoTestJSON
    <3> QED
      BY <2>1, <2>2, <2>4, <3>1, <3>2 DEF addAll
  <2>6. CASE file.state # "ok" /\ garbled = {} /\ ~unreadable
    BY <2>1, <2>3, <2>4, <2>6 DEF addAll, loadResultsJSON, parseGoTestJSON
  <2> QED
    BY <2>5, <2>6 DEF SourceIntact
<1> QED
  BY <1>1, ReportAlways, PTL

\* The page is left out only when a step broke before the gate, and never
\* made of half a report.
THEOREM PageIsPublished == Spec => []PublishedAnyway
<1>1. TypeOK /\ ReportInv => PublishedAnyway
  BY DEF TypeOK, ReportInv, PublishedAnyway, Decided
<1> QED
  BY <1>1, ReportAlways, PTL

-----------------------------------------------------------------------------
(***************************************************************************)
(* On a runner without an earlier results file.                            *)
(***************************************************************************)
FreshInv ==
  file.state = "ok" => /\ harness \in {"ended", "killed"}
                       /\ \A c \in Cases : stage[c] = "done"
                       /\ file.recs = {Result(c) : c \in Cases}

LEMMA FreshStep == TypeOK /\ ReportInv /\ FreshInv /\ [Next]_vars => FreshInv'
<1> SUFFICES ASSUME TypeOK, ReportInv, FreshInv, [Next]_vars PROVE FreshInv'
  OBVIOUS
<1>1. CASE \E c \in Cases : LogResult(c) \/ AppendResult(c)
  BY <1>1 DEF LogResult, AppendResult, FreshInv
<1>2. CASE OpenFile
  BY <1>2 DEF OpenFile, FreshInv, Torn
<1>3. CASE WriteFile
  <2>1. results = {Result(c) : c \in Cases} /\ \A c \in Cases : stage[c] = "done"
    BY <1>3 DEF WriteFile, ReportInv, TypeOK
  <2> QED
    BY <1>3, <2>1 DEF WriteFile, FreshInv, Torn, Complete, subtests, Result
<1>4. CASE Killed \/ LogSpoilt \/ WorkflowStep \/ UNCHANGED vars
  BY <1>4 DEF Killed, LogSpoilt, WorkflowStep, WriteReport, Upload, Gate, Publish, vars, FreshInv,
              subtests, Result
<1> QED
  BY <1>1, <1>2, <1>3, <1>4 DEF Next, HarnessStep, WorkflowEnded

LEMMA FreshAlways ==
  ASSUME Leftover = {}
  PROVE  Spec => [](TypeOK /\ ReportInv /\ FreshInv)
<1>1. Init => FreshInv
  BY DEF Init, FreshInv, Missing
<1> QED
  BY <1>1, ReportAlways, FreshStep, PTL DEF Spec

\* What is in the report on such a runner: the records that can be read back
\* from one of the two sources, and no other.
LEMMA FreshReport ==
  ASSUME TypeOK, ReportInv, FreshInv, Reported
  PROVE  report = {Result(c) : c \in {d \in Cases : Readable(d)}}
<1>1. report = addAll(addAll({}, loadResultsJSON), parseGoTestJSON)
  BY DEF ReportInv, loadResults
<1>2. addAll({}, loadResultsJSON) = loadResultsJSON
  BY DEF addAll
<1>3. log = {Result(c) : c \in {d \in Cases : Finished(d) /\ d \notin garbled}}
  BY DEF TypeOK
<1>4. CASE file.state = "ok"
  <2>1. loadResultsJSON = {Result(c) : c \in Cases} /\ \A c \in Cases : Readable(c)
    BY <1>4 DEF loadResultsJSON, FreshInv, Finished, Readable
  <2>2. parseGoTestJSON \subseteq loadResultsJSON
    BY <1>3, <2>1 DEF parseGoTestJSON
  <2>3. report = loadResultsJSON
    BY <1>1, <1>2, <2>2 DEF addAll
  <2> QED
    BY <2>1, <2>3
<1>5. CASE file.state # "ok"
  <2>1. report = parseGoTestJSON
    BY <1>1, <1>2, <1>5 DEF addAll, loadResultsJSON
  <2>2. parseGoTestJSON = {Result(c) : c \in {d \in Cases : Readable(d)}}
    BY <1>3, <1>5 DEF parseGoTestJSON, Readable
  <2> QED
    BY <2>1, <2>2
<1> QED
  BY <1>4, <1>5

\* Whatever was logged is in the report, also after a kill or a failed
\* write, when the log can be scanned and no earlier job left a results file.
THEOREM LogIsReported ==
  ASSUME Leftover = {}
  PROVE  Spec => []LogReconstructs
<1>1. TypeOK /\ ReportInv /\ FreshInv => LogReconstructs
  BY FreshReport DEF LogReconstructs, TypeOK, Readable
<1> QED
  BY <1>1, FreshAlways, PTL

\* The results file holds every case when it holds any.
THEOREM FileIsWhole ==
  ASSUME Leftover = {}
  PROVE  Spec => []FileHasAll
<1>1. FreshInv => FileHasAll
  BY DEF FreshInv, FileHasAll
<1> QED
  BY <1>1, FreshAlways, PTL

\* A job passes just when something of it can be read back and no conflict
\* is in it: the gate passes neither over a conflict kept in one of the two
\* sources nor over a job that left nothing to decide on.
THEOREM GateDecidesRight ==
  ASSUME Leftover = {}
  PROVE  Spec => []GateIsRight
<1>1. TypeOK /\ ReportInv /\ FreshInv => GateIsRight
  <2> SUFFICES ASSUME TypeOK, ReportInv, FreshInv, gate \in {"passed", "failed"}
               PROVE  gate = "passed" <=>
                        /\ \E c \in Cases : Readable(c)
                        /\ \A c \in Cases : Readable(c) => status[c] # "conflicting"
    BY DEF GateIsRight
  <2>1. report = {Result(c) : c \in {d \in Cases : Readable(d)}}
    BY FreshReport DEF Reported
  <2>2. report # {} <=> \E c \in Cases : Readable(c)
    BY <2>1
  <2>3. Conflict(report) <=> \E c \in Cases : Readable(c) /\ status[c] = "conflicting"
    <3>1. \A c \in Cases : Result(c).status = status[c]
      BY DEF Result
    <3> QED
      BY <2>1, <3>1 DEF Conflict
  <2>4. gate = "passed" <=> report # {} /\ ~Conflict(report)
    BY DEF ReportInv
  <2> QED
    BY <2>2, <2>3, <2>4
<1> QED
  BY <1>1, FreshAlways, PTL
=============================================================================
