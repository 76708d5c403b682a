---------------------------- MODULE PairRun_proofs ----------------------------
(***************************************************************************)
(* A run as a whole implements TestSession and FeatureTests, whatever is   *)
(* proved of either holds of it, and together they say what the report     *)
(* means.                                                                  *)
(***************************************************************************)
EXTENDS PairRun, TLAPS

\* The two parts name their nodes alike.
LEMMA Nodes == S!Node = Node /\ F!Node = Node
  BY DEF S!Node, F!Node, Node

\* The results a node of FeatureTests has are those TestSession lets it print.
LEMMA SameResults ==
  ASSUME NEW i \in {"go", "c"}
  PROVE  F!Results(i) = S!Results(i)
  BY DEF F!Results, S!Results, F!goResults, S!goResults, F!cResults, S!cResults,
         F!Compatible, S!Compatible, F!ConflictingBy1, S!ConflictingBy1,
         F!ConflictingBy3, S!ConflictingBy3, F!NotImplemented, S!NotImplemented

-----------------------------------------------------------------------------
(***************************************************************************)
(* Every step is a step of each part, or leaves it alone.                  *)
(***************************************************************************)
LEMMA TestsStep == [Next]_vars => [F!Next]_(F!vars)
<1> SUFFICES ASSUME [Next]_vars PROVE F!Next \/ UNCHANGED F!vars
  OBVIOUS
<1>1. ASSUME UNCHANGED testVars PROVE UNCHANGED F!vars
  BY <1>1 DEF testVars, F!vars, F!pairVars, F!fixedVars, F!testVars, F!friendVars,
              F!chatVars, F!fileVars, F!confVars
<1>2. ASSUME NEW n \in Node, RunTest(n) PROVE F!Next
  BY <1>2, Nodes DEF RunTest, F!Next
<1>3. ASSUME NEW n \in Node, Library(n) PROVE F!Delivers \/ F!Breaks
  BY <1>3, Nodes DEF Library, F!Delivers, F!Breaks, F!Common, F!Friend, F!Filing, F!Confer
<1>4. CASE Lost
  BY <1>4, Nodes DEF Lost, F!Breaks, F!Next
<1> QED
  BY <1>1, <1>2, <1>3, <1>4
     DEF Next, SessionStep, PrintResult, Terminated, vars, F!Next

LEMMA TestsAlways ==
  ASSUME ConstantsOK
  PROVE  Spec => []F!IInv
<1>0. F!PairsAssumption /\ F!FeaturesAssumption /\ F!RequestsAssumption /\ F!ChunksAssumption
  BY DEF ConstantsOK
<1>1. Init => F!IInv
  BY <1>0, F!Begins DEF Init
<1>2. F!IInv /\ [Next]_vars => F!IInv'
  BY <1>0, TestsStep, F!Stays
<1> QED
  BY <1>1, <1>2, PTL DEF Spec

\* What a finished test has left for the command loop to print.
LEMMA Prints ==
  ASSUME ConstantsOK, F!IInv, NEW n \in Node, place[n] = "done"
  PROVE  out[n] \in S!Results(impl[n]) /\ out[n] \in S!Answer /\ out[n] # F!None
<1>0. /\ S!PairsAssumption /\ S!BoundsAssumption
      /\ F!PairsAssumption /\ F!FeaturesAssumption /\ F!RequestsAssumption /\ F!ChunksAssumption
  BY DEF ConstantsOK
<1>1. /\ impl[n] \in {"go", "c"}
      /\ out[n] \in F!Results(impl[n]) /\ out[n] # F!None
  BY <1>0, Nodes, F!Impls DEF F!IInv, F!PairInv, F!PairType
<1>2. out[n] \in S!Results(impl[n])
  BY <1>1, SameResults
<1> QED
  BY <1>0, <1>1, <1>2, S!ImplTypes DEF S!Impl

LEMMA SessionSteps ==
  ASSUME ConstantsOK, F!IInv, [Next]_vars
  PROVE  [S!Next]_(S!vars)
<1>1. ASSUME UNCHANGED sessionVars PROVE UNCHANGED S!vars
  BY <1>1 DEF sessionVars, harnessVars, S!vars, S!mainVars, S!channelVars, S!readerVars, S!nodeVars
<1>2. CASE SessionStep
  BY <1>2, Nodes DEF SessionStep, S!Next, S!NodeStep
<1>3. ASSUME NEW n \in Node, PrintResult(n) PROVE S!Next
  <2>2. out[n] \in S!Results(impl[n])
    BY <1>3, Prints DEF PrintResult
  <2>3. UNCHANGED <<S!HarnessVars, got, strays>>
    BY <1>3 DEF PrintResult, harnessVars, S!HarnessVars, S!mainVars, S!channelVars, S!readerVars
  <2>4. S!NodeResult(n)
    BY <1>3, <2>2, <2>3 DEF PrintResult, S!NodeResult
  <2> QED
    BY <2>4, Nodes DEF S!Next, S!NodeStep
<1> QED
  BY <1>1, <1>2, <1>3 DEF Next, RunTest, Library, Lost, Terminated, vars

(***************************************************************************)
(* A run with the feature tests in it is a run of TestSession: its nodes   *)
(* print only what TestSession foresees, so all that is shown there for    *)
(* nodes that answer anything holds for the nodes there are (runTest of    *)
(* the Go node, the run_test command of the C node).                       *)
(***************************************************************************)
THEOREM RunIsSession ==
  ASSUME ConstantsOK
  PROVE  Spec => S!Spec
<1>1. Init => S!Init
  BY DEF Init
<1>2. F!IInv /\ [Next]_vars => [S!Next]_(S!vars)
  BY SessionSteps
<1> QED
  BY <1>1, <1>2, TestsAlways, PTL DEF Spec, S!Spec

LEMMA SessionAlways ==
  ASSUME ConstantsOK
  PROVE  Spec => [](S!IInv /\ S!OrderInv)
<1>1. S!PairsAssumption /\ S!BoundsAssumption
  BY DEF ConstantsOK
<1>2. S!Spec => [](S!IInv /\ S!OrderInv)
  BY <1>1, S!OrderAlways
<1> QED
  BY <1>2, RunIsSession, PTL

-----------------------------------------------------------------------------
(***************************************************************************)
(* The link between the two parts: a test has begun only in a node that    *)
(* was told to, and every result in a pipe is what a finished test left.   *)
(***************************************************************************)
Link ==
  \A n \in Node :
    /\ place[n] # "idle" => S!ReadTest(n)
    /\ \A k \in 1..Len(stdout[n]) : stdout[n][k].type = "result" =>
         place[n] = "done" /\ stdout[n][k] = S!ResultLine(out[n])

LEMMA LinkInit == Init => Link
  BY Nodes DEF Init, F!Init, F!PairInit, S!Init, Link

\* A line that is no result, or the result of a finished test, keeps it.
LEMMA LinesLink ==
  ASSUME Link, UNCHANGED <<place, out>>,
         \A n \in Node : S!ReadTest(n) => S!ReadTest(n)',
         \A n \in Node : \A k \in 1..Len(stdout'[n]) :
           \/ k \in 1..Len(stdout[n]) /\ stdout'[n][k] = stdout[n][k]
           \/ stdout'[n][k].type # "result"
           \/ place[n] = "done" /\ stdout'[n][k] = S!ResultLine(out[n])
  PROVE  Link'
  BY DEF Link, S!ResultLine

LEMMA EmitLink ==
  ASSUME ConstantsOK, S!TypeOK, Link, UNCHANGED <<place, out>>,
         \A n \in Node : S!ReadTest(n) => S!ReadTest(n)',
         NEW n \in Node, NEW line \in S!Line, NEW next, S!Emit(n, line, next),
         \/ line.type # "result"
         \/ place[n] = "done" /\ line = S!ResultLine(out[n])
  PROVE  Link'
<1>1. S!PairsAssumption /\ S!BoundsAssumption
  BY DEF ConstantsOK
<1>2. \A m \in Node : \A k \in 1..Len(stdout'[m]) :
        \/ k \in 1..Len(stdout[m]) /\ stdout'[m][k] = stdout[m][k]
        \/ m = n /\ stdout'[m][k] = line
  BY <1>1, Nodes, S!EmitLines
<1> QED
  BY <1>2, LinesLink

LEMMA LinkStep ==
  ASSUME ConstantsOK, S!IInv, F!IInv, Link, [Next]_vars
  PROVE  Link'
<1>0. /\ S!PairsAssumption /\ S!BoundsAssumption /\ S!TypeOK /\ S!LinesInv
      /\ F!PairsAssumption /\ F!FeaturesAssumption /\ F!RequestsAssumption /\ F!ChunksAssumption
  BY DEF ConstantsOK, S!IInv
<1>1. \A n \in Node : S!ReadTest(n) => S!ReadTest(n)'
  BY <1>0, Nodes, SessionSteps, S!HistoryStays
<1>2. ASSUME UNCHANGED <<place, out, stdout>> PROVE Link'
  BY <1>1, <1>2 DEF Link
<1>3. CASE SessionStep
  <2>1. UNCHANGED <<place, out>>
    BY <1>3 DEF SessionStep, testVars
  <2>2. CASE \/ S!MainStep \/ S!HarnessEnds
             \/ \E n \in Node : \/ S!WorkerStep(n) \/ S!ReaderStep(n) \/ S!NodeFails(n)
                                \/ S!NodeRunTest(n) \/ S!NodeShutdown(n) \/ S!NodeEOF(n)
    BY <1>0, <1>2, <2>1, <2>2, Nodes, S!SilentSteps
  <2>3. ASSUME NEW n \in Node, S!NodeReady(n) \/ S!NodeInitFails(n) \/ S!NodeBootstrap(n)
        PROVE  Link'
    <3>1. \/ UNCHANGED stdout
          \/ \E line \in S!Line, next \in {"loop", "dead"} :
               S!Emit(n, line, next) /\ line.type # "result"
      BY <1>0, <2>3, Nodes, S!OtherLines
    <3> QED
      BY <1>1, <1>2, <2>1, <3>1, EmitLink, <1>0
  <2> QED
    BY <1>3, <2>2, <2>3 DEF SessionStep
<1>4. ASSUME NEW n \in Node, PrintResult(n) PROVE Link'
  <2>1. /\ UNCHANGED <<place, out>> /\ place[n] = "done"
        /\ S!Emit(n, S!ResultLine(out[n]), "loop")
    BY <1>4 DEF PrintResult, testVars
  <2>2. S!ResultLine(out[n]) \in S!Line
    BY <1>0, <2>1, Prints, S!LineTypes
  <2> QED
    BY <1>0, <1>1, <2>1, <2>2, EmitLink
<1>5. ASSUME NEW n \in Node, RunTest(n) PROVE Link'
  <2>1. UNCHANGED <<stdout, got, sent>> /\ S!ReadTest(n)
    BY <1>0, <1>5, Nodes DEF RunTest, sessionVars, harnessVars, S!LinesInv
  <2>2. F!Moves(n)
    BY <1>0, <1>5, Nodes, F!TestMoves DEF RunTest
  <2>3. \A m \in Node : m # n => place'[m] = place[m] /\ out'[m] = out[m]
    BY <2>2, Nodes DEF F!Moves, F!IInv, F!PairInv, F!PairType
  <2>4. \A k \in 1..Len(stdout[n]) : stdout[n][k].type # "result"
    BY <2>2 DEF F!Moves, Link
  <2> QED
    BY <1>1, <2>1, <2>3, <2>4 DEF Link
<1>6. ASSUME NEW n \in Node, Library(n) PROVE Link'
  <2>1. F!Delivers \/ F!Breaks
    BY <1>6, Nodes DEF Library, F!Delivers, F!Breaks, F!Common, F!Friend, F!Filing, F!Confer
  <2>2. UNCHANGED <<place, out>> /\ UNCHANGED stdout
    BY <1>0, <1>6, <2>1, F!LibraryMoves DEF Library, sessionVars
  <2> QED
    BY <1>2, <2>2
<1>7. CASE Lost
  <2>1. F!Breaks
    BY <1>7, Nodes DEF Lost, F!Breaks
  <2>2. UNCHANGED <<place, out>> /\ UNCHANGED stdout
    BY <1>0, <1>7, <2>1, F!LibraryMoves DEF Lost, sessionVars
  <2> QED
    BY <1>2, <2>2
<1>8. CASE UNCHANGED vars
  BY <1>2, <1>8 DEF vars, sessionVars, testVars
<1> QED
  BY <1>3, <1>4, <1>5, <1>6, <1>7, <1>8 DEF Next, Terminated

LEMMA LinkAlways ==
  ASSUME ConstantsOK
  PROVE  Spec => [](S!IInv /\ S!OrderInv /\ F!IInv /\ Link)
<1>1. S!IInv /\ F!IInv /\ Link /\ [Next]_vars => Link'
  BY LinkStep
<1> QED
  BY <1>1, LinkInit, SessionAlways, TestsAlways, PTL DEF Spec

-----------------------------------------------------------------------------
(***************************************************************************)
(* Who says that it does not implement something: a stub, with its ready   *)
(* message, and there is none in such a pair; and a node without a test of *)
(* the feature.                                                            *)
(***************************************************************************)
Support ==
  \A n \in Node :
    /\ out[n] = F!NotImplemented => ~F!Implements(n)
    /\ \A k \in 1..Len(stdout[n]) : stdout[n][k].type = "ready" => stdout[n][k].hello # "stub"
    /\ hello[n] # "stub"

LEMMA SupportInit == Init => Support
  BY Nodes DEF Init, F!Init, F!PairInit, F!None, F!NotImplemented, S!Init, Support

\* What is printed outside the tests is not the ready message of a stub.
LEMMA NoStubLine ==
  ASSUME ConstantsOK, S!IInv, F!IInv, [Next]_vars, Support,
         NEW n \in Node, NEW k \in 1..Len(stdout'[n]), stdout'[n][k].type = "ready"
  PROVE  stdout'[n][k].hello # "stub"
<1>0. /\ S!PairsAssumption /\ S!BoundsAssumption /\ S!TypeOK
      /\ F!PairsAssumption /\ F!FeaturesAssumption /\ F!RequestsAssumption /\ F!ChunksAssumption
  BY DEF ConstantsOK, S!IInv
<1>1. CASE UNCHANGED stdout
  BY <1>1 DEF Support
<1>2. ASSUME NEW m \in Node, NEW line \in S!Line, NEW next, S!Emit(m, line, next),
             line.type = "ready" => line.hello # "stub"
      PROVE  stdout'[n][k].hello # "stub"
  <2>1. \/ k \in 1..Len(stdout[n]) /\ stdout'[n][k] = stdout[n][k]
        \/ stdout'[n][k] = line
    BY <1>0, <1>2, Nodes, S!EmitLines
  <2> QED
    BY <1>2, <2>1 DEF Support
<1>3. CASE SessionStep
  <2>1. CASE \/ S!MainStep \/ S!HarnessEnds
             \/ \E m \in Node : \/ S!WorkerStep(m) \/ S!ReaderStep(m) \/ S!NodeFails(m)
                                \/ S!NodeRunTest(m) \/ S!NodeShutdown(m) \/ S!NodeEOF(m)
    BY <1>0, <1>1, <2>1, Nodes, S!SilentSteps
  <2>2. ASSUME NEW m \in Node, S!NodeReady(m) \/ S!NodeInitFails(m) \/ S!NodeBootstrap(m)
        PROVE  stdout'[n][k].hello # "stub"
    <3>1. \/ UNCHANGED stdout
          \/ \E line \in S!Line, next \in {"loop", "dead"} :
               /\ S!Emit(m, line, next) /\ line.type # "result"
               /\ line.type = "ready" => line.hello \in S!Hellos(impl[m])
      BY <1>0, <2>2, Nodes, S!OtherLines
    <3>2. impl[m] \in {"go", "c"}
      BY <1>0, Nodes, F!Impls DEF F!IInv, F!PairInv, F!PairType
    <3>3. "stub" \notin S!Hellos(impl[m])
      BY <3>2 DEF S!Hellos
    <3> QED
      BY <1>1, <1>2, <3>1, <3>3
  <2> QED
    BY <1>3, <2>1, <2>2 DEF SessionStep
<1>4. ASSUME NEW m \in Node, PrintResult(m) PROVE stdout'[n][k].hello # "stub"
  <2>1. place[m] = "done" /\ S!Emit(m, S!ResultLine(out[m]), "loop")
    BY <1>4 DEF PrintResult
  <2>2. S!ResultLine(out[m]) \in S!Line /\ S!ResultLine(out[m]).type # "ready"
    BY <1>0, <2>1, Prints, S!LineTypes DEF S!ResultLine
  <2> QED
    BY <1>2, <2>1, <2>2
<1> QED
  BY <1>1, <1>3, <1>4
     DEF Next, RunTest, Library, Lost, Terminated, vars, sessionVars

LEMMA SupportStep ==
  ASSUME ConstantsOK, S!IInv, F!IInv, Support, [Next]_vars
  PROVE  Support'
<1>0. /\ S!PairsAssumption /\ S!BoundsAssumption /\ S!TypeOK
      /\ F!PairsAssumption /\ F!FeaturesAssumption /\ F!RequestsAssumption /\ F!ChunksAssumption
  BY DEF ConstantsOK, S!IInv
<1>1. \A n \in Node : hello'[n] # "stub"
  BY <1>0, Nodes, SessionSteps, S!HelloIsRead DEF Support
<1>2. ASSUME NEW n \in Node, out'[n] = F!NotImplemented
      PROVE  ~F!Implements(n)'
  <2>1. UNCHANGED <<impl, feature>>
    BY <1>0, TestsStep, F!Fixed
  <2>2. CASE out'[n] = out[n]
    BY <1>2, <2>1, <2>2 DEF Support, F!Implements
  <2>3. ASSUME NEW m \in Node, F!Moves(m), out'[n] # out[n]
        PROVE  ~F!Implements(n)'
    <3>1. m = n /\ ~F!Implements(n)
      BY <1>2, <2>3, Nodes DEF F!Moves, F!IInv, F!PairInv, F!PairType
    <3> QED
      BY <2>1, <3>1 DEF F!Implements
  <2>4. \/ UNCHANGED out
        \/ \E m \in Node : F!Moves(m)
    <3>1. ASSUME NEW m \in Node, RunTest(m) PROVE F!Moves(m)
      BY <1>0, <3>1, Nodes, F!TestMoves DEF RunTest
    <3>2. ASSUME NEW m \in Node, Library(m) PROVE UNCHANGED out
      <4>1. F!Delivers \/ F!Breaks
        BY <3>2, Nodes DEF Library, F!Delivers, F!Breaks, F!Common, F!Friend, F!Filing, F!Confer
      <4> QED
        BY <1>0, <4>1, F!LibraryMoves
    <3>3. ASSUME Lost PROVE UNCHANGED out
      <4>1. F!Breaks
        BY <3>3, Nodes DEF Lost, F!Breaks
      <4> QED
        BY <1>0, <4>1, F!LibraryMoves
    <3> QED
      BY <3>1, <3>2, <3>3 DEF Next, SessionStep, PrintResult, Terminated, vars, testVars
  <2> QED
    BY <2>2, <2>3, <2>4
<1> QED
  BY <1>1, <1>2, NoStubLine DEF Support

LEMMA SupportAlways ==
  ASSUME ConstantsOK
  PROVE  Spec => [](S!IInv /\ F!IInv /\ Link /\ Support)
<1>1. S!IInv /\ F!IInv /\ Support /\ [Next]_vars => Support'
  BY SupportStep
<1> QED
  BY <1>1, SupportInit, LinkAlways, PTL DEF Spec

-----------------------------------------------------------------------------
(***************************************************************************)
(* What follows.                                                           *)
(***************************************************************************)

\* The steps of the tests are those of FeatureTests, although the processes
\* they run in are stopped at any moment (runTest, the run_test command).
THEOREM RunIsTests == Spec => F!Init /\ [][F!Next]_(F!vars)
<1>1. Init => F!Init
  BY DEF Init
<1> QED
  BY <1>1, TestsStep, PTL DEF Spec

\* Both parts keep their types (the variables of the harness and the nodes).
THEOREM TypeCorrect ==
  ASSUME ConstantsOK
  PROVE  Spec => []TypeOK
<1>0. F!PairsAssumption /\ F!FeaturesAssumption /\ F!RequestsAssumption /\ F!ChunksAssumption
  BY DEF ConstantsOK
<1>1. F!IInv => F!TypeOK
  BY DEF F!IInv, F!PairInv, F!PairType, F!ChatInv, F!ChatType, F!FileInv, F!FileType,
         F!ConfInv, F!ConfType, F!TypeOK
<1>2. S!IInv /\ F!IInv => TypeOK
  BY <1>1 DEF TypeOK, S!IInv
<1> QED
  BY <1>2, LinkAlways, PTL

\* A line the harness took for a node's answer is what the node's test left.
LEMMA SaidIsOutcome ==
  ASSUME ConstantsOK, S!IInv, Link, NEW n \in Node, NEW a, S!Said(n, a)
  PROVE  place[n] = "done" /\ out[n] = a
<1>0. S!PairsAssumption /\ S!BoundsAssumption /\ S!TypeOK
  BY DEF ConstantsOK, S!IInv
<1>1. PICK k \in 1..rcv[n] : stdout[n][k] = S!ResultLine(a)
  BY DEF S!Said
<1>2. k \in 1..Len(stdout[n])
  <2>1. /\ rcv[n] \in Nat /\ fwd[n] \in Nat /\ Len(stdout[n]) \in Nat
        /\ rcv[n] <= fwd[n] /\ fwd[n] <= Len(stdout[n])
    BY <1>0, Nodes, S!PipeType
  <2> QED
    BY <1>1, <2>1
<1>3. stdout[n][k].type = "result" /\ stdout[n][k].res = a
  BY <1>1 DEF S!ResultLine
<1>4. place[n] = "done" /\ stdout[n][k] = S!ResultLine(out[n])
  BY <1>2, <1>3 DEF Link
<1> QED
  BY <1>3, <1>4 DEF S!ResultLine

(***************************************************************************)
(* The answer the harness rests its verdict on is the outcome of the       *)
(* node's test, for all capacities, implementations and features (RunTest, *)
(* parseResultLine, the run_test command of the nodes).                    *)
(***************************************************************************)
THEOREM AnswersAreOutcomes ==
  ASSUME ConstantsOK
  PROVE  Spec => []AnswerIsOutcome
<1>1. S!IInv /\ Link => AnswerIsOutcome
  BY Nodes, SaidIsOutcome DEF AnswerIsOutcome, S!IInv, S!AnswerInv
<1> QED
  BY <1>1, LinkAlways, PTL

(***************************************************************************)
(* An entry "compatible" in the report means that the pair did what the    *)
(* feature is about, at both ends: the end-to-end promise of the project   *)
(* (runCompatTest, the feature tests of both nodes).                       *)
(***************************************************************************)
THEOREM CompatibleExchanged ==
  ASSUME ConstantsOK
  PROVE  Spec => []CompatibleIsExchanged
<1>1. ASSUME S!IInv, F!IInv, Link, verdict.status = "compatible"
      PROVE  F!Exchanged
  <2>0. F!PairsAssumption /\ F!FeaturesAssumption /\ F!RequestsAssumption /\ F!ChunksAssumption
    BY DEF ConstantsOK
  <2>1. \A n \in Node : S!Said(n, S!Compatible)
    BY <1>1, Nodes DEF S!IInv, S!EarnedInv, S!CompatibleIsEarned
  <2>2. \A n \in Node : place[n] = "done" /\ out[n] = S!Compatible
    BY <1>1, <2>1, SaidIsOutcome
  <2>3. F!AllDone
    BY <2>2, Nodes DEF F!AllDone
  <2>4. F!classifyResults(out["A"], out["B"]).status = "compatible"
    BY <2>2 DEF F!classifyResults, S!Compatible, Node
  <2>5. F!CompatibleIsReal
    BY <1>1, <2>0, F!RealNow
  <2> QED
    BY <2>3, <2>4, <2>5 DEF F!CompatibleIsReal
<1>2. S!IInv /\ F!IInv /\ Link => CompatibleIsExchanged
  BY <1>1 DEF CompatibleIsExchanged
<1> QED
  BY <1>2, LinkAlways, PTL

(***************************************************************************)
(* An entry "not_implemented" hides no pair that has the feature and       *)
(* answered in time (runCompatTest, classifyResults, the run_test command  *)
(* of the nodes).                                                          *)
(***************************************************************************)
THEOREM SkipsAreTrue ==
  ASSUME ConstantsOK
  PROVE  Spec => []SkipIsTrue
<1>1. ASSUME S!IInv, Link, Support, verdict.status = "not_implemented", owned = Node
      PROVE  \/ \E n \in Node : ~F!Implements(n)
             \/ \A n \in Node : res[n] = S!HarnessTimeout
  <2>1. ASSUME NEW n \in Node, S!Said(n, S!NotImplemented)
        PROVE  ~F!Implements(n)
    <3>1. out[n] = S!NotImplemented
      BY <1>1, <2>1, SaidIsOutcome
    <3> QED
      BY <1>1, <3>1 DEF Support, S!NotImplemented, F!NotImplemented
  <2>2. \A n \in Node : hello[n] # "stub"
    BY <1>1 DEF Support
  <2> QED
    BY <1>1, <2>1, <2>2, Nodes DEF S!IInv, S!EarnedInv, S!SkipHasCause
<1>2. S!IInv /\ Link /\ Support => SkipIsTrue
  BY <1>1 DEF SkipIsTrue
<1> QED
  BY <1>2, SupportAlways, PTL

(***************************************************************************)
(* No feature test begins before its node was told to run it and the pair  *)
(* was wired (runCompatTest, the command loops of the nodes).              *)
(***************************************************************************)
THEOREM TestsAreWired ==
  ASSUME ConstantsOK
  PROVE  Spec => []TestIsWired
<1>0. S!PairsAssumption /\ S!BoundsAssumption
  BY DEF ConstantsOK
<1>1. S!IInv /\ S!OrderInv => S!TestAfterBootstrap
  BY <1>0, S!OrderImplies
<1>2. S!TestAfterBootstrap /\ Link => TestIsWired
  BY Nodes DEF S!TestAfterBootstrap, Link, TestIsWired
<1> QED
  BY <1>1, <1>2, LinkAlways, PTL
=============================================================================
