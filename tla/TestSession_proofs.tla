------------------------- MODULE TestSession_proofs -------------------------
(***************************************************************************)
(* Theorems about TestSession for all pairs of implementations, channel    *)
(* and pipe capacities, and numbers of stray lines.                        *)
(***************************************************************************)
EXTENDS TestSession, Classify_proofs

USE PairsAssumption, BoundsAssumption

-----------------------------------------------------------------------------
(***************************************************************************)
(* Types of the helpers.                                                   *)
(***************************************************************************)
LEMMA Verdicts ==
  /\ {Compatible, ConflictingBy1, ConflictingBy3, NotImplemented} \subseteq Answer \cap Verdict
  /\ {HarnessTimeout, IPCError} \subseteq Answer
  /\ None \notin Answer \cup Verdict
  BY DEF Compatible, ConflictingBy1, ConflictingBy3, NotImplemented, HarnessTimeout,
         IPCError, None, Answer, Verdict, NodeStatus, Reported, ExitCode

LEMMA PeerType == \A n \in Node : Peer(n) \in Node /\ Peer(n) # n
  BY DEF Node, Peer

LEMMA LineTypes ==
  /\ \A h \in Hello : ReadyLine(h) \in Line
  /\ \A a \in Answer : ResultLine(a) \in Line
  /\ ErrorLine \in Line /\ NoiseLine \in Line
  BY DEF ReadyLine, ResultLine, ErrorLine, NoiseLine, Line

LEMMA ParseType ==
  ASSUME NEW line \in Line
  PROVE  parseResultLine(line) \in Answer \cup {None}
  BY Verdicts DEF parseResultLine, Line

LEMMA ImplTypes ==
  ASSUME NEW i \in Impl
  PROVE  Hellos(i) \subseteq Hello /\ Results(i) \subseteq Answer
  BY Verdicts DEF Impl, Hellos, Hello, Results, goResults, cResults

-----------------------------------------------------------------------------
(***************************************************************************)
(* Type correctness.                                                       *)
(***************************************************************************)
LEMMA InitType == Init => TypeOK
  BY DEF Init, TypeOK, Step, Node, Held, Running

\* What the type invariant says of one node's pipes.
LEMMA PipeType ==
  ASSUME TypeOK, NEW n \in Node
  PROVE  /\ rcv[n] \in Nat /\ fwd[n] \in Nat /\ got[n] \in Nat
         /\ stdout[n] \in Seq(Line) /\ Len(stdout[n]) \in Nat
         /\ sent[n] \in Seq(Command) /\ Len(sent[n]) \in Nat
         /\ rcv[n] <= fwd[n] /\ fwd[n] <= Len(stdout[n]) /\ got[n] <= Len(sent[n])
<1>1. Held(n) \in {0, 1}
  BY DEF Held
<1> QED
  BY <1>1 DEF TypeOK

LEMMA LineAt ==
  ASSUME TypeOK, NEW n \in Node, NEW k \in 1..Len(stdout[n])
  PROVE  stdout[n][k] \in Line
  BY PipeType

LEMMA AppendFacts ==
  ASSUME NEW S, NEW s \in Seq(S), NEW e \in S
  PROVE  /\ Append(s, e) \in Seq(S)
         /\ Len(Append(s, e)) = Len(s) + 1 /\ Len(s) \in Nat
         /\ \A k \in 1..Len(s) : Append(s, e)[k] = s[k]
         /\ Append(s, e)[Len(s) + 1] = e
  OBVIOUS

\* One log of a family grows by one entry at its end.
LEMMA GrowFacts ==
  ASSUME NEW S, NEW log \in [Node -> Seq(S)], NEW n \in Node, NEW e \in S,
         NEW log2, log2 = [log EXCEPT ![n] = Append(@, e)]
  PROVE  /\ log2 \in [Node -> Seq(S)]
         /\ \A m \in Node : /\ Len(log2[m]) \in Nat /\ Len(log[m]) \in Nat
                             /\ Len(log[m]) <= Len(log2[m])
                             /\ Len(log2[m]) <= Len(log[m]) + 1
                             /\ \A k \in 1..Len(log[m]) : log2[m][k] = log[m][k]
         /\ \A m \in Node \ {n} : log2[m] = log[m]
         /\ log2[n] = Append(log[n], e)
         /\ Len(log2[n]) = Len(log[n]) + 1 /\ log2[n][Len(log2[n])] = e
<1>1. log2[n] = Append(log[n], e) /\ \A m \in Node \ {n} : log2[m] = log[m]
  OBVIOUS
<1>2. log2 \in [Node -> Seq(S)]
  BY AppendFacts
<1>3. ASSUME NEW m \in Node
      PROVE  /\ Len(log2[m]) \in Nat /\ Len(log[m]) \in Nat
             /\ Len(log[m]) <= Len(log2[m])
             /\ Len(log2[m]) <= Len(log[m]) + 1
             /\ \A k \in 1..Len(log[m]) : log2[m][k] = log[m][k]
  <2>1. log[m] \in Seq(S) /\ Len(log[m]) \in Nat
    OBVIOUS
  <2>2. CASE m = n
    BY <1>1, <2>1, <2>2, AppendFacts
  <2>3. CASE m # n
    BY <1>1, <2>1, <2>3
  <2> QED BY <2>2, <2>3
<1>4. Len(log2[n]) = Len(log[n]) + 1 /\ log2[n][Len(log2[n])] = e
  BY <1>1, AppendFacts
<1> QED
  BY <1>1, <1>2, <1>3, <1>4

LEMMA WriteType ==
  ASSUME TypeOK, NEW n \in Node, NEW cmd \in Command, Write(n, cmd)
  PROVE  /\ sent' \in [Node -> Seq(Command)]
         /\ \A m \in Node : got[m] <= Len(sent'[m])
<1>1. sent \in [Node -> Seq(Command)]
  BY DEF TypeOK
<1>2. sent' = [sent EXCEPT ![n] = Append(@, cmd)]
  BY DEF Write
<1>3. /\ sent' \in [Node -> Seq(Command)]
      /\ \A m \in Node : Len(sent[m]) <= Len(sent'[m]) /\ Len(sent'[m]) \in Nat
  BY <1>1, <1>2, GrowFacts
<1>4. ASSUME NEW m \in Node PROVE got[m] <= Len(sent'[m])
  <2>1. got[m] \in Nat /\ Len(sent[m]) \in Nat /\ got[m] <= Len(sent[m])
    BY PipeType
  <2> QED BY <1>3, <2>1
<1> QED
  BY <1>3, <1>4

\* One more line is received.
LEMMA ReceiveType ==
  ASSUME TypeOK, NEW n \in Node, rcv[n] < fwd[n], rcv' = [rcv EXCEPT ![n] = @ + 1]
  PROVE  /\ rcv' \in [Node -> Nat]
         /\ \A m \in Node : rcv'[m] <= fwd[m]
         /\ rcv'[n] = rcv[n] + 1 /\ rcv[n] + 1 \in 1..Len(stdout[n])
         /\ stdout[n][rcv[n] + 1] \in Line
<1>1. /\ rcv \in [Node -> Nat] /\ fwd \in [Node -> Nat]
      /\ \A m \in Node : rcv[m] <= fwd[m]
  BY DEF TypeOK
<1>2. rcv[n] + 1 \in 1..Len(stdout[n])
  <2>1. rcv[n] \in Nat /\ fwd[n] \in Nat /\ Len(stdout[n]) \in Nat /\ fwd[n] <= Len(stdout[n])
    BY PipeType
  <2> QED BY <2>1
<1>3. stdout[n][rcv[n] + 1] \in Line
  BY <1>2, LineAt
<1> QED
  BY <1>1, <1>2, <1>3

LEMMA UnwindType ==
  ASSUME NEW started, Unwind(started)
  PROVE  pc' \in Step /\ at' \in Node
  BY DEF Unwind, GoTo, Step, Node

LEMMA ReturnType ==
  ASSUME TypeOK, NEW v \in Verdict, Return(v)
  PROVE  /\ pc' \in Step /\ at' \in Node
         /\ owned' \in SUBSET Node
         /\ verdict' \in Verdict \cup {None}
  BY UnwindType DEF Return, TypeOK

LEMMA MainType ==
  ASSUME TypeOK, MainStep
  PROVE  TypeOK'
<1>1. CASE Spawn
  <2>1. /\ pc' \in Step /\ at' \in Node
        /\ proc' \in [Node -> {"absent", "dead", "hung"} \cup Running]
        /\ reader' \in [Node -> {"off", "scan", "hold", "exited"}]
    BY <1>1 DEF TypeOK, Spawn, GoTo, Step, Running
  <2>2. /\ UNCHANGED <<alive, impl, owned, hello, verdict, reaped, worker, res, rcv,
                      closed, fwd, got, stdout, strays, sent>>
        /\ reader' = [reader EXCEPT ![at] = "scan"]
    BY <1>1 DEF Spawn, channelVars
  <2>3. \A n \in Node : fwd[n] + Held(n)' <= Len(stdout[n])
    <3>1. ASSUME NEW n \in Node PROVE fwd[n] + Held(n)' <= Len(stdout[n])
      <4>1. Held(n)' = Held(n) \/ Held(n)' = 0
        BY <2>2 DEF TypeOK, Held
      <4>2. fwd[n] + Held(n) <= Len(stdout[n])
        BY DEF TypeOK
      <4>3. fwd[n] \in Nat /\ fwd[n] <= Len(stdout[n])
        BY PipeType
      <4>4. fwd[n] + 0 = fwd[n]
        BY <4>3
      <4> QED
        BY <4>1, <4>2, <4>3, <4>4
    <3> QED
      BY <3>1
  <2> QED
    BY <2>1, <2>2, <2>3 DEF TypeOK
<1>2. CASE SpawnFails
  <2>1. PICK err \in SpawnError : Return(StartupVerdict(err))
    BY <1>2 DEF SpawnFails
  <2>2. StartupVerdict(err) \in Verdict
    BY StartupIsVerdict, Verdicts
  <2> QED
    BY <1>2, <2>1, <2>2, ReturnType
       DEF SpawnFails, TypeOK, channelVars, readerVars, nodeVars, Held
<1>3. CASE AwaitLine
  <2> DEFINE line == stdout[at][rcv[at] + 1]
  <2> at \in Node
    BY DEF TypeOK
  <2>1. line \in Line
    BY <1>3, ReceiveType DEF AwaitLine
  <2>2. \A err : StartupVerdict(err) \in Verdict
    BY StartupIsVerdict, Verdicts
  <2>3. /\ pc' \in Step /\ at' \in Node
        /\ owned' \in SUBSET Node
        /\ verdict' \in Verdict \cup {None}
        /\ hello' \in [Node -> Hello \cup {"none"}]
    <3>1. CASE line.type = "ready"
      <4>1. /\ hello' = [hello EXCEPT ![at] = line.hello]
            /\ owned' = owned \cup {at}
            /\ IF at = "A" THEN GoTo("start", "B") ELSE GoTo("check", "A")
            /\ verdict' = verdict
        BY <1>3, <3>1 DEF AwaitLine
      <4>2. line.hello \in Hello \cup {"none"}
        BY <2>1 DEF Line
      <4> QED
        BY <4>1, <4>2 DEF TypeOK, GoTo, Step, Node
    <3>2. CASE line.type # "ready"
      BY <1>3, <2>1, <2>2, <3>2, ReturnType DEF AwaitLine, TypeOK
    <3> QED BY <3>1, <3>2
  <2>4. rcv' \in [Node -> Nat] /\ \A n \in Node : rcv'[n] <= fwd[n]
    BY <1>3, ReceiveType DEF AwaitLine
  <2> QED
    BY <1>3, <2>3, <2>4 DEF AwaitLine, TypeOK, readerVars, nodeVars, Held
<1>4. CASE AwaitClosed
  BY <1>4, ReturnType, StartupIsVerdict, Verdicts
     DEF AwaitClosed, TypeOK, channelVars, readerVars, nodeVars, Held
<1>5. CASE AwaitTimeout
  BY <1>5, ReturnType, StartupIsVerdict, Verdicts
     DEF AwaitTimeout, TypeOK, channelVars, readerVars, Held
<1>6. CASE CheckStub
  <2>1. /\ pc' \in Step /\ at' \in Node
        /\ owned' \in SUBSET Node
        /\ verdict' \in Verdict \cup {None}
    BY <1>6, ReturnType, Verdicts DEF CheckStub, TypeOK, GoTo, Step, Node
  <2> QED
    BY <1>6, <2>1 DEF CheckStub, TypeOK, channelVars, readerVars, nodeVars, Held
<1>7. CASE Bootstrap
  <2>1. /\ pc' \in Step /\ at' \in Node
        /\ owned' \in SUBSET Node
        /\ verdict' \in Verdict \cup {None}
    BY <1>7, ReturnType, Verdicts DEF Bootstrap, TypeOK, GoTo, Step, Node
  <2>2. worker' \in [Node -> {"idle", "send", "wait", "done"}]
    BY <1>7 DEF Bootstrap, TypeOK
  <2>3. /\ sent' \in [Node -> Seq(Command)]
        /\ \A n \in Node : got[n] <= Len(sent'[n])
    BY <1>7, WriteType DEF Bootstrap, TypeOK, Command
  <2> QED
    BY <1>7, <2>1, <2>2, <2>3 DEF Bootstrap, TypeOK, readerVars, nodeVars, Held
<1>8. CASE Collect
  <2>1. classifyResults(res["A"], res["B"]) \in Verdict
    BY ClassifyIsVerdict DEF TypeOK, Node
  <2> QED
    BY <1>8, <2>1, ReturnType
       DEF Collect, TypeOK, channelVars, readerVars, nodeVars, Held
<1>9. CASE CloseSend
  <2>1. /\ sent' \in [Node -> Seq(Command)]
        /\ \A n \in Node : got[n] <= Len(sent'[n])
    BY <1>9, WriteType DEF CloseSend, TypeOK, Command
  <2> QED
    BY <1>9, <2>1
       DEF CloseSend, TypeOK, GoTo, Step, channelVars, readerVars, nodeVars, Held
<1>10. CASE CloseWait
  BY <1>10 DEF CloseWait, TypeOK, GoTo, Step, Node, channelVars, readerVars, nodeVars, Held
<1> QED
  BY <1>1, <1>2, <1>3, <1>4, <1>5, <1>6, <1>7, <1>8, <1>9, <1>10 DEF MainStep

LEMMA WorkerType ==
  ASSUME TypeOK, NEW n \in Node, WorkerStep(n)
  PROVE  TypeOK'
<1> USE DEF mainVars, readerVars, nodeVars, Held
<1>1. CASE SendRunTest(n)
  <2>1. /\ sent' \in [Node -> Seq(Command)]
        /\ \A m \in Node : got[m] <= Len(sent'[m])
    BY <1>1, WriteType DEF SendRunTest, TypeOK, Command
  <2>2. worker' \in [Node -> {"idle", "send", "wait", "done"}] /\ res' \in [Node -> Answer \cup {None}]
    <3>1. worker \in [Node -> {"idle", "send", "wait", "done"}] /\ res \in [Node -> Answer \cup {None}]
      BY DEF TypeOK
    <3>2. \/ worker' = [worker EXCEPT ![n] = "wait"] /\ res' = res
          \/ worker' = [worker EXCEPT ![n] = "done"] /\ res' = [res EXCEPT ![n] = IPCError]
      BY <1>1 DEF SendRunTest, Answered
    <3> QED
      BY <3>1, <3>2, Verdicts
  <2> QED
    BY <1>1, <2>1, <2>2 DEF SendRunTest, TypeOK
<1>2. CASE ReceiveLine(n)
  <2>1. stdout[n][rcv[n] + 1] \in Line
    BY <1>2, ReceiveType DEF ReceiveLine
  <2>2. parseResultLine(stdout[n][rcv[n] + 1]) \in Answer \cup {None}
    BY <2>1, ParseType
  <2>3. rcv' \in [Node -> Nat] /\ \A m \in Node : rcv'[m] <= fwd[m]
    BY <1>2, ReceiveType DEF ReceiveLine
  <2>4. worker' \in [Node -> {"idle", "send", "wait", "done"}]
    BY <1>2 DEF ReceiveLine, Answered, TypeOK
  <2>5. res' \in [Node -> Answer \cup {None}]
    BY <1>2, <2>2 DEF ReceiveLine, Answered, TypeOK
  <2> QED
    BY <1>2, <2>3, <2>4, <2>5 DEF ReceiveLine, TypeOK
<1>3. CASE ReceiveClosed(n)
  BY <1>3, Verdicts DEF ReceiveClosed, Answered, TypeOK
<1>4. CASE Deadline(n)
  BY <1>4, Verdicts DEF Deadline, Answered, TypeOK
<1> QED
  BY <1>1, <1>2, <1>3, <1>4 DEF WorkerStep

LEMMA ReaderType ==
  ASSUME TypeOK, NEW n \in Node, ReaderStep(n)
  PROVE  TypeOK'
<1>1. ASSUME UNCHANGED <<alive, impl, mainVars, reaped, channelVars, nodeVars, sent>>,
             reader' \in [Node -> {"off", "scan", "hold", "exited"}],
             closed' \in [Node -> BOOLEAN],
             fwd' \in [Node -> Nat],
             \A m \in Node : rcv[m] <= fwd'[m] /\ fwd'[m] + Held(m)' <= Len(stdout[m])
      PROVE  TypeOK'
  BY <1>1 DEF TypeOK, mainVars, channelVars, nodeVars
<1>2. /\ reader \in [Node -> {"off", "scan", "hold", "exited"}]
      /\ closed \in [Node -> BOOLEAN]
      /\ fwd \in [Node -> Nat] /\ rcv \in [Node -> Nat]
      /\ \A m \in Node : rcv[m] <= fwd[m] /\ fwd[m] + Held(m) <= Len(stdout[m])
  BY DEF TypeOK
<1>3. \A m \in Node : Len(stdout[m]) \in Nat
  BY PipeType
<1>4. CASE Scan(n)
  <2>1. /\ reader[n] = "scan" /\ reader' = [reader EXCEPT ![n] = "hold"]
        /\ closed' = closed /\ fwd' = fwd
    BY <1>4 DEF Scan, Reading
  <2>4. Held(n) = 0 /\ Len(stdout[n]) - fwd[n] - Held(n) > 0
    BY <1>4, <2>1 DEF Scan, InPipe, Held
  <2>5. Len(stdout[n]) - fwd[n] > 0
    BY <1>2, <1>3, <2>4
  <2>2. \A m \in Node : rcv[m] <= fwd'[m] /\ fwd'[m] + Held(m)' <= Len(stdout[m])
    BY <1>2, <1>3, <2>1, <2>5 DEF Held
  <2>3. reader' \in [Node -> {"off", "scan", "hold", "exited"}]
    BY <1>2, <2>1
  <2> QED
    BY <1>1, <1>2, <1>4, <2>1, <2>2, <2>3 DEF Scan
<1>5. CASE Forward(n)
  <2>1. /\ reader[n] = "hold" /\ reader' = [reader EXCEPT ![n] = "scan"]
        /\ fwd' = [fwd EXCEPT ![n] = @ + 1]
        /\ closed' = closed
    BY <1>5 DEF Forward, Reading
  <2>2. \A m \in Node : rcv[m] <= fwd'[m] /\ fwd'[m] + Held(m)' <= Len(stdout[m])
    BY <1>2, <1>3, <2>1 DEF Held
  <2>3. /\ reader' \in [Node -> {"off", "scan", "hold", "exited"}]
        /\ fwd' \in [Node -> Nat]
    BY <1>2, <2>1
  <2> QED
    BY <1>1, <1>2, <1>5, <2>1, <2>2, <2>3 DEF Forward
<1>6. CASE Quit(n) \/ EndOfPipe(n)
  <2>1. /\ reader' = [reader EXCEPT ![n] = "exited"]
        /\ fwd' = fwd
        /\ closed' = closed \/ closed' = [closed EXCEPT ![n] = TRUE]
    BY <1>6 DEF Quit, EndOfPipe
  <2>2. \A m \in Node : rcv[m] <= fwd'[m] /\ fwd'[m] + Held(m)' <= Len(stdout[m])
    BY <1>2, <1>3, <2>1 DEF Held
  <2>3. /\ reader' \in [Node -> {"off", "scan", "hold", "exited"}]
        /\ closed' \in [Node -> BOOLEAN]
        /\ fwd' \in [Node -> Nat]
    BY <1>2, <2>1
  <2> QED
    BY <1>1, <1>6, <2>2, <2>3 DEF Quit, EndOfPipe
<1> QED
  BY <1>4, <1>5, <1>6 DEF ReaderStep

\* One more command is read.
LEMMA ReadsType ==
  ASSUME TypeOK, NEW n \in Node, NEW cmd, Reads(n, cmd)
  PROVE  got' \in [Node -> Nat] /\ \A m \in Node : got'[m] <= Len(sent[m])
<1>1. got \in [Node -> Nat] /\ \A m \in Node : got[m] <= Len(sent[m])
  BY DEF TypeOK
<1>2. \A m \in Node : Len(sent[m]) \in Nat
  BY PipeType
<1>3. got[n] < Len(sent[n]) /\ got' = [got EXCEPT ![n] = @ + 1]
  BY DEF Reads, Pending
<1> QED
  BY <1>1, <1>2, <1>3

\* Nothing is printed.
LEMMA SilentType ==
  ASSUME TypeOK, stdout' = stdout
  PROVE  /\ stdout' \in [Node -> Seq(Line)]
         /\ \A m \in Node : Len(stdout[m]) <= Len(stdout'[m])
<1>1. stdout \in [Node -> Seq(Line)]
  BY DEF TypeOK
<1>2. \A m \in Node : Len(stdout[m]) \in Nat
  BY PipeType
<1> QED
  BY <1>1, <1>2

LEMMA EmitType ==
  ASSUME TypeOK, NEW n \in Node, NEW line \in Line, NEW next \in Running \cup {"dead", "hung"},
         Emit(n, line, next)
  PROVE  /\ proc'   \in [Node -> {"absent", "dead", "hung"} \cup Running]
         /\ stdout' \in [Node -> Seq(Line)]
         /\ \A m \in Node : Len(stdout[m]) <= Len(stdout'[m])
<1>1. proc' \in [Node -> {"absent", "dead", "hung"} \cup Running]
  BY DEF Emit, TypeOK
<1>2. stdout \in [Node -> Seq(Line)]
  BY DEF TypeOK
<1>3. CASE stdout' = [stdout EXCEPT ![n] = Append(@, line)]
  BY <1>1, <1>2, <1>3, GrowFacts
<1>4. CASE UNCHANGED stdout
  BY <1>1, <1>2, <1>4, PipeType
<1> QED
  BY <1>3, <1>4 DEF Emit

\* Every step of a node process keeps the harness's variables.
LEMMA NodeType ==
  ASSUME TypeOK, NEW n \in Node, NodeStep(n) \/ NodeStray(n) \/ NodeFails(n)
  PROVE  TypeOK'
<1> USE DEF HarnessVars, mainVars, channelVars, readerVars, Held
<1>1. impl[n] \in Impl
  BY DEF TypeOK
<1>2. ASSUME /\ UNCHANGED HarnessVars
             /\ proc'   \in [Node -> {"absent", "dead", "hung"} \cup Running]
             /\ stdout' \in [Node -> Seq(Line)]
             /\ \A m \in Node : Len(stdout[m]) <= Len(stdout'[m])
             /\ got'    \in [Node -> Nat]
             /\ \A m \in Node : got'[m] <= Len(sent[m])
             /\ strays' \in [Node -> Nat]
      PROVE  TypeOK'
  <2>1. \A m \in Node : /\ rcv'[m] <= fwd'[m]
                        /\ fwd'[m] + Held(m)' <= Len(stdout'[m])
                        /\ got'[m] <= Len(sent'[m])
    <3> SUFFICES ASSUME NEW m \in Node
                 PROVE  /\ rcv'[m] <= fwd'[m]
                        /\ fwd'[m] + Held(m)' <= Len(stdout'[m])
                        /\ got'[m] <= Len(sent'[m])
      OBVIOUS
    <3>1. rcv[m] <= fwd[m] /\ fwd[m] + Held(m) <= Len(stdout[m])
      BY DEF TypeOK
    <3>2. fwd[m] \in Nat /\ Len(stdout[m]) \in Nat
      BY PipeType
    <3>3. stdout'[m] \in Seq(Line)
      BY <1>2
    <3>4. Len(stdout'[m]) \in Nat /\ Len(stdout[m]) <= Len(stdout'[m])
      BY <1>2, <3>3
    <3>5. rcv' = rcv /\ fwd' = fwd /\ reader' = reader /\ sent' = sent
      BY <1>2
    <3> QED
      BY <1>2, <3>1, <3>2, <3>4, <3>5
  <2> QED
    BY <1>2, <2>1 DEF TypeOK
<1>3. CASE NodeReady(n)
  <2>1. PICK h \in Hellos(impl[n]) : Emit(n, ReadyLine(h), "loop")
    BY <1>3 DEF NodeReady
  <2>2. ReadyLine(h) \in Line
    BY <1>1, ImplTypes, LineTypes
  <2> QED
    BY <1>2, <1>3, <2>1, <2>2, EmitType DEF NodeReady, TypeOK, Running
<1>4. CASE NodeInitFails(n)
  BY <1>2, <1>4, LineTypes, EmitType DEF NodeInitFails, TypeOK, Running
<1>5. CASE NodeBootstrap(n)
  <2>1. /\ proc'   \in [Node -> {"absent", "dead", "hung"} \cup Running]
        /\ stdout' \in [Node -> Seq(Line)]
        /\ \A m \in Node : Len(stdout[m]) <= Len(stdout'[m])
    <3>1. CASE Emit(n, ErrorLine, "loop")
      BY <3>1, LineTypes, EmitType DEF Running
    <3>2. CASE UNCHANGED <<proc, stdout>>
      <4>1. proc \in [Node -> {"absent", "dead", "hung"} \cup Running]
        BY DEF TypeOK
      <4> QED
        BY <3>2, <4>1, SilentType
    <3> QED BY <1>5, <3>1, <3>2 DEF NodeBootstrap
  <2>2. got' \in [Node -> Nat] /\ \A m \in Node : got'[m] <= Len(sent[m])
    BY <1>5, ReadsType DEF NodeBootstrap
  <2> QED
    BY <1>2, <1>5, <2>1, <2>2 DEF NodeBootstrap, TypeOK
<1>6. CASE NodeRunTest(n)
  <2>1. got' \in [Node -> Nat] /\ \A m \in Node : got'[m] <= Len(sent[m])
    BY <1>6, ReadsType DEF NodeRunTest
  <2>2. /\ stdout' \in [Node -> Seq(Line)]
        /\ \A m \in Node : Len(stdout[m]) <= Len(stdout'[m])
    BY <1>6, SilentType DEF NodeRunTest
  <2>3. proc' \in [Node -> {"absent", "dead", "hung"} \cup Running]
    BY <1>6 DEF NodeRunTest, TypeOK, Running
  <2>4. UNCHANGED HarnessVars /\ strays' \in [Node -> Nat]
    BY <1>6 DEF NodeRunTest, TypeOK
  <2> QED
    BY <1>2, <2>1, <2>2, <2>3, <2>4
<1>7. CASE NodeResult(n)
  <2>1. PICK r \in Results(impl[n]) : Emit(n, ResultLine(r), "loop")
    BY <1>7 DEF NodeResult
  <2>2. ResultLine(r) \in Line
    BY <1>1, ImplTypes, LineTypes
  <2> QED
    BY <1>2, <1>7, <2>1, <2>2, EmitType DEF NodeResult, TypeOK, Running
<1>8. CASE NodeShutdown(n)
  <2>1. got' \in [Node -> Nat] /\ \A m \in Node : got'[m] <= Len(sent[m])
    BY <1>8, ReadsType DEF NodeShutdown
  <2>2. /\ stdout' \in [Node -> Seq(Line)]
        /\ \A m \in Node : Len(stdout[m]) <= Len(stdout'[m])
    BY <1>8, SilentType DEF NodeShutdown
  <2>3. proc' \in [Node -> {"absent", "dead", "hung"} \cup Running]
    BY <1>8 DEF NodeShutdown, TypeOK
  <2>4. UNCHANGED HarnessVars /\ strays' \in [Node -> Nat]
    BY <1>8 DEF NodeShutdown, TypeOK
  <2> QED
    BY <1>2, <2>1, <2>2, <2>3, <2>4
<1>9. CASE NodeEOF(n)
  BY <1>2, <1>9 DEF NodeEOF, TypeOK
<1>10. CASE NodeStray(n)
  <2>1. proc[n] \in Running /\ Emit(n, NoiseLine, proc[n])
    BY <1>10 DEF NodeStray
  <2>2. /\ proc'   \in [Node -> {"absent", "dead", "hung"} \cup Running]
        /\ stdout' \in [Node -> Seq(Line)]
        /\ \A m \in Node : Len(stdout[m]) <= Len(stdout'[m])
    BY <2>1, LineTypes, EmitType
  <2> QED
    <3>1. strays' \in [Node -> Nat]
      BY <1>10 DEF NodeStray, TypeOK
    <3>2. UNCHANGED HarnessVars /\ got' = got
      BY <1>10 DEF NodeStray
    <3>3. got \in [Node -> Nat] /\ \A m \in Node : got[m] <= Len(sent[m])
      BY DEF TypeOK
    <3> HIDE DEF HarnessVars
    <3> QED
      BY <1>2, <2>2, <3>1, <3>2, <3>3
<1>11. CASE NodeFails(n)
  BY <1>2, <1>11 DEF NodeFails, TypeOK
<1> QED
  BY <1>3, <1>4, <1>5, <1>6, <1>7, <1>8, <1>9, <1>10, <1>11 DEF NodeStep

LEMMA NextType == TypeOK /\ [Next]_vars => TypeOK'
<1> SUFFICES ASSUME TypeOK, [Next]_vars PROVE TypeOK'
  OBVIOUS
<1>1. CASE UNCHANGED vars
  BY <1>1 DEF TypeOK, vars, mainVars, channelVars, readerVars, nodeVars, Held
<1>2. CASE HarnessEnds
  BY <1>2 DEF HarnessEnds, TypeOK, mainVars, channelVars, readerVars, nodeVars, Held
<1> QED
  BY <1>1, <1>2, MainType, WorkerType, ReaderType, NodeType DEF Next, Terminated

\* Every variable of a run keeps its type, and no side of a pipe or channel
\* gets ahead of the other one: the harness receives only lines its reader
\* has forwarded, the reader forwards only lines the node has written, a
\* node reads only commands that were sent.
THEOREM TypeCorrect == Spec => []TypeOK
  BY InitType, NextType, PTL DEF Spec

-----------------------------------------------------------------------------
(***************************************************************************)
(* The inductive invariant. Each part is a link of the argument:           *)
(*   PhaseInv   where the main thread is fixes which nodes are started,    *)
(*              what the workers do, and whether there is a verdict;       *)
(*   LinesInv   a node prints results only after it has read run_test, and *)
(*              only the four results there is code for;                   *)
(*   AnswerInv  what a worker returned was said by the node, or made up    *)
(*              for a silent or a broken one;                              *)
(*   EarnedInv  the two verdict properties themselves.                     *)
(***************************************************************************)
OwnAnswers == {Compatible, ConflictingBy1, ConflictingBy3, NotImplemented}

Starting == pc \in {"start", "await"}
Wired    == pc \in {"check", "bootstrap", "collect"}
Closing  == pc \in {"close", "wait", "return"}

PhaseInv ==
  /\ Closing <=> verdict # None
  /\ Starting => owned = IF at = "A" THEN {} ELSE {"A"}
  /\ Wired => owned = Node
  /\ pc = "collect" => \A n \in Node : worker[n] # "idle"
  /\ Starting \/ pc \in {"check", "bootstrap"} => \A n \in Node : worker[n] = "idle"
  /\ Closing => \/ \A n \in Node : worker[n] = "idle"
                \/ \A n \in Node : worker[n] = "done"
  /\ \A n \in Node : worker[n] # "idle" => owned = Node

LinesInv ==
  \A n \in Node :
    /\ proc[n] = "test" => ReadTest(n)
    /\ \A k \in 1..Len(stdout[n]) : stdout[n][k].type = "result" =>
         /\ ReadTest(n)
         /\ \E a \in OwnAnswers : stdout[n][k] = ResultLine(a)

AnswerInv ==
  \A n \in Node :
    /\ worker[n] = "done" <=> res[n] # None
    /\ res[n] \in {None, HarnessTimeout, IPCError} \/ (res[n] \in OwnAnswers /\ Said(n, res[n]))

EarnedInv == CompatibleIsEarned /\ SkipHasCause

IInv == TypeOK /\ PhaseInv /\ LinesInv /\ AnswerInv /\ EarnedInv

(***************************************************************************)
(* The order of the commands, on top of IInv: the bootstraps are in the    *)
(* pipes before a worker can write run_test.                               *)
(***************************************************************************)
OrderInv ==
  /\ pc = "bootstrap" /\ at = "A" => Bootstrapped("B", Len(sent["B"]))
  /\ \A n \in Node : worker[n] # "idle" =>
       \A m \in Node : Bootstrapped(m, Len(sent[m]))
  /\ \A n \in Node : \A k \in 1..Len(sent[n]) : sent[n][k] = "run_test" =>
       /\ worker[n] # "idle"
       /\ Bootstrapped(n, k)

(***************************************************************************)
(* Who is alive, on top of IInv.                                           *)
(***************************************************************************)
Refused(n) == rcv[n] = 1 /\ Len(stdout[n]) >= 1 /\ stdout[n][1].type # "ready"

CloseInv ==
  /\ "B" \in owned => owned = Node
  /\ \A n \in Node : closed[n] \/ reaped[n] => proc[n] = "dead"
  /\ pc = "start" => proc[at] = "absent"
  /\ Starting => /\ at = "A" => proc["B"] = "absent"
                 /\ rcv[at] = 0 /\ rcv["B"] = 0
  /\ Closing => \A n \in Node \ owned : proc[n] \in {"absent", "dead"} \/ Refused(n)
  /\ pc \in {"close", "wait"} => at \in owned
  /\ pc \in {"close", "wait"} /\ at = "A" /\ "B" \in owned => proc["B"] = "dead"
  /\ pc = "return" => \A n \in owned : proc[n] = "dead"

(***************************************************************************)
(* How much a node can print, on top of IInv: one line to start with, at   *)
(* most one for each of three commands, and the stray ones.                *)
(***************************************************************************)
SentBound(n) ==
  /\ Len(sent[n]) <= 3
  /\ Starting \/ pc = "check" => Len(sent[n]) = 0
  /\ pc = "bootstrap" => Len(sent[n]) <= IF at = "A" /\ n = "B" THEN 1 ELSE 0
  /\ pc = "collect" => Len(sent[n]) <= IF worker[n] = "send" THEN 1 ELSE 2
  /\ pc = "close" /\ (at = n \/ at = "B") => Len(sent[n]) <= 2
  /\ pc = "wait" /\ at = "B" /\ n = "A" => Len(sent[n]) <= 2

PrintBound(n) ==
  LET ready == IF proc[n] \in {"absent", "init", "test"} THEN 0 ELSE 1
  IN  /\ strays[n] <= MaxStray
      /\ Len(stdout[n]) <= ready + got[n] + strays[n]

BudgetInv == \A n \in Node : SentBound(n) /\ PrintBound(n)

-----------------------------------------------------------------------------
(***************************************************************************)
(* What each actor leaves alone, and that the logs and the positions in    *)
(* them only grow.                                                         *)
(***************************************************************************)
Extends(old, new) ==
  Len(old) <= Len(new) /\ \A k \in 1..Len(old) : new[k] = old[k]

LEMMA MainFrame ==
  ASSUME MainStep
  PROVE  UNCHANGED <<alive, impl, res, fwd, closed, got, stdout, strays>>
  BY DEF MainStep, Spawn, SpawnFails, AwaitLine, AwaitClosed, AwaitTimeout, CheckStub,
         Bootstrap, Collect, CloseSend, CloseWait, channelVars, readerVars, nodeVars

LEMMA WorkerFrame ==
  ASSUME NEW n \in Node, WorkerStep(n)
  PROVE  UNCHANGED <<alive, impl, pc, at, owned, hello, verdict, reaped,
                     reader, closed, fwd, proc, got, stdout, strays>>
  BY DEF WorkerStep, SendRunTest, ReceiveLine, ReceiveClosed, Deadline,
         mainVars, readerVars, nodeVars

LEMMA ReaderFrame ==
  ASSUME NEW n \in Node, ReaderStep(n)
  PROVE  UNCHANGED <<alive, impl, pc, at, owned, hello, verdict, reaped,
                     worker, res, rcv, proc, got, stdout, strays, sent>>
  BY DEF ReaderStep, Scan, Forward, Quit, EndOfPipe, mainVars, channelVars, nodeVars

NodeAct(n) == NodeStep(n) \/ NodeStray(n) \/ NodeFails(n)

LEMMA NodeFrame ==
  ASSUME NEW n \in Node, NodeAct(n)
  PROVE  UNCHANGED <<alive, impl, pc, at, owned, hello, verdict, reaped,
                     worker, res, rcv, reader, closed, fwd, sent>>
  BY DEF NodeAct, NodeStep, NodeReady, NodeInitFails, NodeBootstrap, NodeRunTest, NodeResult,
         NodeShutdown, NodeEOF, NodeStray, NodeFails,
         HarnessVars, mainVars, channelVars, readerVars

LEMMA NextCases ==
  ASSUME [Next]_vars
  PROVE  \/ MainStep
         \/ \E n \in Node : WorkerStep(n)
         \/ \E n \in Node : ReaderStep(n)
         \/ \E n \in Node : NodeAct(n)
         \/ UNCHANGED <<impl, pc, at, owned, hello, verdict, reaped, worker, res, rcv,
                        reader, closed, fwd, proc, got, stdout, strays, sent>>
  BY DEF Next, NodeAct, Terminated, HarnessEnds, vars, mainVars, channelVars,
         readerVars, nodeVars

LEMMA SentGrows ==
  ASSUME TypeOK, [Next]_vars, NEW n \in Node
  PROVE  Extends(sent[n], sent'[n])
<1>1. sent \in [Node -> Seq(Command)]
  BY DEF TypeOK
<1>2. ASSUME NEW m \in Node, NEW cmd \in Command, Write(m, cmd)
      PROVE  Extends(sent[n], sent'[n])
  <2>1. sent' = [sent EXCEPT ![m] = Append(@, cmd)]
    BY <1>2 DEF Write
  <2> QED
    BY <1>1, <2>1, GrowFacts DEF Extends
<1>3. CASE sent' = sent
  BY <1>3, PipeType DEF Extends
<1>4. CASE MainStep
  <2>1. at \in Node
    BY DEF TypeOK
  <2>2. sent' = sent \/ Write(at, "bootstrap") \/ Write(at, "shutdown")
    BY <1>4 DEF MainStep, Spawn, SpawnFails, AwaitLine, AwaitClosed, AwaitTimeout, CheckStub,
                Bootstrap, Collect, CloseSend, CloseWait
  <2> QED
    BY <1>2, <1>3, <2>1, <2>2 DEF Command
<1>5. CASE \E m \in Node : WorkerStep(m)
  <2>1. PICK m \in Node : WorkerStep(m)
    BY <1>5
  <2>2. sent' = sent \/ Write(m, "run_test")
    BY <2>1 DEF WorkerStep, SendRunTest, ReceiveLine, ReceiveClosed, Deadline
  <2> QED
    BY <1>2, <1>3, <2>2 DEF Command
<1> QED
  BY <1>3, <1>4, <1>5, NextCases, ReaderFrame, NodeFrame

LEMMA StdoutGrows ==
  ASSUME TypeOK, [Next]_vars, NEW n \in Node
  PROVE  Extends(stdout[n], stdout'[n])
<1>1. stdout \in [Node -> Seq(Line)]
  BY DEF TypeOK
<1>2. ASSUME NEW m \in Node, NEW line \in Line, NEW next, Emit(m, line, next)
      PROVE  Extends(stdout[n], stdout'[n])
  <2>1. stdout' = stdout \/ stdout' = [stdout EXCEPT ![m] = Append(@, line)]
    BY <1>2 DEF Emit
  <2>2. CASE stdout' = stdout
    BY <2>2, PipeType DEF Extends
  <2>3. CASE stdout' = [stdout EXCEPT ![m] = Append(@, line)]
    BY <1>1, <2>3, GrowFacts DEF Extends
  <2> QED
    BY <2>1, <2>2, <2>3
<1>3. CASE stdout' = stdout
  BY <1>3, PipeType DEF Extends
<1>4. CASE \E m \in Node : NodeAct(m)
  <2>1. PICK m \in Node : NodeAct(m)
    BY <1>4
  <2>2. impl[m] \in Impl
    BY DEF TypeOK
  <2>3. \/ stdout' = stdout
        \/ \E h \in Hello : Emit(m, ReadyLine(h), "loop")
        \/ \E a \in Answer : Emit(m, ResultLine(a), "loop")
        \/ \E next \in {"loop", "dead"} : Emit(m, ErrorLine, next)
        \/ Emit(m, NoiseLine, proc[m])
    BY <2>1, <2>2, ImplTypes
       DEF NodeAct, NodeStep, NodeReady, NodeInitFails, NodeBootstrap, NodeRunTest,
           NodeResult, NodeShutdown, NodeEOF, NodeStray, NodeFails
  <2> QED
    BY <1>2, <1>3, <2>3, LineTypes
<1> QED
  BY <1>3, <1>4, NextCases, MainFrame, ReaderFrame, WorkerFrame

LEMMA PositionsGrow ==
  ASSUME TypeOK, [Next]_vars, NEW n \in Node
  PROVE  got[n] <= got'[n] /\ rcv[n] <= rcv'[n]
<1>1. got[n] \in Nat /\ rcv[n] \in Nat
  BY PipeType
<1>2. got' = got \/ \E m \in Node : got' = [got EXCEPT ![m] = @ + 1]
  BY NextCases, MainFrame, ReaderFrame, WorkerFrame
     DEF NodeAct, NodeStep, NodeReady, NodeInitFails, NodeBootstrap, NodeRunTest, NodeResult,
         NodeShutdown, NodeEOF, NodeStray, NodeFails, Reads
<1>3. rcv' = rcv \/ \E m \in Node : rcv' = [rcv EXCEPT ![m] = @ + 1]
  <2>1. CASE MainStep
    BY <2>1 DEF MainStep, Spawn, SpawnFails, AwaitLine, AwaitClosed, AwaitTimeout, CheckStub,
                Bootstrap, Collect, CloseSend, CloseWait, channelVars, TypeOK
  <2>2. CASE \E m \in Node : WorkerStep(m)
    BY <2>2 DEF WorkerStep, SendRunTest, ReceiveLine, ReceiveClosed, Deadline
  <2> QED
    BY <2>1, <2>2, NextCases, ReaderFrame, NodeFrame
<1>4. got \in [Node -> Nat] /\ rcv \in [Node -> Nat]
  BY DEF TypeOK
<1>5. got[n] <= got'[n]
  BY <1>1, <1>2, <1>4
<1>6. rcv[n] <= rcv'[n]
  BY <1>1, <1>3, <1>4
<1> QED
  BY <1>5, <1>6

\* What a node has read and what the harness has heard from it stays so.
LEMMA HistoryStays ==
  ASSUME TypeOK, [Next]_vars, NEW n \in Node
  PROVE  /\ ReadTest(n) => ReadTest(n)'
         /\ \A a \in Answer : Said(n, a) => Said(n, a)'
<1>1. /\ got[n] <= got'[n] /\ rcv[n] <= rcv'[n]
      /\ Extends(sent[n], sent'[n]) /\ Extends(stdout[n], stdout'[n])
  BY SentGrows, StdoutGrows, PositionsGrow
<1>2. /\ got[n] \in Nat /\ rcv[n] \in Nat /\ Len(sent[n]) \in Nat /\ Len(stdout[n]) \in Nat
      /\ got[n] <= Len(sent[n]) /\ rcv[n] <= Len(stdout[n])
  <2>1. fwd[n] \in Nat
    BY PipeType
  <2> QED BY <2>1, PipeType
<1>3. TypeOK'
  BY NextType
<1>4. got'[n] \in Nat /\ rcv'[n] \in Nat
  BY <1>3 DEF TypeOK
<1>5. ASSUME ReadTest(n) PROVE ReadTest(n)'
  <2>1. PICK k \in 1..got[n] : sent[n][k] = "run_test"
    BY <1>5 DEF ReadTest
  <2>2. k \in 1..Len(sent[n]) /\ k \in 1..got'[n]
    BY <1>1, <1>2, <1>4
  <2>3. sent'[n][k] = sent[n][k]
    BY <1>1, <2>2 DEF Extends
  <2> QED
    BY <2>1, <2>2, <2>3 DEF ReadTest
<1>6. ASSUME NEW a \in Answer, Said(n, a) PROVE Said(n, a)'
  BY <1>1, <1>2, <1>4, <1>6 DEF Said, Extends
<1> QED
  BY <1>5, <1>6

-----------------------------------------------------------------------------
(***************************************************************************)
(* PhaseInv.                                                               *)
(***************************************************************************)
LEMMA PhaseInit == Init => PhaseInv
  BY Verdicts DEF Init, PhaseInv, Closing, Starting, Wired, Node

\* A return of runCompatTest with nothing running leads to the Close calls.
LEMMA ReturnPhase ==
  ASSUME NEW v \in Verdict, Return(v), UNCHANGED worker, owned \subseteq Node,
         \A n \in Node : worker[n] # "idle" => owned = Node,
         \/ \A n \in Node : worker[n] = "idle"
         \/ \A n \in Node : worker[n] = "done"
  PROVE  PhaseInv'
<1>1. verdict' # None
  BY Verdicts DEF Return
<1>2. pc' \in {"close", "return"}
  BY DEF Return, Unwind, GoTo
<1> QED
  BY <1>1, <1>2 DEF Return, PhaseInv, Closing, Starting, Wired

LEMMA MainPhase ==
  ASSUME TypeOK, PhaseInv, MainStep
  PROVE  PhaseInv'
<1> DEFINE Quiet == \/ \A n \in Node : worker[n] = "idle"
                    \/ \A n \in Node : worker[n] = "done"
<1>1. owned \subseteq Node /\ at \in Node
  BY DEF TypeOK
<1>2. \A n \in Node : worker[n] # "idle" => owned = Node
  BY DEF PhaseInv
<1>3. Starting \/ pc \in {"check", "bootstrap"} => \A n \in Node : worker[n] = "idle"
  BY DEF PhaseInv
<1>4. ASSUME NEW v \in Verdict, Return(v), UNCHANGED worker, Quiet
      PROVE  PhaseInv'
  BY <1>1, <1>2, <1>4, ReturnPhase
<1>5. \A err : StartupVerdict(err) \in Verdict
  BY StartupIsVerdict, Verdicts
<1>6. CASE Spawn
  BY <1>6 DEF Spawn, Main, GoTo, channelVars, PhaseInv, Closing, Starting, Wired
<1>7. CASE SpawnFails
  <2>1. PICK err \in SpawnError : Return(StartupVerdict(err))
    BY <1>7 DEF SpawnFails
  <2> QED
    BY <1>3, <1>4, <1>5, <1>7, <2>1 DEF SpawnFails, Main, Starting, channelVars
<1>8. CASE AwaitLine
  <2>1. worker' = worker /\ pc = "await"
    BY <1>8 DEF AwaitLine, Main
  <2>2. CASE \E err : Return(StartupVerdict(err))
    BY <1>3, <1>4, <1>5, <2>1, <2>2 DEF Starting
  <2>3. CASE /\ owned' = owned \cup {at} /\ verdict' = verdict
             /\ IF at = "A" THEN GoTo("start", "B") ELSE GoTo("check", "A")
    BY <1>1, <2>1, <2>3 DEF GoTo, PhaseInv, Closing, Starting, Wired, Node
  <2> QED
    BY <1>8, <2>2, <2>3 DEF AwaitLine
<1>9. CASE AwaitClosed
  BY <1>3, <1>4, <1>5, <1>9 DEF AwaitClosed, Main, Starting, channelVars
<1>10. CASE AwaitTimeout
  BY <1>3, <1>4, <1>5, <1>10 DEF AwaitTimeout, Main, Starting, channelVars
<1>11. CASE CheckStub
  <2>1. worker' = worker /\ pc = "check"
    BY <1>11 DEF CheckStub, Main, channelVars
  <2>2. CASE Return(NotImplemented)
    BY <1>3, <1>4, <2>1, <2>2, Verdicts
  <2>3. CASE GoTo("bootstrap", "B") /\ UNCHANGED <<owned, verdict>>
    BY <2>1, <2>3 DEF GoTo, PhaseInv, Closing, Starting, Wired
  <2> QED
    BY <1>11, <2>2, <2>3 DEF CheckStub
<1>12. CASE Bootstrap
  <2>1. pc = "bootstrap"
    BY <1>12 DEF Bootstrap, Main
  <2>2. CASE Return(ConflictingBy1) /\ UNCHANGED worker
    BY <1>3, <1>4, <2>1, <2>2, Verdicts
  <2>3. CASE /\ UNCHANGED <<owned, verdict>>
             /\ \/ GoTo("bootstrap", "A") /\ UNCHANGED worker
                \/ GoTo("collect", "A") /\ worker' = [n \in Node |-> "send"]
    BY <2>1, <2>3 DEF GoTo, PhaseInv, Closing, Starting, Wired
  <2> QED
    BY <1>12, <2>2, <2>3 DEF Bootstrap
<1>13. CASE Collect
  <2>1. classifyResults(res["A"], res["B"]) \in Verdict
    BY ClassifyIsVerdict DEF TypeOK, Node
  <2> QED
    BY <1>4, <1>13, <2>1 DEF Collect, channelVars
<1>14. CASE CloseSend
  BY <1>14 DEF CloseSend, Main, GoTo, channelVars, PhaseInv, Closing, Starting, Wired
<1>15. CASE CloseWait
  BY <1>15 DEF CloseWait, Main, GoTo, channelVars, PhaseInv, Closing, Starting, Wired
<1> QED
  BY <1>6, <1>7, <1>8, <1>9, <1>10, <1>11, <1>12, <1>13, <1>14, <1>15 DEF MainStep

\* A worker runs only while the main thread collects.
LEMMA WorkerPhase ==
  ASSUME TypeOK, PhaseInv, NEW n \in Node, WorkerStep(n)
  PROVE  PhaseInv' /\ pc = "collect" /\ verdict = None
<1>1. /\ worker[n] \in {"send", "wait"}
      /\ \E w \in {"send", "wait", "done"} : worker' = [worker EXCEPT ![n] = w]
  <2>1. worker \in [Node -> {"idle", "send", "wait", "done"}]
    BY DEF TypeOK
  <2>2. CASE SendRunTest(n)
    BY <2>1, <2>2 DEF SendRunTest, Working, Answered
  <2>3. CASE ReceiveLine(n)
    BY <2>1, <2>3 DEF ReceiveLine, Working, Answered
  <2>4. CASE ReceiveClosed(n) \/ Deadline(n)
    BY <2>1, <2>4 DEF ReceiveClosed, Deadline, Working, Answered
  <2> QED
    BY <2>2, <2>3, <2>4 DEF WorkerStep
<1>2. pc \in Step
  BY DEF TypeOK
<1>3. pc = "collect"
  BY <1>1, <1>2 DEF PhaseInv, Closing, Starting, Step
<1>4. worker \in [Node -> {"idle", "send", "wait", "done"}]
  BY DEF TypeOK
<1>5. UNCHANGED <<pc, at, owned, verdict>>
  BY WorkerFrame
<1>6. \A m \in Node : worker'[m] # "idle" /\ worker[m] # "idle"
  BY <1>1, <1>3, <1>4 DEF PhaseInv
<1> QED
  BY <1>3, <1>5, <1>6 DEF PhaseInv, Closing, Starting, Wired

LEMMA PhaseStep == TypeOK /\ PhaseInv /\ [Next]_vars => PhaseInv'
<1> SUFFICES ASSUME TypeOK, PhaseInv, [Next]_vars PROVE PhaseInv'
  OBVIOUS
<1>1. CASE UNCHANGED <<pc, at, owned, verdict, worker>>
  BY <1>1 DEF PhaseInv, Closing, Starting, Wired
<1> QED
  BY <1>1, NextCases, MainPhase, WorkerPhase, ReaderFrame, NodeFrame

-----------------------------------------------------------------------------
(***************************************************************************)
(* LinesInv.                                                               *)
(***************************************************************************)
LEMMA OwnResults ==
  ASSUME NEW i \in Impl
  PROVE  Results(i) \subseteq OwnAnswers
  BY DEF Impl, Results, goResults, cResults, OwnAnswers

GoodLine(n, line) ==
  line.type = "result" => ReadTest(n) /\ \E a \in OwnAnswers : line = ResultLine(a)

LEMMA LinesStep == TypeOK /\ LinesInv /\ [Next]_vars => LinesInv'
<1> SUFFICES ASSUME TypeOK, LinesInv, [Next]_vars, NEW n \in Node
             PROVE  /\ (proc[n] = "test" => ReadTest(n))'
                    /\ \A k \in 1..Len(stdout'[n]) : GoodLine(n, stdout[n][k])'
  BY DEF LinesInv, GoodLine
<1>1. ReadTest(n) => ReadTest(n)'
  BY HistoryStays
<1>2. /\ proc[n] = "test" => ReadTest(n)
      /\ \A k \in 1..Len(stdout[n]) : GoodLine(n, stdout[n][k])
  BY DEF LinesInv, GoodLine
<1>3. ASSUME stdout'[n] = stdout[n]
      PROVE  \A k \in 1..Len(stdout'[n]) : GoodLine(n, stdout[n][k])'
  BY <1>1, <1>2, <1>3 DEF GoodLine
<1>4. ASSUME NEW line \in Line, stdout' = [stdout EXCEPT ![n] = Append(@, line)],
             line.type = "result" => ReadTest(n) /\ \E a \in OwnAnswers : line = ResultLine(a)
      PROVE  \A k \in 1..Len(stdout'[n]) : GoodLine(n, stdout[n][k])'
  <2>1. stdout \in [Node -> Seq(Line)]
    BY DEF TypeOK
  <2>2. /\ Len(stdout[n]) \in Nat
        /\ Len(stdout'[n]) = Len(stdout[n]) + 1
        /\ stdout'[n][Len(stdout'[n])] = line
        /\ \A k \in 1..Len(stdout[n]) : stdout'[n][k] = stdout[n][k]
    BY <1>4, <2>1, GrowFacts
  <2> SUFFICES ASSUME NEW k \in 1..Len(stdout'[n]) PROVE GoodLine(n, stdout[n][k])'
    OBVIOUS
  <2>3. CASE k = Len(stdout'[n])
    BY <1>1, <1>4, <2>2, <2>3 DEF GoodLine
  <2>4. CASE k \in 1..Len(stdout[n])
    BY <1>1, <1>2, <2>2, <2>4 DEF GoodLine
  <2> QED
    BY <2>2, <2>3, <2>4
<1>5. CASE UNCHANGED <<proc, stdout>>
  BY <1>1, <1>2, <1>3, <1>5
<1>6. CASE MainStep
  <2>1. stdout' = stdout
    BY <1>6, MainFrame
  <2>2. proc'[n] = "test" => proc[n] = "test"
    BY <1>6 DEF MainStep, Spawn, SpawnFails, AwaitLine, AwaitClosed, AwaitTimeout, CheckStub,
                Bootstrap, Collect, CloseSend, CloseWait, nodeVars, TypeOK
  <2> QED
    BY <1>1, <1>2, <1>3, <2>1, <2>2
<1>7. CASE \E m \in Node : NodeAct(m)
  <2>1. PICK m \in Node : NodeAct(m)
    BY <1>7
  <2>2. impl[m] \in Impl /\ proc \in [Node -> {"absent", "dead", "hung"} \cup Running]
    BY DEF TypeOK
  <2>3. ASSUME NEW line \in Line, NEW next, Emit(m, line, next),
               next = "test" => proc[m] = "test",
               line.type = "result" =>
                 ReadTest(m) /\ \E a \in OwnAnswers : line = ResultLine(a)
        PROVE  /\ (proc[n] = "test" => ReadTest(n))'
               /\ \A k \in 1..Len(stdout'[n]) : GoodLine(n, stdout[n][k])'
    <3>1. /\ proc' = [proc EXCEPT ![m] = next] \/ proc' = [proc EXCEPT ![m] = "dead"]
          /\ stdout' = [stdout EXCEPT ![m] = Append(@, line)] \/ stdout' = stdout
      BY <2>3 DEF Emit
    <3>2. proc'[n] = "test" => proc[n] = "test"
      BY <2>2, <2>3, <3>1
    <3>3. CASE m = n
      BY <1>1, <1>2, <1>3, <1>4, <2>3, <3>1, <3>2, <3>3
    <3>4. CASE m # n
      <4>1. stdout'[n] = stdout[n]
        BY <3>1, <3>4 DEF TypeOK
      <4> QED
        BY <1>1, <1>2, <1>3, <3>2, <4>1
    <3> QED
      BY <3>3, <3>4
  <2>4. CASE NodeReady(m)
    <3>1. PICK h \in Hellos(impl[m]) : Emit(m, ReadyLine(h), "loop")
      BY <2>4 DEF NodeReady
    <3>2. ReadyLine(h) \in Line /\ ReadyLine(h).type = "ready"
      BY <2>2, ImplTypes, LineTypes DEF ReadyLine
    <3> QED
      BY <2>3, <3>1, <3>2
  <2>5. CASE Emit(m, ErrorLine, "loop") \/ Emit(m, ErrorLine, "dead")
    BY <2>3, <2>5, LineTypes DEF ErrorLine
  <2>6. CASE Emit(m, NoiseLine, proc[m])
    BY <2>3, <2>6, LineTypes DEF NoiseLine
  <2>7. CASE NodeResult(m)
    <3>1. PICK r \in Results(impl[m]) : Emit(m, ResultLine(r), "loop")
      BY <2>7 DEF NodeResult
    <3>2. ResultLine(r) \in Line /\ r \in OwnAnswers
      BY <2>2, ImplTypes, LineTypes, OwnResults
    <3>3. ReadTest(m)
      BY <2>7 DEF NodeResult, LinesInv
    <3> QED
      BY <2>3, <3>1, <3>2, <3>3
  <2>8. CASE stdout' = stdout /\ (proc'[n] = "test" => proc[n] = "test")
    BY <1>1, <1>2, <1>3, <2>8
  <2>9. CASE NodeRunTest(m)
    <3>1. stdout' = stdout /\ proc' = [proc EXCEPT ![m] = "test"]
      BY <2>9 DEF NodeRunTest
    <3>2. CASE m # n
      BY <1>1, <1>2, <1>3, <2>2, <3>1, <3>2
    <3>3. CASE m = n
      <4>1. /\ got[n] < Len(sent[n]) /\ sent[n][got[n] + 1] = "run_test"
            /\ got'[n] = got[n] + 1 /\ sent' = sent
        BY <2>9, <3>3, NodeFrame DEF NodeRunTest, Reads, Pending, NodeAct, NodeStep, TypeOK
      <4>2. ReadTest(n)'
        BY <4>1, PipeType DEF ReadTest
      <4> QED
        BY <1>1, <1>2, <1>3, <3>1, <4>2
    <3> QED BY <3>2, <3>3
  <2>10. CASE NodeShutdown(m) \/ NodeEOF(m) \/ NodeFails(m)
    BY <2>2, <2>8, <2>10 DEF NodeShutdown, NodeEOF, NodeFails, Reads
  <2> QED
    BY <2>1, <2>4, <2>5, <2>6, <2>7, <2>8, <2>9, <2>10
       DEF NodeAct, NodeStep, NodeInitFails, NodeBootstrap, NodeStray
<1> QED
  BY <1>5, <1>6, <1>7, NextCases, WorkerFrame, ReaderFrame

-----------------------------------------------------------------------------
(***************************************************************************)
(* AnswerInv.                                                              *)
(***************************************************************************)
LEMMA OwnAnswersType ==
  /\ OwnAnswers \subseteq Answer
  /\ \A a \in OwnAnswers : a \notin {None, HarnessTimeout, IPCError}
  /\ \A a \in OwnAnswers : a.exit = 0 => a = Compatible
  /\ \A a \in OwnAnswers : a.status = "not_implemented" => a = NotImplemented
  /\ \A a \in OwnAnswers : a.status \notin {"timeout", "error"}
  BY DEF OwnAnswers, Compatible, ConflictingBy1, ConflictingBy3, NotImplemented,
         HarnessTimeout, IPCError, None, Answer, NodeStatus, Reported, ExitCode

AnswerOK(n) ==
  /\ worker[n] = "done" <=> res[n] # None
  /\ res[n] \in {None, HarnessTimeout, IPCError} \/ (res[n] \in OwnAnswers /\ Said(n, res[n]))

\* The answer of node n just returned is one the invariant allows.
LEMMA AnsweredOK ==
  ASSUME TypeOK, AnswerInv, [Next]_vars, NEW n \in Node, NEW a \in Answer, Answered(n, a),
         a \in {HarnessTimeout, IPCError} \/ (a \in OwnAnswers /\ Said(n, a)')
  PROVE  AnswerInv'
<1> SUFFICES ASSUME NEW m \in Node PROVE AnswerOK(m)'
  BY DEF AnswerInv, AnswerOK
<1>1. AnswerOK(m)
  BY DEF AnswerInv, AnswerOK
<1>2. /\ res' = [res EXCEPT ![n] = a] /\ worker' = [worker EXCEPT ![n] = "done"]
      /\ res \in [Node -> Answer \cup {None}]
      /\ worker \in [Node -> {"idle", "send", "wait", "done"}]
  BY DEF Answered, TypeOK
<1>3. CASE m = n
  BY <1>2, <1>3, Verdicts DEF AnswerOK
<1>4. CASE m # n
  <2>1. res'[m] = res[m] /\ worker'[m] = worker[m]
    BY <1>2, <1>4
  <2>2. \A x \in OwnAnswers : Said(m, x) => Said(m, x)'
    BY HistoryStays, OwnAnswersType
  <2> QED
    BY <1>1, <2>1, <2>2 DEF AnswerOK, Said
<1> QED
  BY <1>3, <1>4

\* Nothing is answered, and no worker is done that was not.
LEMMA AnswerKept ==
  ASSUME TypeOK, AnswerInv, [Next]_vars, UNCHANGED res,
         \A n \in Node : worker'[n] = "done" <=> worker[n] = "done"
  PROVE  AnswerInv'
<1> SUFFICES ASSUME NEW m \in Node PROVE AnswerOK(m)'
  BY DEF AnswerInv, AnswerOK
<1>1. AnswerOK(m)
  BY DEF AnswerInv, AnswerOK
<1>2. res[m] \in OwnAnswers /\ Said(m, res[m]) => Said(m, res[m])'
  BY HistoryStays, OwnAnswersType
<1> QED
  BY <1>1, <1>2 DEF AnswerOK, Said

LEMMA AnswerStep == TypeOK /\ PhaseInv /\ LinesInv /\ AnswerInv /\ [Next]_vars => AnswerInv'
<1> SUFFICES ASSUME TypeOK, PhaseInv, LinesInv, AnswerInv, [Next]_vars PROVE AnswerInv'
  OBVIOUS
<1>1. CASE UNCHANGED <<res, worker>>
  BY <1>1, AnswerKept
<1>2. CASE MainStep
  <2>1. res' = res
    BY <1>2, MainFrame
  <2>2. CASE worker' = worker
    BY <2>1, <2>2, AnswerKept
  <2>3. CASE Bootstrap /\ worker' = [n \in Node |-> "send"]
    <3>1. \A n \in Node : worker[n] = "idle"
      BY <2>3 DEF Bootstrap, Main, PhaseInv
    <3> QED
      BY <2>1, <2>3, <3>1, AnswerKept
  <2> QED
    BY <1>2, <2>2, <2>3
       DEF MainStep, Spawn, SpawnFails, AwaitLine, AwaitClosed, AwaitTimeout, CheckStub,
           Bootstrap, Collect, CloseSend, CloseWait, channelVars
<1>3. CASE \E n \in Node : WorkerStep(n)
  <2>1. PICK n \in Node : WorkerStep(n)
    BY <1>3
  <2>2. CASE Answered(n, HarnessTimeout) \/ Answered(n, IPCError)
    BY <2>2, AnsweredOK, Verdicts
  <2>3. CASE /\ Working(n, "send") /\ UNCHANGED res
             /\ worker' = [worker EXCEPT ![n] = "wait"]
    BY <2>3, AnswerKept DEF Working, TypeOK
  <2>4. CASE ReceiveLine(n)
    <3> DEFINE line == stdout[n][rcv[n] + 1]
    <3>1. /\ line \in Line /\ rcv'[n] = rcv[n] + 1 /\ rcv[n] + 1 \in 1..Len(stdout[n])
          /\ rcv[n] \in Nat
      BY <2>4, ReceiveType, PipeType DEF ReceiveLine
    <3>2. stdout' = stdout
      BY <2>1, WorkerFrame
    <3>3. CASE parseResultLine(line) = None
      BY <1>1, <2>4, <3>3 DEF ReceiveLine
    <3>4. CASE parseResultLine(line) # None
      <4>1. Answered(n, parseResultLine(line))
        BY <2>4, <3>4 DEF ReceiveLine
      <4>2. CASE line.type = "result"
        <5>1. PICK a \in OwnAnswers : line = ResultLine(a)
          BY <3>1, <4>2 DEF LinesInv
        <5>2. parseResultLine(line) = a
          BY <5>1 DEF parseResultLine, ResultLine
        <5>3. Said(n, a)'
          BY <3>1, <3>2, <5>1 DEF Said
        <5> QED
          BY <4>1, <5>2, <5>3, AnsweredOK, OwnAnswersType
      <4>3. CASE line.type # "result"
        <5>1. parseResultLine(line) = IPCError
          BY <3>4, <4>3 DEF parseResultLine
        <5> QED
          BY <2>2, <4>1, <5>1
      <4> QED BY <4>2, <4>3
    <3> QED BY <3>3, <3>4
  <2> QED
    BY <2>1, <2>2, <2>3, <2>4 DEF WorkerStep, SendRunTest, ReceiveClosed, Deadline
<1> QED
  BY <1>1, <1>2, <1>3, NextCases, ReaderFrame, NodeFrame

-----------------------------------------------------------------------------
(***************************************************************************)
(* EarnedInv.                                                              *)
(***************************************************************************)
\* The verdict was there before: its reasons stay.
LEMMA EarnedKept ==
  ASSUME TypeOK, EarnedInv, [Next]_vars,
         UNCHANGED <<verdict, owned, hello>>,
         \A n \in Node : worker[n] = "done" => worker'[n] = "done" /\ res'[n] = res[n]
  PROVE  EarnedInv'
<1>1. ASSUME NEW n \in Node
      PROVE  /\ ReadTest(n) => ReadTest(n)'
             /\ Said(n, Compatible) => Said(n, Compatible)'
             /\ Said(n, NotImplemented) => Said(n, NotImplemented)'
  BY HistoryStays, Verdicts
<1>2. CompatibleIsEarned'
  BY <1>1 DEF EarnedInv, CompatibleIsEarned
<1>3. SkipHasCause'
  BY <1>1 DEF EarnedInv, SkipHasCause
<1> QED
  BY <1>2, <1>3 DEF EarnedInv

\* A return before the test was started.
LEMMA EarnedEarly ==
  ASSUME NEW v \in {NotImplemented, ConflictingBy1}, Return(v),
         v = NotImplemented => owned # Node \/ \E n \in Node : hello'[n] = "stub"
  PROVE  EarnedInv'
<1>1. verdict' = v /\ owned' = owned
  BY DEF Return
<1>2. v.status # "compatible"
  BY DEF NotImplemented, ConflictingBy1
<1>3. v.status = "not_implemented" => v = NotImplemented
  BY DEF NotImplemented, ConflictingBy1
<1> QED
  BY <1>1, <1>2, <1>3 DEF EarnedInv, CompatibleIsEarned, SkipHasCause

LEMMA EarnedStep == IInv /\ [Next]_vars => EarnedInv'
<1> SUFFICES ASSUME IInv, [Next]_vars PROVE EarnedInv'
  OBVIOUS
<1> USE DEF IInv
<1>1. ASSUME UNCHANGED <<verdict, owned, hello, worker, res>> PROVE EarnedInv'
  BY <1>1, EarnedKept
<1>2. CASE MainStep
  <2>1. res' = res
    BY <1>2, MainFrame
  <2>2. Starting => owned # Node
    BY DEF PhaseInv, Node
  <2>3. \A err : StartupVerdict(err) \in {NotImplemented, ConflictingBy1}
    BY StartupIsVerdict
  <2>4. CASE Starting /\ \E err : Return(StartupVerdict(err))
    BY <2>2, <2>3, <2>4, EarnedEarly
  <2>5. CASE verdict = None /\ UNCHANGED verdict
    BY <2>5 DEF None, EarnedInv, CompatibleIsEarned, SkipHasCause
  <2>6. CASE Spawn \/ SpawnFails \/ AwaitLine \/ AwaitClosed \/ AwaitTimeout
    <3>1. Starting /\ verdict = None
      BY <2>6 DEF Spawn, SpawnFails, AwaitLine, AwaitClosed, AwaitTimeout, Main, Starting,
                  PhaseInv, Closing
    <3> QED
      BY <2>4, <2>5, <2>6, <3>1 DEF Spawn, SpawnFails, AwaitLine, AwaitClosed, AwaitTimeout
  <2>7. CASE CheckStub
    <3>1. verdict = None /\ hello' = hello
      BY <2>7 DEF CheckStub, Main, PhaseInv, Closing
    <3>2. CASE (\E n \in Node : hello[n] = "stub") /\ Return(NotImplemented)
      BY <3>1, <3>2, EarnedEarly
    <3> QED
      BY <2>5, <2>7, <3>1, <3>2 DEF CheckStub
  <2>8. CASE Bootstrap
    <3>1. verdict = None
      BY <2>8 DEF Bootstrap, Main, PhaseInv, Closing
    <3>2. CASE Return(ConflictingBy1)
      <4>1. ConflictingBy1 # NotImplemented
        BY DEF ConflictingBy1, NotImplemented
      <4> QED BY <3>2, <4>1, EarnedEarly
    <3> QED
      BY <2>5, <2>8, <3>1, <3>2 DEF Bootstrap
  <2>9. CASE Collect
    <3> DEFINE a == res["A"]
               b == res["B"]
               v == classifyResults(a, b)
    <3>1. /\ verdict' = v /\ owned' = owned /\ hello' = hello /\ worker' = worker
          /\ pc = "collect" /\ \A n \in Node : worker[n] = "done"
      BY <2>9 DEF Collect, Return, Main, channelVars
    <3>2. owned = Node
      BY <3>1 DEF PhaseInv, Wired
    <3>3. ASSUME NEW n \in Node
          PROVE  /\ res[n] \in Answer
                 /\ \/ res[n] \in {HarnessTimeout, IPCError}
                    \/ res[n] \in OwnAnswers /\ Said(n, res[n]) /\ Said(n, res[n])'
      <4>1. res[n] \in {HarnessTimeout, IPCError} \/ (res[n] \in OwnAnswers /\ Said(n, res[n]))
        BY <3>1 DEF AnswerInv
      <4>2. res[n] \in Answer
        BY <4>1, Verdicts, OwnAnswersType
      <4>3. Said(n, res[n]) => Said(n, res[n])'
        <5>1. \A x \in Answer : Said(n, x) => Said(n, x)'
          BY HistoryStays
        <5> QED BY <2>1, <4>2, <5>1 DEF Said
      <4> QED BY <4>1, <4>2, <4>3
    <3>4. HarnessTimeout.status = "timeout" /\ IPCError.status = "error"
      BY DEF HarnessTimeout, IPCError
    <3>5. ASSUME v.status = "compatible", NEW n \in Node
          PROVE  ReadTest(n)' /\ Said(n, Compatible)'
      <4>1. res[n].exit = 0 /\ res[n].status \notin {"timeout", "error"}
        BY <3>3, <3>5, CompatibleNeedsBoth DEF Node
      <4>2. res[n] = Compatible /\ Said(n, Compatible) /\ Said(n, Compatible)'
        BY <2>1, <3>3, <3>4, <4>1, OwnAnswersType DEF Said
      <4>3. ReadTest(n)
        <5>1. PICK k \in 1..rcv[n] : stdout[n][k] = ResultLine(Compatible)
          BY <4>2 DEF Said
        <5>2. k \in 1..Len(stdout[n])
          BY PipeType
        <5>3. stdout[n][k].type = "result"
          BY <5>1 DEF ResultLine
        <5> QED
          BY <5>2, <5>3 DEF LinesInv
      <4> QED
        BY <4>2, <4>3, HistoryStays
    <3>6. CompatibleIsEarned'
      BY <3>1, <3>2, <3>5 DEF CompatibleIsEarned
    <3>7. ASSUME v.status = "not_implemented"
          PROVE  \/ \E n \in Node : Said(n, NotImplemented)'
                 \/ \A n \in Node : res[n] = HarnessTimeout
      <4>1. \/ \E n \in Node : res[n].status = "not_implemented"
            \/ \A n \in Node : res[n].status = "timeout"
        BY <3>7 DEF classifyResults, ConflictingBy1, ConflictingBy3, Node
      <4>2. CASE \E n \in Node : res[n].status = "not_implemented"
        <5>1. PICK n \in Node : res[n].status = "not_implemented"
          BY <4>2
        <5>2. res[n] \in OwnAnswers /\ Said(n, res[n])'
          BY <3>3, <3>4, <5>1
        <5>3. res[n] = NotImplemented
          BY <5>1, <5>2, OwnAnswersType
        <5> QED
          BY <2>1, <5>2, <5>3 DEF Said
      <4>3. CASE \A n \in Node : res[n].status = "timeout"
        BY <3>3, <3>4, <4>3, OwnAnswersType
      <4> QED BY <4>1, <4>2, <4>3
    <3>8. SkipHasCause'
      BY <2>1, <3>1, <3>7 DEF SkipHasCause
    <3> QED
      BY <3>6, <3>8 DEF EarnedInv
  <2>10. CASE CloseSend \/ CloseWait
    BY <1>1, <2>1, <2>10 DEF CloseSend, CloseWait, channelVars
  <2> QED
    BY <1>2, <2>6, <2>7, <2>8, <2>9, <2>10 DEF MainStep
<1>3. CASE \E n \in Node : WorkerStep(n)
  <2>1. verdict = None /\ UNCHANGED verdict
    BY <1>3, WorkerPhase, WorkerFrame
  <2> QED
    BY <2>1 DEF None, EarnedInv, CompatibleIsEarned, SkipHasCause
<1> QED
  BY <1>1, <1>2, <1>3, NextCases, ReaderFrame, NodeFrame

-----------------------------------------------------------------------------
(***************************************************************************)
(* The invariant of the session.                                           *)
(***************************************************************************)
LEMMA IInvInit == Init => IInv
<1> SUFFICES ASSUME Init PROVE IInv
  OBVIOUS
<1>1. LinesInv /\ AnswerInv
  BY DEF Init, LinesInv, AnswerInv, Node
<1>2. EarnedInv
  BY DEF Init, None, EarnedInv, CompatibleIsEarned, SkipHasCause
<1> QED
  BY <1>1, <1>2, InitType, PhaseInit DEF IInv

LEMMA IInvStep == IInv /\ [Next]_vars => IInv'
  BY NextType, PhaseStep, LinesStep, AnswerStep, EarnedStep DEF IInv

LEMMA IInvAlways == Spec => []IInv
  BY IInvInit, IInvStep, PTL DEF Spec

\* "compatible" is never reported for a pair unless both nodes were started,
\* read the run_test command, and said compatible, whatever crashes, hangs,
\* timeouts and late lines come in between.
THEOREM CompatibleEarned == Spec => []CompatibleIsEarned
  BY IInvAlways, PTL DEF IInv, EarnedInv

\* "not_implemented" is never reported without a cause on the list: it
\* hides no conflict that a participating node reported.
THEOREM SkipJustified == Spec => []SkipHasCause
  BY IInvAlways, PTL DEF IInv, EarnedInv

-----------------------------------------------------------------------------
(***************************************************************************)
(* The verdict stands.                                                     *)
(***************************************************************************)
LEMMA VerdictStep == IInv /\ [Next]_vars => [VerdictStands]_vars
<1> SUFFICES ASSUME IInv, [Next]_vars, verdict # None
             PROVE  /\ verdict' = verdict /\ res' = res
                    /\ \A n \in Node : sent'[n] # sent[n] => sent'[n] = Append(sent[n], "shutdown")
  BY DEF VerdictStands
<1>1. Closing
  BY DEF IInv, PhaseInv
<1>2. CASE MainStep
  <2>1. CloseSend \/ CloseWait
    BY <1>1, <1>2 DEF MainStep, Spawn, SpawnFails, AwaitLine, AwaitClosed, AwaitTimeout,
                      CheckStub, Bootstrap, Collect, Main, Closing
  <2>2. verdict' = verdict /\ res' = res
    BY <2>1 DEF CloseSend, CloseWait, channelVars
  <2>3. sent' = sent \/ Write(at, "shutdown")
    BY <2>1 DEF CloseSend, CloseWait
  <2>4. sent \in [Node -> Seq(Command)]
    BY DEF IInv, TypeOK
  <2> QED
    BY <2>2, <2>3, <2>4 DEF Write
<1>3. ~ \E n \in Node : WorkerStep(n)
  BY WorkerPhase DEF IInv
<1> QED
  BY <1>2, <1>3, NextCases, ReaderFrame, NodeFrame

\* After the verdict no answer is taken any more, the verdict does not
\* change, and the only command a node is still sent is shutdown.
THEOREM VerdictIsFinal == Spec => VerdictFinal
  BY IInvAlways, VerdictStep, PTL DEF Spec, VerdictFinal

-----------------------------------------------------------------------------
(***************************************************************************)
(* TestSession implements PairVerdict.                                     *)
(***************************************************************************)
\* The instance reads the definitions of Classify as this module does.
LEMMA SameClassify ==
  /\ Abstract!None = None /\ Abstract!Answer = Answer
  /\ Abstract!NotImplemented = NotImplemented /\ Abstract!ConflictingBy1 = ConflictingBy1
  /\ \A a, b : Abstract!classifyResults(a, b) = classifyResults(a, b)
<1>1. /\ Abstract!None = None
      /\ Abstract!NotImplemented = NotImplemented /\ Abstract!ConflictingBy1 = ConflictingBy1
      /\ Abstract!ConflictingBy3 = ConflictingBy3
  BY DEF Abstract!None, None, Abstract!NotImplemented, NotImplemented, Abstract!ConflictingBy1,
         ConflictingBy1, Abstract!ConflictingBy3, ConflictingBy3
<1>2. Abstract!Answer = Answer
  BY DEF Abstract!Answer, Answer, Abstract!NodeStatus, NodeStatus, Abstract!Reported, Reported,
         Abstract!ExitCode, ExitCode
<1>3. \A a, b : Abstract!classifyResults(a, b) = classifyResults(a, b)
  BY <1>1 DEF Abstract!classifyResults, classifyResults
<1> QED
  BY <1>1, <1>2, <1>3

LEMMA RefinesInit == Init => Abstract!Init
  BY SameClassify DEF Init, Abstract!Init

\* A return before any worker ran is the abstract GiveUp.
LEMMA RefinesGiveUp ==
  ASSUME IInv, verdict = None, pc # "collect", UNCHANGED res,
         NEW v \in {NotImplemented, ConflictingBy1}, Return(v)
  PROVE  Abstract!Next
<1>1. \A n \in Node : res[n] = None
  <2>1. pc \in Step
    BY DEF IInv, TypeOK
  <2>2. \A n \in Node : worker[n] = "idle"
    BY <2>1 DEF IInv, PhaseInv, Closing, Starting, Step
  <2> QED BY <2>2 DEF IInv, AnswerInv
<1>2. verdict' \in {NotImplemented, ConflictingBy1}
  BY DEF Return
<1> QED
  BY <1>1, <1>2, SameClassify DEF Abstract!Next, Abstract!GiveUp

LEMMA RefinesStep == IInv /\ [Next]_vars => [Abstract!Next]_(Abstract!vars)
<1> SUFFICES ASSUME IInv, [Next]_vars PROVE [Abstract!Next]_(Abstract!vars)
  OBVIOUS
<1>1. CASE UNCHANGED <<res, verdict, pc>>
  BY <1>1 DEF Abstract!vars
<1>2. CASE MainStep
  <2>1. res' = res
    BY <1>2, MainFrame
  <2>2. \A err : StartupVerdict(err) \in {NotImplemented, ConflictingBy1}
    BY StartupIsVerdict
  <2>3. CASE /\ pc \in {"start", "await", "check", "bootstrap"}
             /\ \E v \in {NotImplemented, ConflictingBy1} : Return(v)
    <3>1. verdict = None
      BY <2>3 DEF IInv, PhaseInv, Closing
    <3> QED BY <2>1, <2>3, <3>1, RefinesGiveUp
  <2>4. CASE verdict' = verdict /\ pc # "return" /\ pc' # "return"
    BY <2>1, <2>4 DEF Abstract!vars
  <2>5. CASE Spawn \/ SpawnFails \/ AwaitLine \/ AwaitClosed \/ AwaitTimeout
    <3>1. pc \in {"start", "await"}
      BY <2>5 DEF Spawn, SpawnFails, AwaitLine, AwaitClosed, AwaitTimeout, Main
    <3> QED
      BY <2>2, <2>3, <2>4, <2>5, <3>1
         DEF Spawn, SpawnFails, AwaitLine, AwaitClosed, AwaitTimeout, GoTo
  <2>6. CASE CheckStub \/ Bootstrap
    BY <2>3, <2>4, <2>6 DEF CheckStub, Bootstrap, Main, GoTo
  <2>7. CASE Collect
    <3>1. /\ pc = "collect" /\ \A n \in Node : worker[n] = "done"
          /\ verdict' = classifyResults(res["A"], res["B"]) /\ Unwind(owned)
      BY <2>7 DEF Collect, Main, Return
    <3>2. owned = Node /\ verdict = None
      BY <3>1 DEF IInv, PhaseInv, Wired, Closing
    <3>3. \A n \in Node : res[n] # None
      BY <3>1 DEF IInv, AnswerInv
    <3>4. pc' # "return"
      BY <3>1, <3>2 DEF Unwind, GoTo, Node
    <3> QED
      BY <2>1, <3>1, <3>2, <3>3, <3>4, SameClassify DEF Abstract!Next, Abstract!Decide
  <2>8. CASE CloseSend
    BY <2>4, <2>8 DEF CloseSend, Main, GoTo
  <2>9. CASE CloseWait
    <3>1. verdict # None /\ verdict' = verdict /\ pc # "return"
      BY <2>9 DEF CloseWait, Main, IInv, PhaseInv, Closing
    <3>2. CASE pc' = "return"
      BY <2>1, <3>1, <3>2, SameClassify DEF Abstract!Next, Abstract!Return
    <3> QED
      BY <2>4, <3>1, <3>2
  <2> QED
    BY <1>2, <2>5, <2>6, <2>7, <2>8, <2>9 DEF MainStep
<1>3. CASE \E n \in Node : WorkerStep(n)
  <2>1. PICK n \in Node : WorkerStep(n)
    BY <1>3
  <2>2. /\ verdict = None /\ verdict' = verdict /\ pc' = pc
    BY <2>1, WorkerPhase, WorkerFrame DEF IInv
  <2>3. ASSUME NEW a \in Answer, Answered(n, a), worker[n] # "done"
        PROVE  Abstract!Next
    <3>1. res[n] = None
      BY <2>3 DEF IInv, AnswerInv
    <3> QED
      BY <2>2, <2>3, <3>1, SameClassify DEF Answered, Abstract!Next, Abstract!AnswerFor
  <2>4. worker[n] # "done"
    BY <2>1 DEF WorkerStep, SendRunTest, ReceiveLine, ReceiveClosed, Deadline, Working
  <2>5. CASE res' = res
    BY <1>1, <2>2, <2>5
  <2>6. CASE ReceiveLine(n)
    <3>1. parseResultLine(stdout[n][rcv[n] + 1]) \in Answer \cup {None}
      BY <2>6, ReceiveType, ParseType DEF ReceiveLine, IInv
    <3> QED
      BY <2>3, <2>4, <2>5, <2>6, <3>1 DEF ReceiveLine
  <2> QED
    BY <2>1, <2>3, <2>4, <2>5, <2>6, Verdicts
       DEF WorkerStep, SendRunTest, ReceiveClosed, Deadline
<1> QED
  BY <1>1, <1>2, <1>3, NextCases, ReaderFrame, NodeFrame

\* With processes, pipes and goroutines hidden, a run is a PairVerdict: one
\* answer per side at most, one verdict, taken from both or from none.
THEOREM SessionImplementsPairVerdict == Spec => ImplementsPairVerdict
  BY RefinesInit, RefinesStep, IInvAlways, PTL
     DEF Spec, ImplementsPairVerdict, Abstract!Spec

-----------------------------------------------------------------------------
(***************************************************************************)
(* The order of the commands.                                              *)
(***************************************************************************)
\* A bootstrap command in a pipe stays there; who has a port is settled
\* before the first one is written.
LEMMA BootstrappedStays ==
  ASSUME TypeOK, [Next]_vars, hello' = hello,
         NEW m \in Node, NEW j \in 1..Len(sent[m]), Bootstrapped(m, j)
  PROVE  Bootstrapped(m, j)'
<1>1. Extends(sent[m], sent'[m]) /\ Len(sent[m]) \in Nat
  BY SentGrows, PipeType
<1> QED
  BY <1>1 DEF Bootstrapped, HasPort, Extends

LEMMA BootstrappedLonger ==
  ASSUME TypeOK, [Next]_vars, hello' = hello,
         NEW m \in Node, Bootstrapped(m, Len(sent[m]))
  PROVE  Bootstrapped(m, Len(sent[m]))'
<1>1. Extends(sent[m], sent'[m]) /\ Len(sent[m]) \in Nat
  BY SentGrows, PipeType
<1>2. TypeOK'
  BY NextType
<1>3. Len(sent'[m]) \in Nat
  BY <1>2 DEF TypeOK
<1> QED
  BY <1>1, <1>3 DEF Bootstrapped, HasPort, Extends

OrderedAt(n, k) ==
  sent[n][k] = "run_test" => worker[n] # "idle" /\ Bootstrapped(n, k)

\* The commands written so far are in order, and the next one is.
LEMMA OrderedGrows ==
  ASSUME TypeOK, [Next]_vars, hello' = hello,
         \A m \in Node : worker[m] # "idle" => worker'[m] # "idle",
         \A m \in Node : \A k \in 1..Len(sent[m]) : OrderedAt(m, k),
         NEW n \in Node, NEW cmd \in Command,
         sent' = sent \/ Write(n, cmd),
         cmd = "run_test" => worker'[n] # "idle" /\ Bootstrapped(n, Len(sent[n]))
  PROVE  \A m \in Node : \A k \in 1..Len(sent'[m]) : OrderedAt(m, k)'
<1> SUFFICES ASSUME NEW m \in Node, NEW k \in 1..Len(sent'[m]) PROVE OrderedAt(m, k)'
  OBVIOUS
<1>1. sent \in [Node -> Seq(Command)]
  BY DEF TypeOK
<1>2. CASE k \in 1..Len(sent[m])
  <2>1. sent'[m][k] = sent[m][k]
    BY <1>2, SentGrows DEF Extends
  <2>2. OrderedAt(m, k)
    BY <1>2
  <2> QED
    BY <1>2, <2>1, <2>2, BootstrappedStays DEF OrderedAt
<1>3. CASE k \notin 1..Len(sent[m])
  <2>1. sent' = [sent EXCEPT ![n] = Append(@, cmd)]
    BY <1>3 DEF Write
  <2>2. /\ m = n /\ k = Len(sent[n]) + 1 /\ sent'[n][k] = cmd
        /\ Len(sent[n]) \in Nat
        /\ \A j \in 1..Len(sent[n]) : sent'[n][j] = sent[n][j]
    <3>1. /\ \A x \in Node \ {n} : sent'[x] = sent[x]
          /\ Len(sent[n]) \in Nat /\ Len(sent'[n]) = Len(sent[n]) + 1
          /\ sent'[n][Len(sent'[n])] = cmd
          /\ \A j \in 1..Len(sent[n]) : sent'[n][j] = sent[n][j]
      BY <1>1, <2>1, GrowFacts
    <3> QED BY <1>3, <3>1
  <2>3. Bootstrapped(n, Len(sent[n])) => Bootstrapped(n, k)'
    BY <2>2 DEF Bootstrapped, HasPort
  <2> QED
    BY <2>2, <2>3 DEF OrderedAt
<1> QED
  BY <1>2, <1>3

LEMMA OrderStep == IInv /\ OrderInv /\ [Next]_vars => OrderInv'
<1> SUFFICES ASSUME IInv, OrderInv, [Next]_vars PROVE OrderInv'
  OBVIOUS
<1> USE DEF IInv
<1>1. \A n \in Node : \A k \in 1..Len(sent[n]) : OrderedAt(n, k)
  BY DEF OrderInv, OrderedAt
<1>2. PICK b \in Node : b = at
  BY DEF TypeOK
<1>3. sent \in [Node -> Seq(Command)] /\ worker \in [Node -> {"idle", "send", "wait", "done"}]
  BY DEF TypeOK
<1>4. ASSUME \A n \in Node : \A k \in 1..Len(sent'[n]) : OrderedAt(n, k)',
             pc' = "bootstrap" /\ at' = "A" => Bootstrapped("B", Len(sent["B"]))',
             \A n \in Node : worker'[n] # "idle" =>
               \A m \in Node : Bootstrapped(m, Len(sent[m]))'
      PROVE  OrderInv'
  BY <1>4 DEF OrderInv, OrderedAt
\* Steps that write no command and start no worker.
<1>5. ASSUME UNCHANGED <<hello, sent>>,
             pc' = "bootstrap" /\ at' = "A" => pc = "bootstrap" /\ at = "A",
             \A m \in Node : worker[m] = "idle" <=> worker'[m] = "idle"
      PROVE  OrderInv'
  BY <1>5 DEF OrderInv, Bootstrapped, HasPort
<1>6. CASE MainStep
  <2>1. ASSUME NEW v, Return(v), UNCHANGED <<hello, sent, worker>>
        PROVE  OrderInv'
    <3>1. pc' # "bootstrap"
      BY <2>1 DEF Return, Unwind, GoTo
    <3> QED BY <1>5, <2>1, <3>1
  <2>2. CASE Spawn \/ CloseWait
    BY <1>5, <2>2 DEF Spawn, CloseWait, GoTo, channelVars
  <2>3. CASE SpawnFails \/ AwaitClosed \/ AwaitTimeout \/ Collect
    BY <2>1, <2>3 DEF SpawnFails, AwaitClosed, AwaitTimeout, Collect, channelVars
  <2>4. CASE AwaitLine
    <3>1. /\ \A n \in Node : worker'[n] = "idle" /\ worker[n] = "idle"
          /\ sent' = sent /\ pc' # "bootstrap"
      BY <2>4 DEF AwaitLine, Main, Starting, PhaseInv, Return, Unwind, GoTo
    <3>2. \A n \in Node : \A k \in 1..Len(sent[n]) : sent[n][k] # "run_test"
      BY <1>1, <3>1 DEF OrderedAt
    <3> QED
      BY <3>1, <3>2 DEF OrderInv
  <2>5. CASE CheckStub
    <3>1. UNCHANGED <<hello, sent, worker>>
      BY <2>5 DEF CheckStub, channelVars
    <3> QED
      BY <1>5, <2>1, <2>5, <3>1 DEF CheckStub, GoTo
  <2>6. CASE Bootstrap
    <3>1. hello' = hello /\ pc = "bootstrap" /\ \A n \in Node : worker[n] = "idle"
      BY <2>6 DEF Bootstrap, Main, PhaseInv
    <3>2. CASE Return(ConflictingBy1) /\ UNCHANGED <<sent, worker>>
      BY <2>1, <3>1, <3>2
    <3>3. CASE /\ IF HasPort(Peer(at)) THEN Write(at, "bootstrap") ELSE UNCHANGED sent
               /\ IF at = "B"
                    THEN GoTo("bootstrap", "A") /\ UNCHANGED worker
                    ELSE GoTo("collect", "A") /\ worker' = [n \in Node |-> "send"]
      <4>1. Bootstrapped(b, Len(sent[b]))'
        <5>1. CASE Write(b, "bootstrap")
          <6>1. /\ Len(sent[b]) \in Nat /\ Len(sent'[b]) = Len(sent[b]) + 1
                /\ sent'[b][Len(sent'[b])] = "bootstrap"
            BY <1>3, <5>1, GrowFacts DEF Write, Command
          <6> QED
            BY <6>1 DEF Bootstrapped
        <5>2. CASE ~HasPort(Peer(b))
          BY <3>1, <5>2 DEF Bootstrapped, HasPort
        <5> QED BY <1>2, <3>3, <5>1, <5>2
      <4>2. \A n \in Node : \A k \in 1..Len(sent'[n]) : OrderedAt(n, k)'
        BY <1>1, <1>2, <3>1, <3>3, OrderedGrows DEF Command
      <4>3. CASE at = "B"
        <5>1. \A n \in Node : worker'[n] = "idle"
          BY <3>1, <3>3, <4>3
        <5> QED
          BY <1>2, <1>4, <4>1, <4>2, <4>3, <5>1
      <4>4. CASE at = "A"
        <5>1. pc' # "bootstrap"
          BY <3>3, <4>4 DEF GoTo
        <5>2. Bootstrapped("B", Len(sent["B"]))
          BY <3>1, <4>4 DEF OrderInv
        <5>3. Bootstrapped("B", Len(sent["B"]))'
          BY <3>1, <5>2, BootstrappedLonger DEF Node
        <5>4. \A m \in Node : Bootstrapped(m, Len(sent[m]))'
          BY <1>2, <4>1, <4>4, <5>3 DEF Node
        <5> QED
          BY <1>4, <4>2, <5>1, <5>4
      <4> QED
        BY <1>2, <4>3, <4>4 DEF Node
    <3> QED
      BY <2>6, <3>2, <3>3 DEF Bootstrap
  <2>7. CASE CloseSend
    <3>1. /\ hello' = hello /\ worker' = worker /\ pc' = "wait"
          /\ sent' = sent \/ Write(b, "shutdown")
      BY <1>2, <2>7 DEF CloseSend, GoTo, channelVars
    <3>2. \A n \in Node : \A k \in 1..Len(sent'[n]) : OrderedAt(n, k)'
      BY <1>1, <3>1, OrderedGrows DEF Command
    <3>3. \A n \in Node : worker'[n] # "idle" => \A m \in Node : Bootstrapped(m, Len(sent[m]))'
      BY <3>1, BootstrappedLonger DEF OrderInv
    <3> QED
      BY <1>4, <3>1, <3>2, <3>3
  <2> QED
    BY <1>6, <2>2, <2>3, <2>4, <2>5, <2>6, <2>7 DEF MainStep
<1>7. CASE \E n \in Node : WorkerStep(n)
  <2>1. PICK n \in Node : WorkerStep(n)
    BY <1>7
  <2>2. /\ worker[n] # "idle" /\ worker'[n] # "idle"
        /\ \A m \in Node : worker[m] = "idle" <=> worker'[m] = "idle"
        /\ sent' = sent \/ Write(n, "run_test")
    BY <1>3, <2>1 DEF WorkerStep, SendRunTest, ReceiveLine, ReceiveClosed, Deadline, Working,
                      Answered
  <2>3. hello' = hello /\ pc' = pc /\ pc = "collect"
    BY <2>1, WorkerFrame, WorkerPhase
  <2>4. \A m \in Node : Bootstrapped(m, Len(sent[m]))
    BY <2>2 DEF OrderInv
  <2>5. \A m \in Node : \A k \in 1..Len(sent'[m]) : OrderedAt(m, k)'
    BY <1>1, <2>2, <2>3, <2>4, OrderedGrows DEF Command
  <2>6. \A m \in Node : Bootstrapped(m, Len(sent[m]))'
    BY <2>3, <2>4, BootstrappedLonger
  <2> QED
    BY <1>4, <2>3, <2>5, <2>6
<1>8. CASE UNCHANGED <<pc, at, hello, sent, worker>>
  BY <1>5, <1>8
<1> QED
  BY <1>6, <1>7, <1>8, NextCases, ReaderFrame, NodeFrame

LEMMA OrderAlways == Spec => [](IInv /\ OrderInv)
<1>1. Init => OrderInv
  BY DEF Init, OrderInv, Node
<1> QED
  BY <1>1, IInvInit, IInvStep, OrderStep, PTL DEF Spec

LEMMA OrderImplies == IInv /\ OrderInv => TestAfterBootstrap
<1> SUFFICES ASSUME IInv, OrderInv, NEW n \in Node, ReadTest(n)
             PROVE  Bootstrapped(n, got[n]) /\ Bootstrapped(Peer(n), Len(sent[Peer(n)]))
  BY DEF TestAfterBootstrap
<1>1. PICK k \in 1..got[n] : sent[n][k] = "run_test"
  BY DEF ReadTest
<1>2. /\ got[n] \in Nat /\ Len(sent[n]) \in Nat /\ got[n] <= Len(sent[n])
  BY PipeType DEF IInv
<1>3. worker[n] # "idle" /\ Bootstrapped(n, k)
  BY <1>1, <1>2 DEF OrderInv
<1> QED
  BY <1>1, <1>2, <1>3, PeerType DEF OrderInv, Bootstrapped

\* No node begins its feature test before it was told to bootstrap off its
\* peer and the reverse bootstrap is on its way to the peer.
THEOREM TestsAfterBootstrap == Spec => []TestAfterBootstrap
  BY OrderAlways, OrderImplies, PTL

-----------------------------------------------------------------------------
(***************************************************************************)
(* Who is alive.                                                           *)
(***************************************************************************)
Gone(n) == proc[n] \in {"absent", "dead"}

\* A node given up before it was owned prints and is read no more, or is
\* the one whose first line was refused: its channel has no receiver left.
LEMMA RefusedStays ==
  ASSUME TypeOK, [Next]_vars, NEW n \in Node, Refused(n), rcv'[n] = rcv[n]
  PROVE  Refused(n)'
<1>1. Extends(stdout[n], stdout'[n]) /\ Len(stdout[n]) \in Nat
  BY StdoutGrows, PipeType
<1>2. TypeOK'
  BY NextType
<1>3. Len(stdout'[n]) \in Nat
  BY <1>2 DEF TypeOK
<1> QED
  BY <1>1, <1>3 DEF Refused, Extends

LEMMA CloseStep == IInv /\ CloseInv /\ [Next]_vars => CloseInv'
<1> SUFFICES ASSUME IInv, CloseInv, [Next]_vars PROVE CloseInv'
  OBVIOUS
<1> USE DEF IInv
<1>1. PICK b \in Node : b = at
  BY DEF TypeOK
<1>2. /\ owned \subseteq Node /\ pc \in Step
      /\ proc \in [Node -> {"absent", "dead", "hung"} \cup Running]
      /\ rcv \in [Node -> Nat] /\ reaped \in [Node -> BOOLEAN] /\ closed \in [Node -> BOOLEAN]
  BY DEF TypeOK
<1>3. \A n \in Node : closed[n] \/ reaped[n] => proc[n] = "dead"
  BY DEF CloseInv
\* Steps of the other actors: the main thread stays where it is.
<1>4. ASSUME UNCHANGED <<pc, at, owned>>,
             \A n \in Node : closed'[n] \/ reaped'[n] => proc'[n] = "dead",
             \A n \in Node : proc[n] = "dead" => proc'[n] = "dead",
             \A n \in Node : proc[n] = "absent" => proc'[n] = "absent",
             pc # "collect" => rcv' = rcv
      PROVE  CloseInv'
  <2>1. \A n \in Node : pc # "collect" /\ Refused(n) => Refused(n)'
    BY <1>4, RefusedStays
  <2>2. Starting => "B" \in Node /\ at \in Node
    BY <1>1 DEF Node
  <2>3. /\ \A n \in Node : closed'[n] \/ reaped'[n] => proc'[n] = "dead"
        /\ pc' = "start" => proc'[at'] = "absent"
        /\ (Starting => (at = "A" => proc["B"] = "absent"))'
    BY <1>1, <1>4, <2>2 DEF CloseInv, Starting
  <2>7. ("B" \in owned => owned = Node)'
    BY <1>4 DEF CloseInv, Node
  <2>4. (Starting => rcv[at] = 0 /\ rcv["B"] = 0)'
    BY <1>4 DEF CloseInv, Starting
  <2>5. (Closing => \A n \in Node \ owned : proc[n] \in {"absent", "dead"} \/ Refused(n))'
    BY <1>4, <2>1 DEF CloseInv, Closing
  <2>6. /\ (pc \in {"close", "wait"} => at \in owned)'
        /\ (pc \in {"close", "wait"} /\ at = "A" /\ "B" \in owned => proc["B"] = "dead")'
        /\ (pc = "return" => \A n \in owned : proc[n] = "dead")'
    BY <1>2, <1>4 DEF CloseInv, Node
  <2> QED
    BY <2>3, <2>4, <2>5, <2>6, <2>7 DEF CloseInv, Node
<1>5. CASE MainStep
  <2>1. closed' = closed
    BY <1>5, MainFrame
  \* A return statement: the nodes that are not owned are gone or refused.
  <2>2. ASSUME NEW v, Return(v), UNCHANGED reaped,
               \A n \in Node : proc[n] = "dead" => proc'[n] = "dead",
               \A n \in Node \ owned : Gone(n)' \/ Refused(n)'
        PROVE  CloseInv'
    <3>1. owned' = owned /\ Unwind(owned)
      BY <2>2 DEF Return
    <3>2. \/ pc' = "close" /\ at' = "B" /\ "B" \in owned
          \/ pc' = "close" /\ at' = "A" /\ "A" \in owned /\ "B" \notin owned
          \/ pc' = "return" /\ owned = {}
      BY <1>2, <3>1 DEF Unwind, GoTo, Node
    <3> QED
      BY <1>3, <2>1, <2>2, <3>1, <3>2 DEF CloseInv, Starting, Closing, Gone
  <2>3. Starting => /\ owned = IF at = "A" THEN {} ELSE {"A"}
                    /\ at = "A" => proc["B"] = "absent"
                    /\ rcv[at] = 0 /\ rcv["B"] = 0
    BY DEF PhaseInv, CloseInv
  <2>4. CASE Spawn
    <3>1. /\ proc' = [proc EXCEPT ![at] = "init"] /\ pc = "start" /\ pc' = "await" /\ at' = at
          /\ UNCHANGED <<rcv, reaped, owned>>
      BY <2>4 DEF Spawn, Main, GoTo, channelVars
    <3>2. proc[at] = "absent"
      BY <3>1 DEF CloseInv
    <3>3. \A n \in Node : proc[n] = "dead" => proc'[n] = "dead"
      BY <1>2, <3>1, <3>2
    <3>4. at = "A" => proc'["B"] = "absent"
      BY <1>2, <2>3, <3>1 DEF Starting, Node
    <3> QED
      BY <1>3, <2>1, <2>3, <3>1, <3>3, <3>4 DEF CloseInv, Starting, Closing
  <2>5. CASE SpawnFails
    <3>1. /\ pc = "start" /\ UNCHANGED <<proc, reaped>>
          /\ \E err : Return(StartupVerdict(err))
      BY <2>5 DEF SpawnFails, Main, nodeVars
    <3>2. proc[at] = "absent"
      BY <3>1 DEF CloseInv
    <3>3. \A n \in Node \ owned : Gone(n)'
      BY <1>1, <2>3, <3>1, <3>2 DEF Starting, Gone, Node
    <3> QED
      BY <2>2, <3>1, <3>3
  <2>6. CASE AwaitLine
    <3> DEFINE line == stdout[at][rcv[at] + 1]
    <3>1. /\ pc = "await" /\ UNCHANGED <<proc, reaped, stdout>>
          /\ rcv[b] < fwd[b] /\ rcv' = [rcv EXCEPT ![b] = @ + 1]
      BY <1>1, <2>6 DEF AwaitLine, Main, nodeVars
    <3>2. rcv'[b] = 1 /\ 1 \in 1..Len(stdout[b]) /\ \A n \in Node \ {b} : rcv'[n] = rcv[n]
      <4>1. rcv[b] = 0
        BY <1>1, <2>3, <3>1 DEF Starting
      <4>2. rcv[b] + 1 \in 1..Len(stdout[b])
        BY <3>1, ReceiveType
      <4> QED BY <1>2, <3>1, <4>1, <4>2
    <3>3. CASE /\ line.type # "ready" /\ \E err : Return(StartupVerdict(err))
      <4>1. Refused(b)'
        <5>1. rcv[b] = 0
          BY <1>1, <2>3, <3>1 DEF Starting
        <5>2. stdout[b][1].type # "ready"
          BY <1>1, <3>3, <5>1
        <5>3. Len(stdout[b]) >= 1
          BY <3>2, PipeType
        <5> QED
          BY <3>1, <3>2, <5>2, <5>3 DEF Refused
      <4>2. \A n \in Node \ owned : Gone(n)' \/ Refused(n)'
        BY <1>1, <2>3, <3>1, <4>1 DEF Starting, Gone, Node
      <4> QED
        BY <2>2, <3>1, <3>3, <4>2
    <3>4. CASE /\ line.type = "ready" /\ owned' = owned \cup {at}
               /\ IF at = "A" THEN GoTo("start", "B") ELSE GoTo("check", "A")
      <4>1. CASE at = "A"
        <5>1. /\ pc' = "start" /\ at' = "B" /\ proc'["B"] = "absent" /\ rcv'["B"] = 0
          BY <1>1, <2>3, <3>1, <3>2, <3>4, <4>1 DEF GoTo, Starting, Node
        <5>2. owned' = {"A"}
          BY <2>3, <3>1, <3>4, <4>1 DEF Starting
        <5> QED
          BY <1>3, <2>1, <3>1, <5>1, <5>2 DEF CloseInv, Starting, Closing
      <4>2. CASE at # "A"
        <5>1. pc' = "check"
          BY <3>4, <4>2 DEF GoTo
        <5> QED
          BY <1>1, <1>3, <2>1, <2>3, <3>1, <3>4, <4>2, <5>1 DEF CloseInv, Starting, Closing, Node
      <4> QED BY <4>1, <4>2
    <3> QED
      BY <2>6, <3>3, <3>4 DEF AwaitLine
  <2>7. CASE AwaitClosed
    <3>1. /\ pc = "await" /\ closed[b] /\ UNCHANGED <<proc, reaped>>
          /\ \E err : Return(StartupVerdict(err))
      BY <1>1, <2>7 DEF AwaitClosed, Main, nodeVars
    <3>2. proc[b] = "dead"
      BY <1>3, <3>1
    <3>3. \A n \in Node \ owned : Gone(n)'
      BY <1>1, <2>3, <3>1, <3>2 DEF Starting, Gone, Node
    <3> QED
      BY <2>2, <3>1, <3>3
  <2>8. CASE AwaitTimeout
    <3>1. /\ pc = "await" /\ reaped' = reaped /\ proc' = [proc EXCEPT ![b] = "dead"]
          /\ \E err : Return(StartupVerdict(err))
      BY <1>1, <2>8 DEF AwaitTimeout, Main
    <3>2. \A n \in Node \ owned : Gone(n)'
      BY <1>1, <1>2, <2>3, <3>1 DEF Starting, Gone, Node
    <3>3. \A n \in Node : proc[n] = "dead" => proc'[n] = "dead"
      BY <1>2, <3>1
    <3> QED
      BY <2>2, <3>1, <3>2, <3>3
  <2>9. CASE CheckStub \/ Bootstrap \/ Collect
    <3>1. /\ Wired /\ UNCHANGED <<proc, reaped>>
          /\ (\E v : Return(v)) \/ pc' \in {"bootstrap", "collect"}
      BY <2>9 DEF CheckStub, Bootstrap, Collect, Main, Wired, GoTo, nodeVars
    <3>2. owned = Node
      BY <3>1 DEF PhaseInv
    <3>3. CASE pc' \in {"bootstrap", "collect"}
      <4>1. owned' = owned
        BY <2>9, <3>3 DEF CheckStub, Bootstrap, Collect, Return, Main
      <4> QED
        BY <1>3, <2>1, <3>1, <3>2, <3>3, <4>1 DEF CloseInv, Starting, Closing
    <3> QED
      BY <2>2, <3>1, <3>2, <3>3
  <2>10. CASE CloseSend
    <3>1. /\ pc = "close" /\ pc' = "wait" /\ at' = at
          /\ UNCHANGED <<proc, reaped, owned, rcv, stdout>>
      BY <2>10 DEF CloseSend, Main, GoTo, channelVars, nodeVars
    <3>2. \A n \in Node : Refused(n) => Refused(n)'
      BY <3>1 DEF Refused
    <3> QED
      BY <1>3, <2>1, <3>1, <3>2 DEF CloseInv, Starting, Closing
  <2>11. CASE CloseWait
    <3>1. /\ pc = "wait" /\ proc[b] = "dead" /\ reaped' = [reaped EXCEPT ![b] = TRUE]
          /\ IF at = "B" THEN GoTo("close", "A") ELSE GoTo("return", "A")
          /\ UNCHANGED <<proc, owned, rcv, stdout>>
      BY <1>1, <2>11 DEF CloseWait, Main, channelVars, nodeVars
    <3>2. \A n \in Node : Refused(n) => Refused(n)'
      BY <3>1 DEF Refused
    <3>3. \A n \in Node : closed'[n] \/ reaped'[n] => proc'[n] = "dead"
      BY <1>2, <1>3, <2>1, <3>1
    <3>4. (Closing => \A n \in Node \ owned : proc[n] \in {"absent", "dead"} \/ Refused(n))'
      BY <3>1, <3>2 DEF CloseInv, Closing
    <3>5. at = "B" => "A" \in owned
      BY <3>1 DEF CloseInv, Node
    <3>6. CASE at = "B"
      BY <1>1, <3>1, <3>3, <3>4, <3>5, <3>6 DEF GoTo, CloseInv, Starting
    <3>7. CASE at = "A"
      BY <1>1, <1>2, <3>1, <3>3, <3>4, <3>7 DEF GoTo, CloseInv, Starting, Node
    <3> QED
      BY <1>1, <3>6, <3>7 DEF Node
  <2> QED
    BY <1>5, <2>4, <2>5, <2>6, <2>7, <2>8, <2>9, <2>10, <2>11 DEF MainStep
<1>6. CASE \E n \in Node : WorkerStep(n)
  <2>1. pc = "collect" /\ UNCHANGED <<pc, at, owned, reaped, closed, proc>>
    BY <1>6, WorkerPhase, WorkerFrame
  <2> QED
    BY <1>3, <1>4, <2>1
<1>7. CASE \E n \in Node : ReaderStep(n)
  <2>1. PICK n \in Node : ReaderStep(n)
    BY <1>7
  <2>2. UNCHANGED <<pc, at, owned, reaped, proc, rcv>>
    BY <2>1, ReaderFrame
  <2>3. closed' = closed \/ (closed' = [closed EXCEPT ![n] = TRUE] /\ (reaped[n] \/ proc[n] = "dead"))
    BY <2>1 DEF ReaderStep, Scan, Forward, Quit, EndOfPipe
  <2>4. \A m \in Node : closed'[m] \/ reaped'[m] => proc'[m] = "dead"
    BY <1>2, <1>3, <2>2, <2>3
  <2> QED
    BY <1>4, <2>2, <2>4
<1>8. CASE \E n \in Node : NodeAct(n)
  <2>1. UNCHANGED <<pc, at, owned, reaped, closed, rcv>>
    BY <1>8, NodeFrame
  <2>2. \A n \in Node : /\ proc[n] = "dead" => proc'[n] = "dead"
                        /\ proc[n] = "absent" => proc'[n] = "absent"
    <3>1. PICK m \in Node : NodeAct(m)
      BY <1>8
    <3>2. /\ proc' = proc \/ \E end : proc' = [proc EXCEPT ![m] = end]
          /\ proc[m] \in Running
      BY <3>1 DEF NodeAct, NodeStep, NodeReady, NodeInitFails, NodeBootstrap, NodeRunTest,
                  NodeResult, NodeShutdown, NodeEOF, NodeStray, NodeFails, Emit, Reads, Running
    <3> QED
      BY <1>2, <3>2 DEF Running
  <2> QED
    BY <1>3, <1>4, <2>1, <2>2
<1>9. CASE UNCHANGED <<pc, at, owned, reaped, closed, proc, rcv>>
  BY <1>3, <1>4, <1>9
<1> QED
  BY <1>5, <1>6, <1>7, <1>8, <1>9, NextCases

LEMMA CloseInit == Init => CloseInv
  BY DEF Init, CloseInv, Starting, Closing, Node

(***************************************************************************)
(* A run that returned left no process behind but one whose first line was *)
(* no ready message (StartNode, Close). The invariant follows the nodes in *)
(* the order of the deferred Close calls: B is dead before A is closed,    *)
(* and a node that is not owned is gone or was refused.                    *)
(***************************************************************************)
THEOREM NoProcessLeaked == Spec => []NoLiveProcessLeft
<1>1. IInv /\ CloseInv => NoLiveProcessLeft
  BY DEF CloseInv, NoLiveProcessLeft, Refused, Closing, Running
<1>2. Spec => []IInv
  BY IInvAlways
<1> QED
  BY <1>1, <1>2, CloseInit, CloseStep, PTL DEF Spec

-----------------------------------------------------------------------------
(***************************************************************************)
(* Why a pair is called conflicting.                                       *)
(***************************************************************************)
Broke(n) == proc[n] = "dead" \/ \E k \in 1..rcv[n] : stdout[n][k].type = "error"

BreakInv == \A n \in Node : res[n] = IPCError => Broke(n)

\* A process that died stays dead.
LEMMA DeadStays ==
  ASSUME IInv, CloseInv, [Next]_vars, NEW n \in Node, proc[n] = "dead"
  PROVE  proc'[n] = "dead"
<1>0. /\ proc \in [Node -> {"absent", "dead", "hung"} \cup Running] /\ at \in Node
      /\ stdout \in [Node -> Seq(Line)]
  BY DEF IInv, TypeOK
<1>1. CASE MainStep
  <2>1. CASE Spawn
    <3>1. proc[at] = "absent" /\ proc' = [proc EXCEPT ![at] = "init"]
      BY <2>1 DEF Spawn, Main, CloseInv
    <3>2. n # at
      BY <3>1
    <3> QED
      BY <1>0, <3>1, <3>2
  <2>2. CASE AwaitTimeout
    <3>1. proc' = [proc EXCEPT ![at] = "dead"]
      BY <2>2 DEF AwaitTimeout
    <3> QED
      BY <1>0, <3>1
  <2>3. CASE SpawnFails \/ AwaitLine \/ AwaitClosed \/ CheckStub
    BY <2>3 DEF SpawnFails, AwaitLine, AwaitClosed, CheckStub, nodeVars
  <2>4. CASE Bootstrap \/ Collect \/ CloseSend \/ CloseWait
    BY <2>4 DEF Bootstrap, Collect, CloseSend, CloseWait, nodeVars
  <2> QED
    BY <1>1, <2>1, <2>2, <2>3, <2>4 DEF MainStep
<1>2. ASSUME NEW m \in Node, NodeAct(m) PROVE proc'[n] = "dead"
  BY <1>0, <1>2
     DEF NodeAct, NodeStep, NodeReady, NodeInitFails, NodeBootstrap, NodeRunTest, NodeResult,
         NodeShutdown, NodeEOF, NodeStray, NodeFails, Emit, Reads, Running
<1> QED
  BY <1>1, <1>2, NextCases, WorkerFrame, ReaderFrame

\* What died stays dead, and what was printed and received stays so.
LEMMA BrokeStays ==
  ASSUME IInv, CloseInv, [Next]_vars, NEW n \in Node, Broke(n)
  PROVE  Broke(n)'
<1>0. TypeOK
  BY DEF IInv
<1>1. ASSUME proc[n] = "dead" PROVE proc'[n] = "dead"
  BY <1>1, DeadStays
<1>2. ASSUME NEW k \in 1..rcv[n], stdout[n][k].type = "error"
      PROVE  k \in 1..rcv'[n] /\ stdout'[n][k].type = "error"
  <2>1. rcv[n] <= rcv'[n] /\ Extends(stdout[n], stdout'[n])
    BY <1>0, StdoutGrows, PositionsGrow
  <2>2. /\ rcv[n] \in Nat /\ fwd[n] \in Nat /\ Len(stdout[n]) \in Nat
        /\ rcv[n] <= fwd[n] /\ fwd[n] <= Len(stdout[n])
    BY <1>0, PipeType
  <2>3. rcv'[n] \in Nat
    BY <1>0, NextType, PipeType DEF TypeOK
  <2>4. k \in 1..rcv'[n] /\ k \in 1..Len(stdout[n])
    BY <2>1, <2>2, <2>3
  <2> QED
    BY <1>2, <2>1, <2>4 DEF Extends
<1> QED
  BY <1>1, <1>2 DEF Broke

LEMMA BreakStep == IInv /\ CloseInv /\ BreakInv /\ [Next]_vars => BreakInv'
<1> SUFFICES ASSUME IInv, CloseInv, BreakInv, [Next]_vars,
                    NEW n \in Node, res'[n] = IPCError
             PROVE  Broke(n)'
  BY DEF BreakInv
<1>0. TypeOK /\ res \in [Node -> Answer \cup {None}]
  BY DEF IInv, TypeOK
<1>1. CASE res'[n] = res[n]
  BY <1>1, BrokeStays DEF BreakInv
<1>2. ASSUME NEW m \in Node, WorkerStep(m), res'[n] # res[n] PROVE Broke(n)'
  <2>1. m = n /\ \E a : Answered(n, a)
    BY <1>0, <1>2 DEF WorkerStep, SendRunTest, ReceiveLine, ReceiveClosed, Deadline, Answered
  <2>2. CASE SendRunTest(n)
    <3>1. proc[n] = "dead"
      BY <1>2, <2>2 DEF SendRunTest, Writable
    <3> QED
      BY <3>1, BrokeStays DEF Broke
  <2>3. CASE ReceiveLine(n)
    <3>1. /\ res' = [res EXCEPT ![n] = parseResultLine(stdout[n][rcv[n] + 1])]
          /\ rcv' = [rcv EXCEPT ![n] = @ + 1] /\ stdout' = stdout
      BY <1>2, <2>3 DEF ReceiveLine, Answered, nodeVars
    <3>2. parseResultLine(stdout[n][rcv[n] + 1]) = IPCError /\ rcv[n] + 1 \in 1..Len(stdout[n])
      BY <1>0, <2>3, <3>1, ReceiveType DEF ReceiveLine
    <3>3. stdout[n][rcv[n] + 1].type = "error"
      <4>1. ASSUME stdout[n][rcv[n] + 1].type = "result" PROVE FALSE
        <5>1. PICK a \in OwnAnswers : stdout[n][rcv[n] + 1] = ResultLine(a)
          BY <3>2, <4>1 DEF IInv, LinesInv
        <5>2. parseResultLine(stdout[n][rcv[n] + 1]) = a
          BY <5>1 DEF parseResultLine, ResultLine
        <5> QED
          BY <3>2, <5>2, OwnAnswersType
      <4> QED
        BY <3>2, <4>1 DEF parseResultLine, IPCError, None
    <3>4. rcv[n] \in Nat /\ rcv'[n] = rcv[n] + 1
      BY <1>0, <3>1 DEF TypeOK
    <3> QED
      BY <3>1, <3>3, <3>4 DEF Broke
  <2>4. CASE ReceiveClosed(n)
    <3>1. proc[n] = "dead"
      BY <2>4 DEF ReceiveClosed, CloseInv
    <3> QED
      BY <3>1, BrokeStays DEF Broke
  <2>5. CASE Deadline(n)
    BY <1>0, <2>5 DEF Deadline, Answered, HarnessTimeout, IPCError
  <2> QED
    BY <1>2, <2>1, <2>2, <2>3, <2>4, <2>5 DEF WorkerStep
<1> QED
  BY <1>1, <1>2, NextCases, MainFrame, ReaderFrame, NodeFrame

LEMMA BreakAlways == Spec => [](IInv /\ CloseInv /\ BreakInv)
<1>1. Init => BreakInv
  BY DEF Init, BreakInv, None, IPCError
<1> QED
  BY <1>1, BreakStep, IInvAlways, CloseInit, CloseStep, PTL DEF Spec

(***************************************************************************)
(* An error line comes from a node that exits with it, or from a C node    *)
(* whose peer announced an unusable key: hello is not set twice.           *)
(***************************************************************************)
KeyError(n) == impl[n] = "c" /\ hello[Peer(n)] = "keyless"

HelloInv == Starting => hello[at] = "none" /\ (at = "A" => hello["B"] = "none")

ErrorInv ==
  \A n \in Node : \A k \in 1..Len(stdout[n]) :
    stdout[n][k].type = "error" => proc[n] = "dead" \/ KeyError(n)

LEMMA HelloStep == TypeOK /\ HelloInv /\ [Next]_vars => HelloInv'
<1> SUFFICES ASSUME TypeOK, HelloInv, [Next]_vars PROVE HelloInv'
  OBVIOUS
<1>1. CASE Spawn
  BY <1>1 DEF Spawn, Main, GoTo, HelloInv, Starting
<1>2. CASE AwaitLine
  <2>1. hello \in [Node -> Hello \cup {"none"}] /\ at \in Node
    BY DEF TypeOK
  <2>2. CASE \E v : Return(v)
    BY <2>2 DEF Return, Unwind, GoTo, HelloInv, Starting
  <2>3. CASE /\ \E h : hello' = [hello EXCEPT ![at] = h]
             /\ IF at = "A" THEN GoTo("start", "B") ELSE GoTo("check", "A")
    BY <1>2, <2>1, <2>3 DEF AwaitLine, Main, GoTo, HelloInv, Starting, Node
  <2> QED
    BY <1>2, <2>2, <2>3 DEF AwaitLine
<1>3. CASE SpawnFails \/ AwaitClosed \/ AwaitTimeout \/ Collect
  BY <1>3 DEF SpawnFails, AwaitClosed, AwaitTimeout, Collect, Return, Unwind, GoTo, HelloInv, Starting
<1>4. CASE CheckStub \/ Bootstrap \/ CloseSend \/ CloseWait
  BY <1>4 DEF CheckStub, Bootstrap, CloseSend, CloseWait, Return, Unwind, GoTo, HelloInv, Starting
<1>5. CASE UNCHANGED <<pc, at, hello>>
  BY <1>5 DEF HelloInv, Starting
<1> QED
  BY <1>1, <1>2, <1>3, <1>4, <1>5, NextCases, WorkerFrame, ReaderFrame, NodeFrame
     DEF MainStep, mainVars

LEMMA KeyErrorStays ==
  ASSUME TypeOK, HelloInv, [Next]_vars, NEW n \in Node, KeyError(n)
  PROVE  KeyError(n)'
<1>1. impl' = impl
  BY NextCases, MainFrame, WorkerFrame, ReaderFrame, NodeFrame
<1>2. hello' = hello \/ (Starting /\ \E h : hello' = [hello EXCEPT ![at] = h])
  BY NextCases, WorkerFrame, ReaderFrame, NodeFrame
     DEF MainStep, Spawn, SpawnFails, AwaitLine, AwaitClosed, AwaitTimeout, CheckStub,
         Bootstrap, Collect, CloseSend, CloseWait, Main, Starting, mainVars
<1>3. hello \in [Node -> Hello \cup {"none"}] /\ at \in Node /\ Peer(n) \in Node
  BY PeerType DEF TypeOK
<1>4. Starting => Peer(n) # at
  BY DEF KeyError, HelloInv
<1> QED
  BY <1>1, <1>2, <1>3, <1>4 DEF KeyError

\* The line a node prints, if it is an error.
LEMMA ErrorPrinted ==
  ASSUME TypeOK, NEW n \in Node, NodeAct(n)
  PROVE  \/ UNCHANGED stdout
         \/ \E line :
              /\ stdout' = [stdout EXCEPT ![n] = Append(@, line)]
              /\ line.type = "error" => proc'[n] = "dead" \/ KeyError(n)
<1>0. proc \in [Node -> {"absent", "dead", "hung"} \cup Running]
  BY DEF TypeOK
<1>1. CASE NodeInitFails(n)
  BY <1>0, <1>1 DEF NodeInitFails, Emit
<1>2. CASE NodeBootstrap(n)
  BY <1>2 DEF NodeBootstrap, Emit, KeyError
<1>3. CASE NodeReady(n)
  BY <1>3 DEF NodeReady, Emit, ReadyLine
<1>4. CASE NodeResult(n)
  BY <1>4 DEF NodeResult, Emit, ResultLine
<1>5. CASE NodeStray(n)
  BY <1>5 DEF NodeStray, Emit, NoiseLine
<1>6. CASE NodeRunTest(n) \/ NodeShutdown(n) \/ NodeEOF(n) \/ NodeFails(n)
  BY <1>6 DEF NodeRunTest, NodeShutdown, NodeEOF, NodeFails
<1> QED
  BY <1>1, <1>2, <1>3, <1>4, <1>5, <1>6 DEF NodeAct, NodeStep

LEMMA ErrorStep == IInv /\ CloseInv /\ HelloInv /\ ErrorInv /\ [Next]_vars => ErrorInv'
<1> SUFFICES ASSUME IInv, CloseInv, HelloInv, ErrorInv, [Next]_vars, NEW n \in Node,
                    NEW k \in 1..Len(stdout'[n]), stdout'[n][k].type = "error"
             PROVE  proc'[n] = "dead" \/ KeyError(n)'
  BY DEF ErrorInv
<1>0. TypeOK /\ stdout \in [Node -> Seq(Line)]
  BY DEF IInv, TypeOK
<1>1. CASE k \in 1..Len(stdout[n]) /\ stdout'[n][k] = stdout[n][k]
  BY <1>0, <1>1, DeadStays, KeyErrorStays DEF ErrorInv
<1>2. ASSUME NEW m \in Node, NEW line, NodeAct(m),
             stdout' = [stdout EXCEPT ![m] = Append(@, line)],
             line.type = "error" => proc'[m] = "dead" \/ KeyError(m)
      PROVE  proc'[n] = "dead" \/ KeyError(n)'
  <2>1. CASE m = n
    <3>1. stdout'[n] = Append(stdout[n], line) /\ stdout[n] \in Seq(Line)
      BY <1>0, <1>2, <2>1
    <3>2. (k \in 1..Len(stdout[n]) /\ stdout'[n][k] = stdout[n][k]) \/ stdout'[n][k] = line
      BY <3>1
    <3> QED
      BY <1>0, <1>1, <1>2, <2>1, <3>2, KeyErrorStays
  <2>2. CASE m # n
    BY <1>0, <1>1, <1>2, <2>2
  <2> QED
    BY <2>1, <2>2
<1>3. CASE UNCHANGED stdout
  BY <1>1, <1>3
<1> QED
  BY <1>0, <1>2, <1>3, NextCases, ErrorPrinted, MainFrame, WorkerFrame, ReaderFrame

LEMMA CauseAlways == Spec => [](IInv /\ BreakInv /\ ErrorInv)
<1>1. Init => HelloInv /\ ErrorInv
  BY DEF Init, HelloInv, ErrorInv, Node
<1>2. IInv => TypeOK
  BY DEF IInv
<1> QED
  BY <1>1, <1>2, HelloStep, ErrorStep, BreakAlways, PTL DEF Spec

(***************************************************************************)
(* No pair is called conflicting without a cause in its processes: the     *)
(* pipes, channels, timers and goroutines of the harness add none          *)
(* (runCompatTest, classifyResults).                                       *)
(***************************************************************************)
ConflictCaused ==
  verdict' # verdict /\ verdict'.status = "conflicting" =>
    \/ pc = "start"
    \/ \E n \in Node :
         \/ Said(n, ConflictingBy1) \/ Said(n, ConflictingBy3)
         \/ res[n] = HarnessTimeout /\ res[Peer(n)] # HarnessTimeout
         \/ BrokeOff(n)

LEMMA ConflictStep == IInv /\ BreakInv /\ ErrorInv /\ [Next]_vars => [ConflictCaused]_vars
<1> SUFFICES ASSUME IInv, BreakInv, ErrorInv, MainStep, verdict' # verdict,
                    verdict'.status = "conflicting"
             PROVE  ConflictCaused
  BY NextCases, WorkerFrame, ReaderFrame, NodeFrame DEF ConflictCaused
<1>1. CASE SpawnFails
  BY <1>1 DEF SpawnFails, Main, ConflictCaused
<1>2. CASE AwaitLine \/ AwaitClosed \/ AwaitTimeout
  BY <1>2 DEF AwaitLine, AwaitClosed, AwaitTimeout, Return, StartupVerdict,
              isStartupFailure, ReadyError, NotImplemented
<1>3. CASE CheckStub
  BY <1>3 DEF CheckStub, Return, NotImplemented
<1>4. CASE Bootstrap
  <2>1. pc = "bootstrap" /\ proc[at] = "dead" /\ at \in Node
    BY <1>4 DEF Bootstrap, Main, Writable, IInv, TypeOK
  <2>2. res[at] = None
    BY <2>1 DEF IInv, PhaseInv, AnswerInv
  <2> QED
    BY <2>1, <2>2 DEF ConflictCaused, BrokeOff
<1>5. CASE Collect
  <2>1. /\ classifyResults(res["A"], res["B"]).status = "conflicting"
        /\ \A n \in Node : worker[n] = "done"
    BY <1>5 DEF Collect, Return
  <2>2. ASSUME NEW n \in Node
        PROVE  \/ res[n] \in {HarnessTimeout, IPCError}
               \/ res[n] = Compatible \/ res[n] = NotImplemented
               \/ res[n] \in {ConflictingBy1, ConflictingBy3} /\ Said(n, res[n])
    BY <2>1 DEF IInv, AnswerInv, OwnAnswers
  <2>3. ASSUME NEW n \in Node, res[n] = IPCError PROVE ConflictCaused
    <3>1. CASE proc[n] = "dead"
      BY <2>3, <3>1 DEF BrokeOff, ConflictCaused
    <3>2. ASSUME NEW k \in 1..rcv[n], stdout[n][k].type = "error" PROVE ConflictCaused
      <4>1. k \in 1..Len(stdout[n])
        BY PipeType DEF IInv
      <4> QED
        BY <2>3, <3>1, <3>2, <4>1 DEF ErrorInv, KeyError, BrokeOff, ConflictCaused
    <3> QED
      BY <2>3, <3>1, <3>2 DEF BreakInv, Broke
  <2>4. CASE \E n \in Node : res[n] \in {ConflictingBy1, ConflictingBy3} /\ Said(n, res[n])
    BY <2>4 DEF ConflictCaused
  <2>5. CASE \A n \in Node : res[n] \in {HarnessTimeout, Compatible, NotImplemented}
    <3>1. \E n \in Node : res[n] = HarnessTimeout /\ res[Peer(n)] # HarnessTimeout
      BY <2>1, <2>5 DEF classifyResults, HarnessTimeout, Compatible, NotImplemented, Node, Peer
    <3> QED
      BY <3>1 DEF ConflictCaused
  <2> QED
    BY <2>2, <2>3, <2>4, <2>5
<1>6. CASE Spawn \/ CloseSend \/ CloseWait
  BY <1>6 DEF Spawn, CloseSend, CloseWait
<1> QED
  BY <1>1, <1>2, <1>3, <1>4, <1>5, <1>6 DEF MainStep

THEOREM ConflictsHaveCause == Spec => ConflictHasCause
<1>1. [ConflictCaused]_vars <=>
        [verdict' # verdict /\ verdict'.status = "conflicting" =>
           \/ pc = "start"
           \/ \E n \in Node :
                \/ Said(n, ConflictingBy1) \/ Said(n, ConflictingBy3)
                \/ res[n] = HarnessTimeout /\ res[Peer(n)] # HarnessTimeout
                \/ BrokeOff(n)]_vars
  BY DEF ConflictCaused
<1> QED
  BY <1>1, CauseAlways, ConflictStep, PTL DEF Spec, ConflictHasCause

-----------------------------------------------------------------------------
(***************************************************************************)
(* How much a node can print.                                              *)
(***************************************************************************)
LEMMA EmitCount ==
  ASSUME TypeOK, NEW n \in Node, NEW line \in Line, NEW next, Emit(n, line, next)
  PROVE  /\ \/ proc'[n] = next /\ Len(stdout'[n]) = Len(stdout[n]) + 1
            \/ proc'[n] = "dead" /\ Len(stdout'[n]) = Len(stdout[n])
         /\ \A m \in Node \ {n} : proc'[m] = proc[m] /\ stdout'[m] = stdout[m]
<1>1. stdout \in [Node -> Seq(Line)] /\ proc \in [Node -> {"absent", "dead", "hung"} \cup Running]
  BY DEF TypeOK
<1>2. CASE stdout' = [stdout EXCEPT ![n] = Append(@, line)] /\ proc' = [proc EXCEPT ![n] = next]
  <2>1. Len(stdout'[n]) = Len(stdout[n]) + 1 /\ \A m \in Node \ {n} : stdout'[m] = stdout[m]
    BY <1>1, <1>2, GrowFacts
  <2> QED
    BY <1>1, <1>2, <2>1
<1>3. CASE UNCHANGED stdout /\ proc' = [proc EXCEPT ![n] = "dead"]
  BY <1>1, <1>3
<1> QED
  BY <1>2, <1>3 DEF Emit

\* ... and what is in the pipe afterwards.
LEMMA EmitLines ==
  ASSUME TypeOK, NEW n \in Node, NEW line \in Line, NEW next, Emit(n, line, next)
  PROVE  \A m \in Node : \A k \in 1..Len(stdout'[m]) :
           \/ k \in 1..Len(stdout[m]) /\ stdout'[m][k] = stdout[m][k]
           \/ m = n /\ stdout'[m][k] = line
<1>1. stdout \in [Node -> Seq(Line)]
  BY DEF TypeOK
<1>2. CASE stdout' = [stdout EXCEPT ![n] = Append(@, line)]
  <2>1. /\ \A m \in Node : /\ Len(stdout[m]) \in Nat
                            /\ \A k \in 1..Len(stdout[m]) : stdout'[m][k] = stdout[m][k]
        /\ \A m \in Node \ {n} : stdout'[m] = stdout[m]
        /\ Len(stdout'[n]) = Len(stdout[n]) + 1 /\ stdout'[n][Len(stdout'[n])] = line
    BY <1>1, <1>2, GrowFacts
  <2>2. \A k \in 1..Len(stdout'[n]) : k \in 1..Len(stdout[n]) \/ k = Len(stdout'[n])
    BY <2>1
  <2> QED
    BY <2>1, <2>2
<1> QED
  BY <1>2 DEF Emit

LEMMA SilentSteps ==
  ASSUME \/ MainStep \/ HarnessEnds
         \/ \E n \in Node : \/ WorkerStep(n) \/ ReaderStep(n) \/ NodeFails(n)
                            \/ NodeRunTest(n) \/ NodeShutdown(n) \/ NodeEOF(n)
  PROVE  UNCHANGED stdout
<1>1. ASSUME NEW n \in Node,
             NodeFails(n) \/ NodeRunTest(n) \/ NodeShutdown(n) \/ NodeEOF(n)
      PROVE  UNCHANGED stdout
  BY <1>1 DEF NodeFails, NodeRunTest, NodeShutdown, NodeEOF
<1>2. CASE HarnessEnds
  BY <1>2 DEF HarnessEnds, nodeVars
<1> QED
  BY <1>1, <1>2, MainFrame, WorkerFrame, ReaderFrame

\* The lines a node prints outside its tests are no results, and a ready
\* one is of a kind its implementation has code for.
LEMMA OtherLines ==
  ASSUME TypeOK, NEW n \in Node, NodeReady(n) \/ NodeInitFails(n) \/ NodeBootstrap(n)
  PROVE  \/ UNCHANGED stdout
         \/ \E line \in Line, next \in {"loop", "dead"} :
              /\ Emit(n, line, next) /\ line.type # "result"
              /\ line.type = "ready" => line.hello \in Hellos(impl[n])
<1>1. impl[n] \in Impl
  BY PairsAssumption DEF TypeOK
<1>2. /\ \A h \in Hello : /\ ReadyLine(h) \in Line /\ ReadyLine(h).type # "result"
                          /\ ReadyLine(h).hello = h
      /\ ErrorLine \in Line /\ ErrorLine.type \notin {"result", "ready"}
  BY LineTypes DEF ReadyLine, ErrorLine
<1>3. CASE NodeReady(n)
  <2>1. PICK h \in Hellos(impl[n]) : Emit(n, ReadyLine(h), "loop")
    BY <1>3 DEF NodeReady
  <2> QED
    BY <1>1, <1>2, <2>1, ImplTypes
<1> QED
  BY <1>2, <1>3 DEF NodeInitFails, NodeBootstrap

\* What the harness knows of a node's ready message it has read in a line.
LEMMA HelloIsRead ==
  ASSUME TypeOK, [Next]_vars, NEW n \in Node
  PROVE  \/ hello'[n] = hello[n]
         \/ \E k \in 1..Len(stdout[n]) :
              stdout[n][k].type = "ready" /\ hello'[n] = stdout[n][k].hello
<1>1. CASE AwaitLine
  <2>1. \/ hello' = hello
        \/ /\ stdout[at][rcv[at] + 1].type = "ready" /\ rcv[at] < fwd[at]
           /\ hello' = [hello EXCEPT ![at] = stdout[at][rcv[at] + 1].hello]
    BY <1>1 DEF AwaitLine
  <2>2. /\ at \in Node /\ hello \in [Node -> Hello \cup {"none"}]
        /\ rcv[at] \in Nat /\ fwd[at] \in Nat /\ Len(stdout[at]) \in Nat
        /\ fwd[at] <= Len(stdout[at])
    BY PipeType DEF TypeOK
  <2>3. CASE n = at /\ hello' # hello
    <3>1. rcv[at] + 1 \in 1..Len(stdout[at])
      BY <2>1, <2>2, <2>3
    <3> QED
      BY <2>1, <2>2, <2>3, <3>1
  <2> QED
    BY <2>1, <2>2, <2>3
<1>2. CASE Spawn \/ SpawnFails \/ AwaitClosed \/ AwaitTimeout \/ CheckStub
  BY <1>2 DEF Spawn, SpawnFails, AwaitClosed, AwaitTimeout, CheckStub
<1>3. CASE Bootstrap \/ Collect \/ CloseSend \/ CloseWait
  BY <1>3 DEF Bootstrap, Collect, CloseSend, CloseWait
<1> QED
  BY <1>1, <1>2, <1>3, NextCases, WorkerFrame, ReaderFrame, NodeFrame DEF MainStep

\* A node's step costs it at most what it has read or may stray.
LEMMA NodePrints ==
  ASSUME TypeOK, NEW n \in Node, PrintBound(n), NodeAct(n)
  PROVE  PrintBound(n)' /\ \A m \in Node \ {n} : PrintBound(m) => PrintBound(m)'
<1>1. /\ got \in [Node -> Nat] /\ strays \in [Node -> Nat] /\ Len(stdout[n]) \in Nat
      /\ proc \in [Node -> {"absent", "dead", "hung"} \cup Running]
      /\ impl[n] \in Impl /\ MaxStray \in Nat
  BY PipeType, BoundsAssumption DEF TypeOK
<1>2. CASE NodeReady(n)
  <2>1. PICK h \in Hello : Emit(n, ReadyLine(h), "loop")
    BY <1>1, <1>2, ImplTypes DEF NodeReady
  <2>2. proc[n] = "init" /\ UNCHANGED <<got, strays>>
    BY <1>2 DEF NodeReady
  <2>3. /\ \/ proc'[n] = "loop" /\ Len(stdout'[n]) = Len(stdout[n]) + 1
           \/ proc'[n] = "dead" /\ Len(stdout'[n]) = Len(stdout[n])
        /\ \A m \in Node \ {n} : proc'[m] = proc[m] /\ stdout'[m] = stdout[m]
    BY <2>1, LineTypes, EmitCount
  <2> QED
    BY <1>1, <2>2, <2>3 DEF PrintBound
<1>3. CASE NodeInitFails(n)
  <2>1. proc[n] = "init" /\ UNCHANGED <<got, strays>> /\ Emit(n, ErrorLine, "dead")
    BY <1>3 DEF NodeInitFails
  <2>2. /\ \/ proc'[n] = "dead" /\ Len(stdout'[n]) = Len(stdout[n]) + 1
           \/ proc'[n] = "dead" /\ Len(stdout'[n]) = Len(stdout[n])
        /\ \A m \in Node \ {n} : proc'[m] = proc[m] /\ stdout'[m] = stdout[m]
    BY <2>1, LineTypes, EmitCount
  <2> QED
    BY <1>1, <2>1, <2>2 DEF PrintBound
<1>4. CASE NodeBootstrap(n)
  <2>1. /\ proc[n] = "loop" /\ got' = [got EXCEPT ![n] = @ + 1] /\ UNCHANGED strays
        /\ Emit(n, ErrorLine, "loop") \/ UNCHANGED <<proc, stdout>>
    BY <1>4 DEF NodeBootstrap, Reads
  <2>2. /\ Len(stdout'[n]) = Len(stdout[n]) \/ Len(stdout'[n]) = Len(stdout[n]) + 1
        /\ proc'[n] \in {"loop", "dead"}
        /\ \A m \in Node \ {n} : proc'[m] = proc[m] /\ stdout'[m] = stdout[m]
    BY <2>1, LineTypes, EmitCount
  <2>3. got'[n] = got[n] + 1 /\ \A m \in Node \ {n} : got'[m] = got[m]
    BY <1>1, <2>1
  <2> QED
    <3>1. PrintBound(n)'
      BY <1>1, <2>1, <2>2, <2>3 DEF PrintBound
    <3>2. ASSUME NEW m \in Node \ {n}, PrintBound(m) PROVE PrintBound(m)'
      BY <2>1, <2>2, <2>3, <3>2 DEF PrintBound
    <3> QED
      BY <3>1, <3>2
<1>5. CASE NodeRunTest(n)
  <2>1. /\ proc[n] = "loop" /\ got' = [got EXCEPT ![n] = @ + 1]
        /\ proc' = [proc EXCEPT ![n] = "test"] /\ UNCHANGED <<strays, stdout>>
    BY <1>5 DEF NodeRunTest, Reads
  <2> QED
    BY <1>1, <2>1 DEF PrintBound
<1>6. CASE NodeResult(n)
  <2>1. PICK a \in Answer : Emit(n, ResultLine(a), "loop")
    BY <1>1, <1>6, ImplTypes DEF NodeResult
  <2>2. proc[n] = "test" /\ UNCHANGED <<got, strays>>
    BY <1>6 DEF NodeResult
  <2>3. /\ \/ proc'[n] = "loop" /\ Len(stdout'[n]) = Len(stdout[n]) + 1
           \/ proc'[n] = "dead" /\ Len(stdout'[n]) = Len(stdout[n])
        /\ \A m \in Node \ {n} : proc'[m] = proc[m] /\ stdout'[m] = stdout[m]
    BY <2>1, LineTypes, EmitCount
  <2> QED
    BY <1>1, <2>2, <2>3 DEF PrintBound
<1>7. CASE NodeShutdown(n)
  <2>1. /\ proc[n] = "loop" /\ got' = [got EXCEPT ![n] = @ + 1]
        /\ proc' = [proc EXCEPT ![n] = "dead"] /\ UNCHANGED <<strays, stdout>>
    BY <1>7 DEF NodeShutdown, Reads
  <2> QED
    BY <1>1, <2>1 DEF PrintBound
<1>8. CASE NodeEOF(n) \/ NodeFails(n)
  <2>1. /\ \E end \in {"dead", "hung"} : proc' = [proc EXCEPT ![n] = end]
        /\ UNCHANGED <<got, strays, stdout>>
    BY <1>8 DEF NodeEOF, NodeFails
  <2> QED
    BY <1>1, <2>1 DEF PrintBound
<1>9. CASE NodeStray(n)
  <2>1. /\ proc[n] \in Running /\ strays[n] < MaxStray
        /\ strays' = [strays EXCEPT ![n] = @ + 1] /\ UNCHANGED got
        /\ Emit(n, NoiseLine, proc[n])
    BY <1>9 DEF NodeStray, HarnessVars
  <2>2. /\ \/ proc'[n] = proc[n] /\ Len(stdout'[n]) = Len(stdout[n]) + 1
           \/ proc'[n] = "dead" /\ Len(stdout'[n]) = Len(stdout[n])
        /\ \A m \in Node \ {n} : proc'[m] = proc[m] /\ stdout'[m] = stdout[m]
    BY <2>1, LineTypes, EmitCount
  <2>3. strays'[n] = strays[n] + 1 /\ \A m \in Node \ {n} : strays'[m] = strays[m]
    BY <1>1, <2>1
  <2> QED
    <3>1. PrintBound(n)'
      BY <1>1, <2>1, <2>2, <2>3 DEF PrintBound, Running
    <3>2. ASSUME NEW m \in Node \ {n}, PrintBound(m) PROVE PrintBound(m)'
      BY <2>1, <2>2, <2>3, <3>2 DEF PrintBound
    <3> QED
      BY <3>1, <3>2
<1> QED
  BY <1>2, <1>3, <1>4, <1>5, <1>6, <1>7, <1>8, <1>9 DEF NodeAct, NodeStep

LEMMA PrintStep ==
  ASSUME TypeOK, CloseInv, \A n \in Node : PrintBound(n), [Next]_vars
  PROVE  \A n \in Node : PrintBound(n)'
<1>1. CASE MainStep
  <2>1. UNCHANGED <<got, stdout, strays>>
    BY <1>1, MainFrame
  <2>2. /\ at \in Node /\ proc \in [Node -> {"absent", "dead", "hung"} \cup Running]
        /\ \A n \in Node : got[n] \in Nat /\ strays[n] \in Nat /\ Len(stdout[n]) \in Nat
    BY PipeType DEF TypeOK
  <2>3. \/ proc' = proc
        \/ proc[at] = "absent" /\ proc' = [proc EXCEPT ![at] = "init"]
        \/ proc' = [proc EXCEPT ![at] = "dead"]
    BY <1>1 DEF MainStep, Spawn, SpawnFails, AwaitLine, AwaitClosed, AwaitTimeout, CheckStub,
                Bootstrap, Collect, CloseSend, CloseWait, nodeVars, Main, CloseInv
  <2> QED
    BY <2>1, <2>2, <2>3 DEF PrintBound
<1>2. CASE \E n \in Node : NodeAct(n)
  BY <1>2, NodePrints
<1>3. CASE UNCHANGED <<proc, got, stdout, strays>>
  BY <1>3 DEF PrintBound
<1> QED
  BY <1>1, <1>2, <1>3, NextCases, WorkerFrame, ReaderFrame

\* At most three commands go to a node: its bootstrap, its test, its shutdown.
LEMMA SentStep ==
  ASSUME IInv, \A n \in Node : SentBound(n), [Next]_vars
  PROVE  \A n \in Node : SentBound(n)'
<1> USE DEF IInv
<1>1. /\ pc \in Step /\ at \in Node /\ sent \in [Node -> Seq(Command)]
      /\ worker \in [Node -> {"idle", "send", "wait", "done"}]
      /\ \A n \in Node : Len(sent[n]) \in Nat
  BY PipeType DEF TypeOK
<1>2. ASSUME UNCHANGED <<pc, at, sent, worker>> PROVE \A n \in Node : SentBound(n)'
  BY <1>2 DEF SentBound, Starting
<1>3. ASSUME NEW n \in Node, NEW cmd \in Command, Write(n, cmd)
      PROVE  /\ Len(sent'[n]) = Len(sent[n]) + 1
             /\ \A m \in Node \ {n} : sent'[m] = sent[m]
  BY <1>1, <1>3, GrowFacts DEF Write
<1>4. ASSUME NEW v, Return(v), \A n \in Node : Len(sent[n]) <= 2, UNCHANGED sent
      PROVE  \A n \in Node : SentBound(n)'
  <2>1. pc' \in {"close", "return"}
    BY <1>1, <1>4, UnwindType DEF Return, Unwind, GoTo
  <2> QED
    BY <1>1, <1>4, <2>1 DEF SentBound, Starting
<1>5. CASE MainStep
  <2>1. CASE Spawn \/ SpawnFails \/ AwaitLine \/ AwaitClosed \/ AwaitTimeout \/ CheckStub
    <3>1. UNCHANGED sent /\ (Starting \/ pc = "check")
      BY <2>1 DEF Spawn, SpawnFails, AwaitLine, AwaitClosed, AwaitTimeout, CheckStub, Main, Starting
    <3>2. \A n \in Node : Len(sent'[n]) = 0
      BY <3>1 DEF SentBound
    <3> QED
      BY <3>2 DEF SentBound
  <2>2. CASE Bootstrap
    <3>1. /\ pc = "bootstrap"
          /\ \A n \in Node : Len(sent[n]) <= IF at = "A" /\ n = "B" THEN 1 ELSE 0
      BY <2>2 DEF Bootstrap, Main, SentBound
    <3>2. CASE Return(ConflictingBy1) /\ UNCHANGED sent
      <4>1. \A n \in Node : Len(sent[n]) <= 2
        BY <1>1, <3>1
      <4> QED
        BY <1>4, <3>2, <4>1
    <3>3. CASE /\ Write(at, "bootstrap") \/ UNCHANGED sent
               /\ IF at = "B" THEN GoTo("bootstrap", "A")
                  ELSE GoTo("collect", "A") /\ worker' = [n \in Node |-> "send"]
      <4>1. \A n \in Node : Len(sent'[n]) <= Len(sent[n]) + IF n = at THEN 1 ELSE 0
        BY <1>1, <1>3, <3>3 DEF Command
      <4>2. \A n \in Node : Len(sent'[n]) \in Nat
        BY <1>1, <1>3, <3>3 DEF Command
      <4>3. CASE at = "B"
        <5>1. pc' = "bootstrap" /\ at' = "A"
          BY <3>3, <4>3 DEF GoTo
        <5> QED
          BY <1>1, <3>1, <4>1, <4>2, <4>3, <5>1 DEF SentBound, Starting, Node
      <4>4. CASE at = "A"
        <5>1. pc' = "collect" /\ \A n \in Node : worker'[n] = "send"
          BY <3>3, <4>4 DEF GoTo
        <5> QED
          BY <1>1, <3>1, <4>1, <4>2, <4>4, <5>1 DEF SentBound, Starting, Node
      <4> QED
        BY <1>1, <4>3, <4>4 DEF Node
    <3> QED
      BY <2>2, <3>2, <3>3 DEF Bootstrap
  <2>3. CASE Collect
    <3>1. pc = "collect" /\ UNCHANGED sent /\ Return(classifyResults(res["A"], res["B"]))
      BY <2>3 DEF Collect, Main
    <3>2. \A n \in Node : Len(sent[n]) <= 2
      BY <1>1, <3>1 DEF SentBound
    <3> QED
      BY <1>4, <3>1, <3>2
  <2>4. CASE CloseSend
    <3>1. /\ pc = "close" /\ pc' = "wait" /\ at' = at
          /\ Write(at, "shutdown") \/ UNCHANGED sent
      BY <2>4 DEF CloseSend, Main, GoTo
    <3>2. \A n \in Node : Len(sent'[n]) <= Len(sent[n]) + IF n = at THEN 1 ELSE 0
      BY <1>1, <1>3, <3>1 DEF Command
    <3>3. \A n \in Node : Len(sent'[n]) \in Nat
      BY <1>1, <1>3, <3>1 DEF Command
    <3> QED
      BY <1>1, <3>1, <3>2, <3>3 DEF SentBound, Starting, Node
  <2>5. CASE CloseWait
    <3>1. /\ pc = "wait" /\ UNCHANGED sent
          /\ IF at = "B" THEN GoTo("close", "A") ELSE GoTo("return", "A")
      BY <2>5 DEF CloseWait, Main
    <3> QED
      BY <1>1, <3>1 DEF SentBound, Starting, GoTo, Node
  <2> QED
    BY <1>5, <2>1, <2>2, <2>3, <2>4, <2>5 DEF MainStep
<1>6. CASE \E n \in Node : WorkerStep(n)
  <2>1. PICK n \in Node : WorkerStep(n)
    BY <1>6
  <2>2. pc = "collect" /\ UNCHANGED <<pc, at>>
    BY <2>1, WorkerPhase, WorkerFrame
  <2>3. CASE Write(n, "run_test")
    <3>1. Len(sent'[n]) = Len(sent[n]) + 1 /\ \A m \in Node \ {n} : sent'[m] = sent[m]
      BY <1>3, <2>3 DEF Command
    <3>2. sent' # sent
      BY <1>1, <3>1
    <3>3. worker[n] = "send" /\ worker' = [worker EXCEPT ![n] = "wait"]
      BY <2>1, <3>2
         DEF WorkerStep, SendRunTest, ReceiveLine, ReceiveClosed, Deadline, Working
    <3> QED
      BY <1>1, <2>2, <3>1, <3>3 DEF SentBound, Starting
  <2>4. CASE UNCHANGED sent /\ (worker' = worker \/ worker' = [worker EXCEPT ![n] = "done"])
    BY <1>1, <2>2, <2>4 DEF SentBound, Starting
  <2> QED
    BY <2>1, <2>3, <2>4
       DEF WorkerStep, SendRunTest, ReceiveLine, ReceiveClosed, Deadline, Answered
<1> QED
  BY <1>2, <1>5, <1>6, NextCases, ReaderFrame, NodeFrame

LEMMA BudgetAlways == Spec => [](IInv /\ CloseInv /\ BudgetInv)
<1>1. Init => BudgetInv
  BY BoundsAssumption DEF Init, BudgetInv, SentBound, PrintBound, Starting
<1>2. IInv /\ CloseInv /\ BudgetInv /\ [Next]_vars => BudgetInv'
  BY PrintStep, SentStep DEF BudgetInv, IInv
<1> QED
  BY <1>1, <1>2, IInvAlways, CloseInit, CloseStep, PTL DEF Spec

LEMMA FewLines ==
  ASSUME LinesCap > 4 + MaxStray, IInv, BudgetInv, NEW n \in Node
  PROVE  ~LinesFull(n)
<1>1. /\ rcv[n] \in Nat /\ fwd[n] \in Nat /\ got[n] \in Nat /\ Len(stdout[n]) \in Nat
      /\ Len(sent[n]) \in Nat /\ strays[n] \in Nat
      /\ fwd[n] <= Len(stdout[n]) /\ got[n] <= Len(sent[n])
  BY PipeType DEF IInv, TypeOK
<1>2. Len(sent[n]) <= 3 /\ strays[n] <= MaxStray /\ Len(stdout[n]) <= 1 + got[n] + strays[n]
  BY <1>1 DEF BudgetInv, SentBound, PrintBound
<1>3. MaxStray \in Nat /\ LinesCap \in Nat
  BY BoundsAssumption
<1>4. fwd[n] <= 4 + MaxStray
  BY <1>1, <1>2, <1>3
<1> QED
  BY <1>1, <1>3, <1>4 DEF LinesFull

(***************************************************************************)
(* A channel with room for the four lines of the protocol and the stray    *)
(* ones never fills, so the reader goroutine never parks on it and the     *)
(* node never meets a full pipe (initializeNodeIO: 256 lines, and the      *)
(* nodes of the repository print no stray line).                           *)
(***************************************************************************)
THEOREM ChannelNeverFills ==
  ASSUME LinesCap > 4 + MaxStray
  PROVE  Spec => []ReaderNeverBlocks
<1>1. IInv /\ BudgetInv => ReaderNeverBlocks
  BY FewLines DEF ReaderNeverBlocks
<1> QED
  BY <1>1, BudgetAlways, PTL

(***************************************************************************)
(* Nor can Close deadlock then: what the comment in Close says of the      *)
(* reader is true of every node that keeps to the protocol, for a pipe of  *)
(* any size (Close, initializeNodeIO).                                     *)
(***************************************************************************)
THEOREM CloseIsSafe ==
  ASSUME LinesCap > 4 + MaxStray
  PROVE  Spec => []CloseNeverDeadlocks
<1>1. IInv /\ BudgetInv => CloseNeverDeadlocks
  BY FewLines DEF CloseNeverDeadlocks, IInv, TypeOK
<1> QED
  BY <1>1, BudgetAlways, PTL
=============================================================================
