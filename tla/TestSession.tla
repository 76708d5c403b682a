---------------------------- MODULE TestSession -----------------------------
(***************************************************************************)
(* One (feature, pair) run of the compatibility matrix: runCompatTest in   *)
(* the harness process, the two node processes it starts, the pipes        *)
(* between them, and the goroutines that read the pipes and collect the    *)
(* answers.                                                                *)
(*                                                                         *)
(*   harness main thread   StartNode A, StartNode B, stub check, bootstrap *)
(*                         B and A, start the workers, collect, Close B,   *)
(*                         Close A, return                                 *)
(*   worker (per node)     RunTest: write run_test, wait for an answer     *)
(*   reader (per node)     copies stdout lines into the channel n.lines    *)
(*   node   (per node)     ready line, then one command at a time          *)
(*                                                                         *)
(* A pipe is the log of everything written to it with the reader's         *)
(* position in it, so that the properties can refer to what was said       *)
(* before. Commands are their names and lines carry only what the harness  *)
(* looks at.                                                               *)
(***************************************************************************)
EXTENDS Classify, Sequences

CONSTANTS
  Pairs,       \* the pairs of implementations to run, functions on Node
  LinesCap,    \* capacity of the channel n.lines (256 in the code)
  StdoutCap,   \* lines a node can write ahead of the harness's reader
  MaxStray     \* BOUND: lines outside the protocol one node may print

Node == {"A", "B"}             \* A is the initiator, B the responder
Peer(n) == IF n = "A" THEN "B" ELSE "A"

\* "other" stands for a foreign binary passed on the command line; it may
\* print lines that are no message and announce an unusable DHT key.
Impl == {"go", "c", "rust", "other"}

ASSUME PairsAssumption  == Pairs \subseteq [Node -> Impl]
ASSUME BoundsAssumption == /\ LinesCap  \in Nat \ {0}
                           /\ StdoutCap \in Nat \ {0}
                           /\ MaxStray  \in Nat

(***************************************************************************)
(* Messages. A ready line announces "real" (port and keys), "noPort" (keys *)
(* but port 0), "stub" (port 0, all-zero ID) or "keyless" (a port, but a   *)
(* DHT key that is not hex).                                               *)
(***************************************************************************)
Hello   == {"real", "noPort", "stub", "keyless"}
Command == {"bootstrap", "run_test", "shutdown"}

Line == [type  : {"ready", "result", "error", "noise"},
         hello : Hello \cup {"none"},
         res   : Answer \cup {None}]

ReadyLine(h)  == [type |-> "ready",  hello |-> h,      res |-> None]
ResultLine(r) == [type |-> "result", hello |-> "none", res |-> r]
ErrorLine     == [type |-> "error",  hello |-> "none", res |-> None]
NoiseLine     == [type |-> "noise",  hello |-> "none", res |-> None]

\* parseResultLine: what a line means to waitForResult, None for skip it.
parseResultLine(line) ==
  CASE line.type = "result" -> line.res
    [] line.type = "error"  -> IPCError
    [] OTHER                -> None

\* The ready lines and results the test nodes have code for.
Hellos(i) ==
  CASE i = "go"    -> {"real"}
    [] i = "c"     -> {"real", "noPort"}
    [] i = "rust"  -> {"stub"}
    [] i = "other" -> {"real", "keyless"}

VARIABLES
  alive,     \* the harness process runs
  impl,      \* impl[n]: the implementation behind side n, fixed
  pc, at,    \* where the main thread is, and on which node
  owned,     \* nodes StartNode returned: their Close is deferred
  hello,     \* hello[n]: n.Ready
  worker,    \* worker[n]: the RunTest goroutine
  reader,    \* reader[n]: the goroutine of initializeNodeIO
  closed,    \* closed[n]: n.lines is closed
  reaped,    \* reaped[n]: cmd.Wait returned and n.done is closed
  proc,      \* proc[n]: the node process
  sent, got, \* stdin of n: commands written, how many n has read
  stdout,    \* stdout of n: lines written
  fwd, rcv,  \* lines the reader put into n.lines, lines received from it
  strays,    \* lines n printed outside the protocol
  res,       \* res[n]: what RunTest returned
  verdict    \* the TestResult

mainVars    == <<pc, at, owned, hello, verdict>>
channelVars == <<worker, res, rcv>>
readerVars  == <<reader, closed, fwd>>
nodeVars    == <<proc, got, stdout, strays>>
vars == <<alive, impl, mainVars, reaped, channelVars, readerVars, nodeVars, sent>>

Step == {"start", "await", "check", "bootstrap", "collect", "close", "wait", "return"}

Init ==
  /\ alive   = TRUE
  /\ impl    \in Pairs
  /\ pc      = "start" /\ at = "A"
  /\ owned   = {}
  /\ hello   = [n \in Node |-> "none"]
  /\ worker  = [n \in Node |-> "idle"]
  /\ reader  = [n \in Node |-> "off"]
  /\ closed  = [n \in Node |-> FALSE]
  /\ reaped  = [n \in Node |-> FALSE]
  /\ proc    = [n \in Node |-> "absent"]
  /\ sent    = [n \in Node |-> << >>]
  /\ got     = [n \in Node |-> 0]
  /\ stdout  = [n \in Node |-> << >>]
  /\ fwd     = [n \in Node |-> 0]
  /\ rcv     = [n \in Node |-> 0]
  /\ strays  = [n \in Node |-> 0]
  /\ res     = [n \in Node |-> None]
  /\ verdict = None

-----------------------------------------------------------------------------
(***************************************************************************)
(* The main thread. Return(v) is a return statement of runCompatTest: the  *)
(* result is fixed and the deferred Close calls of the nodes that were     *)
(* started begin, last one first.                                          *)
(***************************************************************************)
Main(step) == alive /\ pc = step

GoTo(step, n) == pc' = step /\ at' = n

Unwind(started) ==
  CASE "B" \in started                        -> GoTo("close", "B")
    [] "A" \in started /\ "B" \notin started  -> GoTo("close", "A")
    [] OTHER                                  -> GoTo("return", "A")

Return(v) ==
  /\ verdict' = v
  /\ Unwind(owned)
  /\ UNCHANGED owned

\* cmd.Start succeeds; initializeNodeIO starts the reader.
Spawn ==
  /\ Main("start")
  /\ proc'   = [proc   EXCEPT ![at] = "init"]
  /\ reader' = [reader EXCEPT ![at] = "scan"]
  /\ GoTo("await", at)
  /\ UNCHANGED <<alive, impl, owned, hello, verdict, reaped, channelVars,
                 closed, fwd, got, stdout, strays, sent>>

SpawnFails ==
  /\ Main("start")
  /\ \E err \in SpawnError : Return(StartupVerdict(err))
  /\ UNCHANGED <<alive, impl, hello, reaped, channelVars, readerVars, nodeVars, sent>>

\* readReadyMessage gets a line: a ready message, or one it refuses. A
\* refused node is neither killed nor waited for.
AwaitLine ==
  /\ Main("await")
  /\ rcv[at] < fwd[at]
  /\ rcv' = [rcv EXCEPT ![at] = @ + 1]
  /\ LET line == stdout[at][rcv[at] + 1]
     IN  \/ /\ line.type = "ready"
            /\ hello' = [hello EXCEPT ![at] = line.hello]
            /\ owned' = owned \cup {at}
            /\ IF at = "A" THEN GoTo("start", "B") ELSE GoTo("check", "A")
            /\ UNCHANGED verdict
         \/ /\ line.type = "noise"
            /\ Return(StartupVerdict("bad ready message"))
            /\ UNCHANGED hello
         \/ /\ line.type \in {"result", "error"}
            /\ Return(StartupVerdict("expected ready"))
            /\ UNCHANGED hello
  /\ UNCHANGED <<alive, impl, reaped, worker, res, readerVars, nodeVars, sent>>

AwaitClosed ==
  /\ Main("await")
  /\ closed[at] /\ rcv[at] = fwd[at]
  /\ Return(StartupVerdict("stdout closed before ready"))
  /\ UNCHANGED <<alive, impl, hello, reaped, channelVars, readerVars, nodeVars, sent>>

\* Mutant: the timer gives the node up without killing it.
AwaitTimeoutNoKill ==
  /\ Main("await")
  /\ Return(StartupVerdict("timed out waiting for ready"))
  /\ UNCHANGED <<alive, impl, hello, reaped, channelVars, readerVars, nodeVars, sent>>

\* The 5 second timer, at any moment: the node is killed, not waited for.
AwaitTimeout ==
  /\ Main("await")
  /\ proc' = [proc EXCEPT ![at] = "dead"]
  /\ Return(StartupVerdict("timed out waiting for ready"))
  /\ UNCHANGED <<alive, impl, hello, reaped, channelVars, readerVars,
                 got, stdout, strays, sent>>

CheckStub ==
  /\ Main("check")
  /\ IF \E n \in Node : hello[n] = "stub"
       THEN Return(NotImplemented)
       ELSE GoTo("bootstrap", "B") /\ UNCHANGED <<owned, verdict>>
  /\ UNCHANGED <<alive, impl, hello, reaped, channelVars, readerVars, nodeVars, sent>>

\* sendCmd: a write to the stdin of a process that is gone fails.
Writable(n) == proc[n] # "dead"
Write(n, cmd) == sent' = [sent EXCEPT ![n] = Append(@, cmd)]

\* Bootstrap of B off A, then of A off B; skipped when the peer has no port.
\* After the second one the two RunTest goroutines start.
HasPort(n) == hello[n] \in {"real", "keyless"}

\* Mutant: the reverse bootstrap is left out.
BootstrapOneWay ==
  /\ Main("bootstrap") /\ Writable(at)
  /\ IF HasPort(Peer(at)) THEN Write(at, "bootstrap") ELSE UNCHANGED sent
  /\ GoTo("collect", "A") /\ worker' = [n \in Node |-> "send"]
  /\ UNCHANGED <<owned, verdict, alive, impl, hello, reaped, res, rcv,
                 readerVars, nodeVars>>

Bootstrap ==
  /\ Main("bootstrap")
  /\ \/ /\ HasPort(Peer(at)) /\ ~Writable(at)
        /\ Return(ConflictingBy1)
        /\ UNCHANGED <<sent, worker>>
     \/ /\ HasPort(Peer(at)) => Writable(at)
        /\ IF HasPort(Peer(at)) THEN Write(at, "bootstrap") ELSE UNCHANGED sent
        /\ IF at = "B"
             THEN GoTo("bootstrap", "A") /\ UNCHANGED worker
             ELSE GoTo("collect", "A") /\ worker' = [n \in Node |-> "send"]
        /\ UNCHANGED <<owned, verdict>>
  /\ UNCHANGED <<alive, impl, hello, reaped, res, rcv, readerVars, nodeVars>>

\* Mutant: the first answer is enough (a select instead of two receives).
CollectEither ==
  /\ Main("collect")
  /\ \E n \in Node : worker[n] = "done"
  /\ Return(classifyResults(res["A"], res["B"]))
  /\ UNCHANGED <<alive, impl, hello, reaped, channelVars, readerVars, nodeVars, sent>>

\* <-chA, <-chB, then classifyResults.
Collect ==
  /\ Main("collect")
  /\ \A n \in Node : worker[n] = "done"
  /\ Return(classifyResults(res["A"], res["B"]))
  /\ UNCHANGED <<alive, impl, hello, reaped, channelVars, readerVars, nodeVars, sent>>

\* Mutant: Close only waits.
CloseWithoutShutdown ==
  /\ Main("close")
  /\ GoTo("wait", at)
  /\ UNCHANGED <<alive, impl, owned, hello, verdict, reaped, channelVars,
                 readerVars, nodeVars, sent>>

\* Close: the shutdown command; an error of the write is only remembered.
CloseSend ==
  /\ Main("close")
  /\ IF Writable(at) THEN Write(at, "shutdown") ELSE UNCHANGED sent
  /\ GoTo("wait", at)
  /\ UNCHANGED <<alive, impl, owned, hello, verdict, reaped, channelVars,
                 readerVars, nodeVars>>

\* Close: cmd.Wait, for as long as it takes, then close(n.done).
CloseWait ==
  /\ Main("wait")
  /\ proc[at] = "dead"
  /\ reaped' = [reaped EXCEPT ![at] = TRUE]
  /\ IF at = "B" THEN GoTo("close", "A") ELSE GoTo("return", "A")
  /\ UNCHANGED <<alive, impl, owned, hello, verdict, channelVars,
                 readerVars, nodeVars, sent>>

MainStep ==
  \/ Spawn \/ SpawnFails \/ AwaitLine \/ AwaitClosed \/ AwaitTimeout
  \/ CheckStub \/ Bootstrap \/ Collect \/ CloseSend \/ CloseWait

-----------------------------------------------------------------------------
(***************************************************************************)
(* The RunTest goroutine of node n.                                        *)
(***************************************************************************)
Working(n, state) == alive /\ worker[n] = state

\* Mutant: the loop of waitForResult goes on after an answer.
AnsweredKeepsWaiting(n, a) ==
  /\ res' = [res EXCEPT ![n] = a]
  /\ UNCHANGED worker

Answered(n, a) ==
  /\ res'    = [res    EXCEPT ![n] = a]
  /\ worker' = [worker EXCEPT ![n] = "done"]

SendRunTest(n) ==
  /\ Working(n, "send")
  /\ IF Writable(n)
       THEN /\ Write(n, "run_test")
            /\ worker' = [worker EXCEPT ![n] = "wait"]
            /\ UNCHANGED res
       ELSE Answered(n, IPCError) /\ UNCHANGED sent
  /\ UNCHANGED <<alive, impl, mainVars, reaped, rcv, readerVars, nodeVars>>

\* waitForResult: one line from the channel, which may be skipped.
ReceiveLine(n) ==
  /\ Working(n, "wait")
  /\ rcv[n] < fwd[n]
  /\ rcv' = [rcv EXCEPT ![n] = @ + 1]
  /\ LET a == parseResultLine(stdout[n][rcv[n] + 1])
     IN  IF a = None THEN UNCHANGED <<res, worker>> ELSE Answered(n, a)
  /\ UNCHANGED <<alive, impl, mainVars, reaped, readerVars, nodeVars, sent>>

ReceiveClosed(n) ==
  /\ Working(n, "wait")
  /\ closed[n] /\ rcv[n] = fwd[n]
  /\ Answered(n, IPCError)
  /\ UNCHANGED <<alive, impl, mainVars, reaped, rcv, readerVars, nodeVars, sent>>

\* Mutant: the deadline is looked at only when a line arrives.
DeadlineAtLine(n) ==
  /\ Working(n, "wait")
  /\ rcv[n] < fwd[n]
  /\ Answered(n, HarnessTimeout)
  /\ UNCHANGED <<alive, impl, mainVars, reaped, rcv, readerVars, nodeVars, sent>>

\* The deadline, at any moment, also when a line is waiting.
Deadline(n) ==
  /\ Working(n, "wait")
  /\ Answered(n, HarnessTimeout)
  /\ UNCHANGED <<alive, impl, mainVars, reaped, rcv, readerVars, nodeVars, sent>>

WorkerStep(n) ==
  SendRunTest(n) \/ ReceiveLine(n) \/ ReceiveClosed(n) \/ Deadline(n)

-----------------------------------------------------------------------------
(***************************************************************************)
(* The reader goroutine of node n: scan a line, then hand it over or, once *)
(* done is closed, drop it and leave the channel open. The end of the      *)
(* pipe, or the pipe closed by Wait, ends the loop and closes the channel. *)
(***************************************************************************)
Reading(n, state) == alive /\ reader[n] = state
Held(n)      == IF reader[n] = "hold" THEN 1 ELSE 0
InPipe(n)    == Len(stdout[n]) - fwd[n] - Held(n)
LinesFull(n) == fwd[n] - rcv[n] >= LinesCap

Scan(n) ==
  /\ Reading(n, "scan")
  /\ InPipe(n) > 0
  /\ reader' = [reader EXCEPT ![n] = "hold"]
  /\ UNCHANGED <<alive, impl, mainVars, reaped, channelVars, closed, fwd,
                 nodeVars, sent>>

\* Mutant: the line stays in the reader's hand after it was handed over.
ForwardKeepsLine(n) ==
  /\ Reading(n, "hold")
  /\ ~LinesFull(n)
  /\ fwd' = [fwd EXCEPT ![n] = @ + 1]
  /\ UNCHANGED <<alive, impl, mainVars, reaped, channelVars, reader, closed,
                 nodeVars, sent>>

Forward(n) ==
  /\ Reading(n, "hold")
  /\ ~LinesFull(n)
  /\ fwd'    = [fwd    EXCEPT ![n] = @ + 1]
  /\ reader' = [reader EXCEPT ![n] = "scan"]
  /\ UNCHANGED <<alive, impl, mainVars, reaped, channelVars, closed,
                 nodeVars, sent>>

\* Mutant: the select has no case for done.
QuitNever(n) == FALSE

Quit(n) ==
  /\ Reading(n, "hold")
  /\ reaped[n]
  /\ reader' = [reader EXCEPT ![n] = "exited"]
  /\ UNCHANGED <<alive, impl, mainVars, reaped, channelVars, closed, fwd,
                 nodeVars, sent>>

EndOfPipe(n) ==
  /\ Reading(n, "scan")
  /\ reaped[n] \/ (proc[n] = "dead" /\ InPipe(n) = 0)
  /\ reader' = [reader EXCEPT ![n] = "exited"]
  /\ closed' = [closed EXCEPT ![n] = TRUE]
  /\ UNCHANGED <<alive, impl, mainVars, reaped, channelVars, fwd, nodeVars, sent>>

ReaderStep(n) == Scan(n) \/ Forward(n) \/ Quit(n) \/ EndOfPipe(n)

-----------------------------------------------------------------------------
(***************************************************************************)
(* The node process of side n. Emit writes a line and goes on in `next': a *)
(* full pipe blocks, a pipe without a reader kills.                        *)
(***************************************************************************)
Emit(n, line, next) ==
  \/ /\ alive
     /\ InPipe(n) < StdoutCap
     /\ stdout' = [stdout EXCEPT ![n] = Append(@, line)]
     /\ proc'   = [proc   EXCEPT ![n] = next]
  \/ /\ ~alive
     /\ proc'   = [proc   EXCEPT ![n] = "dead"]
     /\ UNCHANGED stdout

Running == {"init", "loop", "test"}

HarnessVars == <<alive, impl, mainVars, reaped, channelVars, readerVars, sent>>

NodeReady(n) ==
  /\ proc[n] = "init"
  /\ \E h \in Hellos(impl[n]) : Emit(n, ReadyLine(h), "loop")
  /\ UNCHANGED <<HarnessVars, got, strays>>

\* No Tox instance: an error line, and exit.
NodeInitFails(n) ==
  /\ proc[n] = "init"
  /\ impl[n] \in {"go", "c"}
  /\ Emit(n, ErrorLine, "dead")
  /\ UNCHANGED <<HarnessVars, got, strays>>

\* A command is read from stdin.
Pending(n) == got[n] < Len(sent[n])
Reads(n, cmd) ==
  /\ proc[n] = "loop" /\ Pending(n)
  /\ sent[n][got[n] + 1] = cmd
  /\ got' = [got EXCEPT ![n] = @ + 1]

\* Mutant: every node acknowledges a bootstrap command on stdout.
NodeBootstrapAck(n) ==
  /\ Reads(n, "bootstrap")
  /\ Emit(n, NoiseLine, "loop")
  /\ UNCHANGED <<HarnessVars, strays>>

\* The C node answers an unusable key on stdout, the others on stderr.
NodeBootstrap(n) ==
  /\ Reads(n, "bootstrap")
  /\ IF impl[n] = "c" /\ hello[Peer(n)] = "keyless"
       THEN Emit(n, ErrorLine, "loop")
       ELSE UNCHANGED <<proc, stdout>>
  /\ UNCHANGED <<HarnessVars, strays>>

NodeRunTest(n) ==
  /\ Reads(n, "run_test")
  /\ proc' = [proc EXCEPT ![n] = "test"]
  /\ UNCHANGED <<HarnessVars, stdout, strays>>

\* The feature test is over; meanwhile no command was read.
NodeResult(n) ==
  /\ proc[n] = "test"
  /\ \E r \in Results(impl[n]) : Emit(n, ResultLine(r), "loop")
  /\ UNCHANGED <<HarnessVars, got, strays>>

NodeShutdown(n) ==
  /\ Reads(n, "shutdown")
  /\ proc' = [proc EXCEPT ![n] = "dead"]
  /\ UNCHANGED <<HarnessVars, stdout, strays>>

\* Mutant: the C node takes a read of 0 bytes for no input yet.
NodeEOFIgnored(n) ==
  /\ ~alive /\ impl[n] # "c"
  /\ proc[n] = "loop" /\ ~Pending(n)
  /\ proc' = [proc EXCEPT ![n] = "dead"]
  /\ UNCHANGED <<HarnessVars, got, stdout, strays>>

\* Stdin at its end: every writer is gone.
NodeEOF(n) ==
  /\ ~alive
  /\ proc[n] = "loop" /\ ~Pending(n)
  /\ proc' = [proc EXCEPT ![n] = "dead"]
  /\ UNCHANGED <<HarnessVars, got, stdout, strays>>

NodeStep(n) ==
  \/ NodeReady(n) \/ NodeInitFails(n) \/ NodeBootstrap(n) \/ NodeRunTest(n)
  \/ NodeResult(n) \/ NodeShutdown(n) \/ NodeEOF(n)

\* A foreign node prints something that is not a message.
NodeStray(n) ==
  /\ impl[n] = "other" /\ proc[n] \in Running
  /\ strays[n] < MaxStray
  /\ strays' = [strays EXCEPT ![n] = @ + 1]
  /\ Emit(n, NoiseLine, proc[n])
  /\ UNCHANGED <<HarnessVars, got>>

\* A node dies, or gets stuck in its Tox library and never steps again.
NodeFails(n) ==
  /\ proc[n] \in Running
  /\ \E end \in {"dead", "hung"} : proc' = [proc EXCEPT ![n] = end]
  /\ UNCHANGED <<HarnessVars, got, stdout, strays>>

-----------------------------------------------------------------------------
\* go test ends after the subtests, or is killed before (its own -timeout).
HarnessEnds ==
  /\ alive
  /\ alive' = FALSE
  /\ UNCHANGED <<impl, mainVars, reaped, channelVars, readerVars, nodeVars, sent>>

Finished == ~alive /\ \A n \in Node : proc[n] \notin Running

\* Nothing is left to do.
Terminated == Finished /\ UNCHANGED vars

Next ==
  \/ MainStep
  \/ \E n \in Node :
       \/ WorkerStep(n) \/ ReaderStep(n) \/ NodeStep(n)
       \/ NodeStray(n) \/ NodeFails(n)
  \/ HarnessEnds
  \/ Terminated

Spec == Init /\ [][Next]_vars

(***************************************************************************)
(* Fairness. The Go scheduler runs every goroutine that can run, and       *)
(* timers fire; the operating system runs a node that is not stuck.        *)
(* Failures, stray lines and the end of the harness are never owed.        *)
(***************************************************************************)
FairSpec ==
  /\ Spec
  /\ WF_vars(MainStep)
  /\ \A n \in Node : /\ WF_vars(WorkerStep(n))
                     /\ WF_vars(ReaderStep(n))
                     /\ WF_vars(NodeStep(n))

-----------------------------------------------------------------------------
(***************************************************************************)
(* Properties.                                                             *)
(***************************************************************************)

\* Every variable keeps its type, and the positions in a pipe are ordered:
\* received <= forwarded <= written, commands read <= commands written.
TypeOK ==
  /\ alive   \in BOOLEAN
  /\ impl    \in Pairs
  /\ pc      \in Step
  /\ at      \in Node
  /\ owned   \in SUBSET Node
  /\ hello   \in [Node -> Hello \cup {"none"}]
  /\ worker  \in [Node -> {"idle", "send", "wait", "done"}]
  /\ reader  \in [Node -> {"off", "scan", "hold", "exited"}]
  /\ closed  \in [Node -> BOOLEAN]
  /\ reaped  \in [Node -> BOOLEAN]
  /\ proc    \in [Node -> {"absent", "dead", "hung"} \cup Running]
  /\ sent    \in [Node -> Seq(Command)]
  /\ stdout  \in [Node -> Seq(Line)]
  /\ got     \in [Node -> Nat]
  /\ fwd     \in [Node -> Nat]
  /\ rcv     \in [Node -> Nat]
  /\ strays  \in [Node -> Nat]
  /\ res     \in [Node -> Answer \cup {None}]
  /\ verdict \in Verdict \cup {None}
  /\ \A n \in Node : rcv[n] <= fwd[n] /\ fwd[n] + Held(n) <= Len(stdout[n])
                     /\ got[n] <= Len(sent[n])

(***************************************************************************)
(* "compatible" is earned: both nodes were started, read a run_test        *)
(* command, and printed a result with status compatible and exit code 0    *)
(* that the harness took from the pipe. No crash, timeout, pipe error,     *)
(* line of another kind or answer of one side alone leads to it            *)
(* (runCompatTest, waitForResult, classifyResults).                        *)
(***************************************************************************)
ReadTest(n)    == \E k \in 1..got[n] : sent[n][k] = "run_test"
Said(n, a)     == \E k \in 1..rcv[n] : stdout[n][k] = ResultLine(a)

CompatibleIsEarned ==
  verdict.status = "compatible" =>
    \A n \in Node : n \in owned /\ ReadTest(n) /\ Said(n, Compatible)

(***************************************************************************)
(* "not_implemented", the verdict that hides a pair from the gate, has a   *)
(* cause: a node that was never started, a stub, a node that said so, or   *)
(* two nodes that stayed silent. In particular it never swallows a         *)
(* conflict a node reported and the harness received, unless its peer does *)
(* not implement the feature (isStartupFailure, the stub check,            *)
(* classifyResults).                                                       *)
(***************************************************************************)
SkipHasCause ==
  verdict.status = "not_implemented" =>
    \/ owned # Node
    \/ \E n \in Node : hello[n] = "stub"
    \/ \E n \in Node : Said(n, NotImplemented)
    \/ \A n \in Node : worker[n] = "done" /\ res[n] = HarnessTimeout

(***************************************************************************)
(* "conflicting", the verdict that fails the workflow, has a cause too,    *)
(* there when it is taken: a process could not be made, a node reported    *)
(* the conflict, one node alone stayed silent, or one broke off, which     *)
(* means that it died or, being a C node, complained of the key its peer   *)
(* announced. No loss in the pipes, no race of the reader with Close, no   *)
(* error line about a usable key and no silence of both make a conflict    *)
(* (runCompatTest, RunTest, waitForResult, classifyResults). Lines too     *)
(* long for the harness's scanner (64 KiB) are not modelled.               *)
(***************************************************************************)
BrokeOff(n) ==
  /\ res[n] \in {None, IPCError}
  /\ \/ proc[n] = "dead"
     \/ /\ impl[n] = "c" /\ hello[Peer(n)] = "keyless"
        /\ \E k \in 1..rcv[n] : stdout[n][k].type = "error"

ConflictHasCause ==
  [][verdict' # verdict /\ verdict'.status = "conflicting" =>
       \/ pc = "start"
       \/ \E n \in Node :
            \/ Said(n, ConflictingBy1) \/ Said(n, ConflictingBy3)
            \/ res[n] = HarnessTimeout /\ res[Peer(n)] # HarnessTimeout
            \/ BrokeOff(n)]_vars

(***************************************************************************)
(* No test begins before the whole pair is wired: when a node runs its     *)
(* feature test it has read the bootstrap off its peer, and the reverse    *)
(* bootstrap is in the peer's stdin, unless the side to bootstrap off      *)
(* announced no port (runCompatTest lines 248-290; the workers start only  *)
(* after both writes).                                                     *)
(***************************************************************************)
Bootstrapped(n, upto) ==
  HasPort(Peer(n)) => \E k \in 1..upto : sent[n][k] = "bootstrap"

TestAfterBootstrap ==
  \A n \in Node : ReadTest(n) =>
    /\ Bootstrapped(n, got[n])
    /\ Bootstrapped(Peer(n), Len(sent[Peer(n)]))

(***************************************************************************)
(* When the run returns, it leaves no process behind, except one whose     *)
(* first line was no ready message: StartNode gives that one up without    *)
(* killing it (the deferred Close calls; readReadyMessage).                *)
(***************************************************************************)
NoLiveProcessLeft ==
  pc = "return" =>
    \A n \in Node : proc[n] \in Running \cup {"hung"} =>
      /\ n \notin owned
      /\ rcv[n] = 1 /\ stdout[n][1].type # "ready"

(***************************************************************************)
(* The channel of 256 lines never fills, whatever the order of commands    *)
(* and answers: a node prints at most one line when it starts and one per  *)
(* command, so 4 lines and the stray ones (initializeNodeIO: a full        *)
(* channel would park the reader with the pipe undrained).                 *)
(***************************************************************************)
ReaderNeverBlocks == \A n \in Node : ~LinesFull(n)

(***************************************************************************)
(* Once the verdict is taken it stands: no late answer changes it or the   *)
(* answers it rests on, and nothing but shutdown is sent to a node         *)
(* afterwards (runCompatTest's returns, Close).                            *)
(***************************************************************************)
VerdictStands ==
  verdict # None =>
    /\ verdict' = verdict /\ res' = res
    /\ \A n \in Node : sent'[n] # sent[n] => sent'[n] = Append(sent[n], "shutdown")

VerdictFinal == [][VerdictStands]_vars

(***************************************************************************)
(* The run implements PairVerdict: at most one answer per side, a verdict  *)
(* taken once from both of them or before any.                             *)
(***************************************************************************)
Abstract == INSTANCE PairVerdict WITH
  Initiator <- "A",
  Responder <- "B",
  answer    <- res,
  returned  <- (pc = "return")

ImplementsPairVerdict == Abstract!Spec

(***************************************************************************)
(* A run is finite: every step of any of its threads and processes leaves  *)
(* less to do, whoever is scheduled and whatever fails, even after the     *)
(* harness is gone. What is left are the steps of the main thread, and on  *)
(* each side those of the worker, the reader and the process, and for      *)
(* every command and every line the steps that take it to its receiver     *)
(* (runCompatTest, waitForResult, initializeNodeIO, the command loops).    *)
(***************************************************************************)
MainLeft ==
  LET later == IF at = "A" THEN 0 ELSE 1     \* A starts first, B closes first
  IN  CASE pc = "start"     -> 12 - 2 * later
        [] pc = "await"     -> 11 - 2 * later
        [] pc = "check"     -> 8
        [] pc = "bootstrap" -> 6 + later
        [] pc = "collect"   -> 5
        [] pc = "close"     -> 2 + 2 * later
        [] pc = "wait"      -> 1 + 2 * later
        [] pc = "return"    -> 0

WorkerLeft(n) == CASE worker[n] = "idle" -> 8 [] worker[n] = "send" -> 7
                   [] worker[n] = "wait" -> 1 [] worker[n] = "done" -> 0
ReaderLeft(n) == CASE reader[n] = "off" -> 3 [] reader[n] = "exited" -> 0
                   [] OTHER -> 2
ProcLeft(n)   == CASE proc[n] = "absent" -> 6 [] proc[n] \in {"init", "test"} -> 5
                   [] proc[n] = "loop" -> 1 [] OTHER -> 0
LinesLeft(n)  == 3 * InPipe(n) + 2 * Held(n) + fwd[n] - rcv[n]

SideLeft(n) ==
  WorkerLeft(n) + ReaderLeft(n) + ProcLeft(n) + LinesLeft(n)
    + 4 * (MaxStray - strays[n]) + 5 * (Len(sent[n]) - got[n])

Left == 6 * MainLeft + (IF alive THEN 1 ELSE 0) + SideLeft("A") + SideLeft("B")

RunIsFinite == [][Left' < Left /\ Left' >= 0]_vars

(***************************************************************************)
(* A verdict is always reached, also when nodes die or hang: every wait    *)
(* before it has a timer or ends with the pipe (readReadyMessage,          *)
(* waitForResult).                                                         *)
(***************************************************************************)
VerdictReached == <>(verdict # None \/ ~alive)

(***************************************************************************)
(* The run returns, closing both nodes, whenever they die and whatever     *)
(* they print. Only Close can be held for ever, by the node it waits for:  *)
(* one that hangs, or one that is still at work with more lines unread     *)
(* than the channel and the pipe have room for (Close, initializeNodeIO).  *)
(* In session_live no node prints so much; session_clogged.cfg has one     *)
(* that may.                                                               *)
(***************************************************************************)
Clogged(n) ==
  proc[n] \in Running /\ Len(stdout[n]) - rcv[n] > LinesCap + StdoutCap

SessionReturns ==
  \/ <>(pc = "return" \/ ~alive)
  \/ <>[](pc = "wait" /\ (proc[at] = "hung" \/ Clogged(at)))

(***************************************************************************)
(* The readers of the nodes a run closed do not outlive it: each ends, by  *)
(* the end of the pipe or by done (initializeNodeIO, Close).               *)
(***************************************************************************)
ReaderExits ==
  \A n \in Node : reaped[n] ~> (reader[n] = "exited" \/ ~alive)

(***************************************************************************)
(* When the harness is gone, killed in the middle of a run or finished     *)
(* with a node given up, no node keeps running: each meets the end of its  *)
(* stdin or a broken stdout, in whatever state the harness left it (the    *)
(* command loops of the nodes).                                            *)
(***************************************************************************)
OrphansExit == ~alive ~> Finished

(***************************************************************************)
(* perTestTimeout is "the maximum time allowed for a single (feature,      *)
(* pair) run" (integration_test.go:141): a run always comes to its end.    *)
(***************************************************************************)
RunIsBounded == <>(pc = "return" \/ ~alive)

(***************************************************************************)
(* "neither side proved an incompatibility, so treat this as               *)
(* not_implemented rather than conflicting. This avoids false positives    *)
(* when both implementations fail to run the test (e.g., due to DHT        *)
(* connectivity issues)" (report.go:45-48): two nodes whose own timers ran *)
(* out are not in conflict.                                                *)
(***************************************************************************)
BothTimedOut == \A n \in Node : res[n].exit = 3 /\ Said(n, res[n])
TwoTimeoutsAreNoConflict == BothTimedOut => verdict.status # "conflicting"

(***************************************************************************)
(* "the stdout-reader goroutine keeps draining the pipe and prevents a     *)
(* deadlock" (node.go:289-292): Close is never left waiting for a node     *)
(* that waits for room in a pipe whose reader waits for room in a channel  *)
(* nobody receives from any more.                                          *)
(***************************************************************************)
CloseNeverDeadlocks ==
  Main("wait") => ~ /\ proc[at] = "test" /\ InPipe(at) >= StdoutCap
                    /\ reader[at] = "hold" /\ LinesFull(at)
=============================================================================
