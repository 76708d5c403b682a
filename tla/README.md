# A verification project for toxcore-testnet

toxcore-testnet starts pairs of Tox implementations (go-toxcore, c-toxcore,
tox-rs), has each pair run six feature tests against each other, and reports
every (feature, pair) combination as `compatible`, `conflicting` or
`not_implemented`. A workflow fails when anything is `conflicting`.

The program is small, but it is a concurrent program about processes that
crash, hang and stay silent, and its only output is a verdict. This project
states what makes that verdict worth something, model-checks it with TLC on
small instances, and proves the safety part of it with TLAPS for every value of
the constants.

## 1. The system

| part | state it keeps | operations | talks to |
|---|---|---|---|
| node driver (`integration/node.go`) | process, stdin, channel `lines` of 256, channel `done`, ready message | `StartNode`, `Bootstrap`, `RunTest`, `Close`; a reader goroutine per node | node processes, over pipes of JSON lines |
| ports and environment (`StartNode`, `buildNodeEnv`) | one counter | take a port, filter the environment, start the node with it | nodes, over two variables |
| pair run (`runCompatTest`) | two nodes, two result channels | start A, start B, stub check, two bootstraps, two `RunTest` goroutines, collect, deferred `Close` | node driver, classification |
| classification (`report.go`, `isStartupFailure`) | none | `classifyResults`, `isStartupFailure` | |
| matrix (`TestCompatibility`, `writeResults`) | slice of results under a mutex, results file | parallel subtests, log line, append, write at Cleanup | pair run, go test's output |
| report generator (`cmd/report`) | set of seen cases | merge results file and log, write JSON and Markdown | files |
| workflow (`testnet.yml`) | exit codes of steps, artifact | run the matrix, make the report, upload it, enforce it, publish it | the above |
| Go, C, Rust test nodes | Tox instance, stdin buffer (C) | ready line, `bootstrap`, `run_test`, `shutdown` | harness over stdin and stdout |
| feature tests of the Go and C nodes | globals shared with the Tox callbacks | six tests (Go: three), each in two roles; eight callbacks (Go: two) | the peer, through the Tox libraries |

What is hard here:

* **Interleaving.** A pair run is one main goroutine, two workers, two readers
  and two processes, joined by pipes and channels of bounded capacity. 18
  (or fewer) runs go on in parallel and share a slice.
* **Failure.** Any node can die or get stuck at any point, before its first
  line, between two commands, in the middle of a test. A write to a dead
  process may fail or, if the crash is not noticed yet, succeed.
* **Timeouts.** 5 s for the ready line, 90 s for an answer, the nodes' own 30 s
  and 60 s, and 25 minutes for everything. Each races an event it gives up on.
* **Ordering.** Commands are answered by at most one line and a line says not
  what it answers; an error about a bootstrap is read as the answer to a test.
* **Boundaries.** The C node cuts its input into lines itself, in a buffer of
  4096 bytes, with a branch for a line that does not fit.
* **Events before their test.** The C node iterates Tox while it waits for a
  command, so an invitation, a file or a message may come before the test that
  waits for it and resets what the callback wrote. The Go node does not iterate
  then, nor after its answer, when its peer may still need it.
* **Half the truth.** A node knows only its own side: the Go responder counts a
  request it could not accept, an initiator sends to a conference nobody joined.
  Only both answers together mean something.
* **Two sources.** The report is made from a file and a log, each of which may
  be missing, cut short, spoilt or, the file, of an earlier job.

## 2. The modules

| module | models | uses |
|---|---|---|
| `Classify` | answers, what each node may answer, `classifyResults`, `isStartupFailure` | |
| `PairVerdict` | what a run promises its caller, abstractly | `Classify` |
| `TestSession` | one pair run with its nodes, pipes and goroutines | `Classify`, `PairVerdict` (refinement) |
| `LineStream` | what the command loop of the C node promises about its input, abstractly | |
| `StdinReader` | the command loop of the C node, at the level of bytes | `LineStream` (refinement) |
| `ToxPair` | what the feature tests share: friend list, online status, friend requests, `dht_bootstrap` | `Classify` |
| `FriendTests`, `FileTransfer`, `Conference` | friend_request and friend_message; file_transfer; the two conference tests: both roles and their callbacks | `ToxPair` |
| `FeatureTests` | a pair of nodes running one feature: the four modules above composed, with the libraries and the classification | the three above |
| `PairRun` | one pair run whose nodes execute the feature tests | `TestSession`, `FeatureTests` |
| `Ports` | the ports of many parallel nodes, from the counter to the bootstrap command | |
| `Matrix` | one job: subtests, results file, log, report, upload, gate, page | |
| `MCTestSession`, `MCStdinReader`, `MCFeatureTests`, `MCPorts`, `MCMatrix`, `MCPairRun` | the instances TLC checks | |
| `Classify_proofs`, `TestSession_proofs`, `TestSessionEnd_proofs`, `StdinReader_proofs`, `FeatureTests_proofs`, `PairRun_proofs`, `Ports_proofs`, `Matrix_proofs` | the theorems | |

How they fit together. `TestSession` takes a feature test to be a stretch of
time that ends with one of `Results(i)`; `FeatureTests` is the inside of that
stretch for both nodes at once. `PairRun` is the two together: `FeatureTests`
tells what a node does between `run_test` and the result that it prints,
`TestSession` when it may begin, who reads what it printed, and when its process
dies or hangs in between. The theorems `RunIsSession` and `RunIsTests` show that
nothing is lost by looking at either alone. That the bootstrap commands reach
the peer is `BootstrapReachesPeer` of `Ports`. The verdict of a run is the
status of a case in `Matrix`.

### TestSession and the code

The variables follow the program: `pc` and `at` are the main goroutine's place
in `runCompatTest` and the node it is busy with; `owned` the nodes whose
`Close` is deferred; `worker[n]` the goroutine of `RunTest`; `reader[n]` the one
of `initializeNodeIO`, with `hold` for a line it scanned and could not hand
over yet; `closed[n]` the closed channel; `reaped[n]` that `Wait` returned and
`done` is closed; `proc[n]` the process. A pipe is the sequence of everything
written to it and the reader's position: `sent`/`got` for stdin, `stdout` with
`fwd` (handed to the channel) and `rcv` (received from it). Keeping what was
written lets a property speak about what a node said before.

| action | code |
|---|---|
| `Spawn`, `SpawnFails` | `StartNode` up to `initializeNodeIO`; the errors of pipe(2), fork(2), exec(2) |
| `AwaitLine`, `AwaitClosed`, `AwaitTimeout` | the two cases of the select in `readReadyMessage`; only the timer kills the node |
| `CheckStub`, `Bootstrap`, `Collect` | `runCompatTest`; the second `Bootstrap` starts the workers |
| `CloseSend`, `CloseWait` | `Close`, run by the defers, B first |
| `SendRunTest`, `ReceiveLine`, `ReceiveClosed`, `Deadline` | `RunTest`, `waitForResult` |
| `Scan`, `Forward`, `Quit`, `EndOfPipe` | the reader goroutine |
| `NodeReady` ... `NodeEOF` | the `main` and dispatch functions of the three nodes |
| `NodeStray`, `NodeFails` | a foreign binary that prints other lines; a node that dies or hangs |
| `HarnessEnds` | go test exits or is killed, at any point |

A line is reduced to what the harness looks at: its type, the kind of ready
line, a status and an exit code. A feature test is any stretch of time at the
end of which the node prints one of the results its code has (`goResults`,
`cResults`). A node reads no command during a test, as in the code.

`Writable` is where the model takes a side: a write to stdin fails when the
process is gone and succeeds otherwise. The crash that is not noticed in time is
the behaviour in which the write comes first and `NodeFails` next.

### StdinReader and the code

Bytes are positions in everything ever written; only the newlines (`nl`), and
among them those that end a shutdown command (`stop`), matter. The buffer always
holds the segment `base+1..read` of the stream, so `g_stdin_len = read - base`,
the shift to the front is `base' = e`, and a dispatched text is a segment.
`ReadInput`, `EndOfInput`, `Discard`, `Drain`, `DrainEnds` are the branches after
`select`; `Dispatch` is one round of `process_stdin_lines`, `RoundEnds` the test
of `g_running`. `Write` puts any number of bytes into the pipe, so a command may
arrive in parts and several commands in one read. The tail of a line may say
anything, so dispatching one may stop the node, whatever the whole line said.

`LineStream` has the same stream and none of the machinery: it takes the next
line that is there and fits (`TakeLine`), gives up on one that does not
(`LoseLine`), passes over what follows up to and a little beyond the newline
(`PassOver`, the fault `NoPartialTail` tells of is in it), and leaves after
shutdown or, only when no line is left, after a hangup. `taken` is the reader's
`base`, or `read` while an overlong line is drained.

### The feature tests and the code

Side A is the initiator, side B the responder. `place[n]` is the loop n's test
is in, named for what it waits for (`idle` before `run_test`, `done` after the
result was printed), `out[n]` the result. The other variables are the globals of
`main.c`, and for the Go node its two slices, read as flags:

| variables | code |
|---|---|
| `friends`, `online`, `dht` | the libraries' friend list and connection status, as the tests ask for it |
| `requested`, `friendNum` | `g_friend_received` or `len(friendRequests) > 0`; `g_friend_num` |
| `heard`, `wire`, `echoed` | `g_msg_received` or `len(messages) > 0`; messages under way; who sent one back |
| `offer`, `asked`, `arrived` | the library's transfer: accepted or not, chunks asked of A, chunks given to B |
| `sendDone`, `pos`, `whole`, `complete` | `g_file_send_done`, `g_file_pos`, the right chunks in `g_file_data`, `g_file_complete` |
| `invited`, `cookie`, `member`, `joined`, `peers`, `carried`, `received` | the invitation, `g_conference_cookie_len > 0`, the library's membership, `g_conference_joined`, `tox_conference_peer_count >= 2`, A's message, `g_conference_msg_received` |

| action | code |
|---|---|
| `StartDHT`, `DHTFound`, `DHTTimeout` | `testDHTBootstrap`, `test_dht_bootstrap` |
| `AddFriend`, `NeverOnline` | the first half of every initiator: the add, which some tests report and others ignore, and the wait |
| `RequestAnswered`, `StartRequested`, `Requested`, `RequestTimeout` | `testFriendRequest`, `test_friend_request` |
| `SendPing`, `EchoHeard`, `EchoTimeout`, `StartServing`, `Served` | `testFriendMessage`, `test_friend_message` |
| `SendFile`, `FileSent`, `SendTimeout`, `StartReceiving`, `FileReceived`, `ReceiveTimeout` | `test_file_transfer`, with the comparison of the buffer (`Verified`) |
| `CreateAndInvite`, `PeerJoined`, `NoPeer`, `StartInvited`, `InviteTimeout`, `Join`, `Joined`, `JoinTimeout` | `test_conference_invite`, and the first half of `test_conference_message` |
| `SendToConference`, `MessageHeard`, `MessageTimeout` | `test_conference_message` |
| `NotSupported` | the three tests the Go node does not have |
| `cb_...` | the callback of that name, or the closure registered for it in Go |
| `DHTConnects`, `ComesOnline`, `GoesOffline`, `ChatLost`, `MessageLost`, `PeerCounted` | the libraries |

A library moves only while its program iterates it (`Iterates`): the C node does
so from its start to its end, the Go node only inside a test. So the resets at
the beginning of a C test (`StartReceiving`, `StartInvited`, `SendPing`) can wipe
what a callback wrote before, and the model does wipe it.

`mishap` is a history variable: it is set by everything no test repairs (a
failed call, a lost or damaged piece of data, a broken connection, a wiped event,
a timer that runs out) and read by one property, `WorkingPairSucceeds`, which
says that nothing else keeps a pair from succeeding. `Expired` is a detail of
the loops: C looks for the event after each iteration, Go only before it, so a
Go timer may run out although the event is there.

### PairRun and the code

The variables are those of the two parts, and `impl` belongs to both. `SessionStep`
is every step of `TestSession` but the printing of a result (and the lines of
foreign nodes, of which `FeatureTests` knows nothing). `RunTest(n)` is a step of
n's test, possible while its process is in `run_test`; `PrintResult(n)` prints
`out[n]` when the test is over and nothing else; `Library(n)` is a callback or
delivery at n, while its process iterates and is neither dead nor stuck; `Lost` is
what gets lost between them. A node that dies or hangs leaves its test where it
is, for ever.

### Ports and the code

`TakePort` is the `atomic.AddUint32` of `StartNode`, `buildNodeEnv` the filter
that keeps an inherited `TOX_PORT_START` or `TOX_PORT_END` from the nodes,
`Ranges` what a node makes of its environment (`getenv` may find either entry of
a name that is there twice), `NodeBinds` and `NodeRefused` the bind of the
library, `Bootstrap` the command with the port that was announced: the start of
the range by the Go node, the bound port by the C node, 0 by the stub. `Occupy`
and `Vacate` are other programs of the machine.

### Matrix and the code

`stage[c]` is how far the subtest of case `c` is: its log line comes first, then
its append. `garbled` are the cases whose log line cannot be read back (the
nodes' stderr goes to the same stream), `unreadable` says that the whole log cannot
(`LogSpoilt`: a line of more than 64 KiB ends the scanner with an error, and
`loadResults` then drops every record `parseGoTestJSON` had read). The results file is absent, torn or
complete; opening truncates it. `Killed` may come at any time, `OpenFile` only
after the last subtest because it is a `t.Cleanup`. `loadResults` is the merge
with the file's precedence. `gate` is how far the job is after go test:
`WriteReport` is `cmd/report`, which may fail before or after the JSON file
(`written`), `Upload` the job summary and the artifact, `Gate` the `jq` of the last
step; a failed step skips the rest (`broken`). A report without records fails the
gate like one with a conflict: `resultAdder.results` is still nil then, the report
says `"results": null`, and `jq` cannot iterate over that. `Publish` is the job `publish-pages`,
which runs whatever happened and needs the artifact only.

## 3. What is checked

`tlc -config <cfg> <module>`; every run of the table takes about a minute or less.

| run | question | bounds |
|---|---|---|
| `session` | safety of a pair run, its refinement of `PairVerdict`, and that it cannot go on for ever | the three pairs of the workflow and C with a foreign node; channel of 3 lines, pipe of 2, one stray line |
| `session_live` | verdict reached, run returns, readers end, orphans end | C with a foreign node; channel and pipe of 1, no stray lines |
| `session_hang` | *violation*: is a run bounded? | go and C |
| `session_chatty` | *violation*: can Close deadlock? | channel and pipe of 1, three stray lines |
| `session_timeouts` | *violation*: are two timeouts no conflict? | go and C |
| `stdin` | the line reader loses, splits, reorders and strands nothing, never spins, and implements `LineStream` | all streams of 8 bytes, buffer of 3, drain of 2 |
| `stdin_overlong` | *violation*: is a partial tail never dispatched? | the same |
| `features` | does a compatible verdict mean that the feature works, does a working pair get it, does every test end? | the six features, all four pairs of Go and C; the friend request comes up to 2 times, a file of 3 chunks |
| `features_echo` | *violation*: does only the responder echo? | Go against C |
| `ports` | does a bootstrap command reach the peer, do parallel runs contend for ports? | two runs on 3 ports, two casts, four inherited environments |
| `matrix` | the report is complete, the gate right, the page published, the workflow ends | four cases, no earlier file |
| `matrix_stale` | *violation*: does the log stand in for a missing file? | two cases, an earlier file |

Beside these, `tlc -workers 4 -config pair.cfg MCPairRun` checks the composition
on friend_request between a Go or C initiator and a C responder (2.0 million
states, one minute): the five properties of `PairRun`, and the link between its
parts on which their proofs rest. With each of the other five features in
`Features` it takes up to four minutes and 9.7 million states, with the same
result. It is kept out of the table because what it checks is proved below.
`tlc -config session_clogged.cfg MCTestSession` checks `SessionReturns` with three
stray lines of the foreign node, enough to fill the channel and the pipe, in three
minutes: there the second way in which `Close` can be held happens, and no other.

Why these bounds are enough. A pair run is a fixed cast: two nodes, at most
three commands each, at most one line per command. Channel and pipe are smaller
than what a node can print, so that both fill (a node of this repository never
fills 256 lines; the theorem `ChannelNeverFills` says so for the real size). A
stream of 8 bytes against a buffer of 3 has lines that fit, that fill the buffer
exactly, that overflow it by one and by more than a drain, two lines in one read
and a line after an overlong one. Four cases show two racing writers, a case lost
to each source, and one that never finishes; the actions treat cases alike.

The feature tests have two nodes by nature; a second friend request is the one
that finds the friend already added (or the add that failed before succeed), and
a third is no different. Three chunks are a first, a middle and a last one; that
there is a fourth call at the end is in the model for any number. Two runs on
three ports leave the fourth node without a port of its own, which is where the
default range comes in; the two port properties hold until then (`RanOut`, after
32091 nodes).

Deadlock is checked in every run. The only states without a further step are
those in which everybody has ended (`Terminated`, `Exited`, `Ended`,
`WorkflowEnded`); ports may be taken and freed by others for ever.

### The properties

`TestSession`
* `CompatibleIsEarned`: a compatible verdict needs both nodes to have read
  `run_test` and printed a compatible result that was taken from the pipe.
* `SkipHasCause`: `not_implemented`, which the gate lets pass, is never made of
  a conflict the harness received, unless the peer lacks the feature.
* `ConflictHasCause`: `conflicting`, which fails the workflow, has a cause in the
  processes when it is taken: one could not be made, one died, a C node was given
  an unusable key of its peer and said so, one reported the conflict, or one alone
  stayed silent. The races of the reader with `Close`, a line lost with the channel,
  an error line for any other reason and the silence of both make none. It does not
  ask why a process could not be made, or why a node stayed silent.
* `TestAfterBootstrap`, `NoLiveProcessLeft`, `ReaderNeverBlocks`, `VerdictFinal`.
* `ImplementsPairVerdict`: at most one answer per side; the verdict is taken
  once, from both answers or before anybody was asked.
* `RunIsFinite`: every step leaves less to do (`Left`, the steps the threads and
  processes can still take and those each command and line still needs), so no two
  of them keep each other busy for ever, whoever is scheduled. It says nothing of
  how long a step takes: a run can stop for ever at a hung node (`RunIsBounded`),
  but it cannot run for ever.
* `SessionReturns` (liveness): a run that does not return stands in `Close` for ever,
  waiting for a node that hangs, or for one that is clogged: still at work, with more
  lines unread than the channel and the pipe have room for (`Clogged`).
* `VerdictReached`, `ReaderExits`, `OrphansExit` (liveness).

`StdinReader`
* `NothingStranded` (the bug the comment in `main.c` tells of), `LinesIntact`,
  `NothingAfterShutdown`, `HangupEnds`.
* `LineReached` (liveness): no line that was written is forgotten. It is dispatched,
  itself or its tail, unless it is blank, the node stops first, or it ends within one
  block of the drain behind a buffer's worth of bytes without a newline: such a line
  may be thrown away unread.
* `ImplementsLineStream`: however the stream is cut into reads, what is handed over
  is what `LineStream` hands over, also around overlong lines and after a hangup.
* `TailHasCause`: what `NoPartialTail` comes to when it fails. A command is cut only
  within one block of the drain (256 bytes) behind a buffer's worth of bytes without a
  newline; no other command is, however often that happened before.
* `NeverSpins`: every step of the node leaves less to do (`Work`), so that between
  two writes it comes to rest in `select`, also in and after the overlong branch.

`PairRun`: `CompatibleIsExchanged` (an entry `compatible` of the report means that
the feature was exercised at both ends), `AnswerIsOutcome` (what the harness takes
for an answer is what the node's test ended with, unless the harness made it up),
`TestIsWired` (no test begins before the node has read its bootstrap and the
reverse one was sent, where the peer announced a port), `SkipIsTrue` (an entry
`not_implemented` hides no pair that has the feature and answered: a node did not
start, has no test of it, or neither answered before the deadline).

`FeatureTests`
* `CompatibleIsReal`: when the harness says `compatible`, both ends have done what
  the feature is about. No node's answer alone says so.
* `VerifiedIsWhole`: what was verified is the whole file and stays so, whenever
  the transfer began and whatever was wiped.
* `AcceptedIsFriend`: the C responder does not count a request it could not
  accept (the Go responder does; `CompatibleIsReal` shows that the pair's verdict
  is right all the same).
* `OneBallInPlay`: the ping that both nodes send back for ever never becomes two.
* `WorkingPairSucceeds` (liveness): a pair succeeds unless something goes wrong
  that no test repairs, or a Go node that has its answer stops iterating while
  the peer still needs it. The last is a way to fail with nothing wrong in either
  implementation.
* `TestsEnd` (liveness): no loop is without a timer.

`Ports`: `BootstrapReachesPeer` (the port announced is the peer's, and no other
node ever listens there), `NoContention` (a node is refused a port only because of
a program outside the harness).

`Matrix`: `FileHasAll`, `FullReport`, `LogReconstructs`, `GateIsRight` (a job passes
just when the result of some subtest can be read back and none that can is a
conflict), `PublishedAnyway` (what the gate finds stops the job, not the page, and
the page is never made of half a report), `WorkflowEnds`.

Each property is shown to depend on the code: next to the definitions stand
mutants, the way a plausible bug would have it (`CollectEither`,
`AppendUnlocked`, `DispatchOne`, ...), and the property fails under its mutant.

### Fairness

`FairSpec` of `TestSession` gives weak fairness to the main goroutine, to each
worker, reader and node: the Go scheduler runs a goroutine that can run, a
`time.After` fires, the system schedules a process that is not stuck. Nothing is
owed by the actions that fail (`NodeFails`, `SpawnFails` shares `MainStep`
but is never the only step), by a foreign node's stray lines or by the end of
the harness. `StdinReader` has weak fairness for the node alone: nobody owes it
input or a hangup. `Matrix` has it for go test (its `-timeout` makes sure that
something happens even when a subtest hangs) and for the steps of the workflow.

`Spec` of `FeatureTests` gives weak fairness to a test whose loop sees what it
waits for, and to the libraries' deliveries while the programs at both ends
iterate them, which is what "the implementations work" means. No timer has to run
out and nothing has to break; repeated friend requests are owed by nobody.
`TestsEnd` adds, as its own hypothesis, that each node's test goes on or its timer
runs out. `Ports` has no liveness property: other programs may hold every port.

### What the code does otherwise than it says

* `RunIsBounded` fails: `Close` waits for the process without a timer
  (`node.go:295`), while `perTestTimeout` is called "the maximum time allowed
  for a single (feature, pair) run".
* `CloseNeverDeadlocks` fails for a node that prints more than the channel and
  the pipe hold, in the trace one still in its test when the harness's deadline is
  past: the reader stops draining when the channel is full. None of the three nodes
  prints so much.
* `TwoTimeoutsAreNoConflict` fails: the nodes' own timers fire before the
  harness's and are reported as `conflicting`, exit code 3, to which the rule for
  two timeouts does not apply.
* `NoPartialTail` fails: the drain loop of the C node throws away the block with
  the newline, and the rest of the next line is dispatched. It takes a line of
  4095 bytes or more; the harness sends none.
* `LogReconstructs` fails on a machine with an older results file.
* `OnlyResponderEchoes` fails: the comments of both message callbacks speak of the
  responder, the callbacks do not look at the role. Harmless, as `OneBallInPlay`
  shows.

## 4. What is proved

All proofs hold for every value of the constants that satisfies the named
assumptions (`PairsAssumption`, `BoundsAssumption`, `SizeAssumption`,
`StreamsAssumption`, `CapAssumption`, `CasesAssumption`, `LeftoverAssumption`,
`FeaturesAssumption`, `RequestsAssumption`, `ChunksAssumption`, `PortAssumption`,
`NodeAssumption`), which TLC evaluates on every run.

**A pair run** (`TestSession_proofs`). `TypeOK` is inductive. The strengthening
is
* `PhaseInv`: what the place of the main goroutine says about the other
  variables (which nodes are owned, when workers are idle, that no verdict
  exists before an early return or `Collect`);
* `LinesInv`: what can be in a pipe; a node's first line is ready, an error or
  a foreign one, and a result is in it only after `run_test` was read;
* `AnswerInv`: an answer is one of the two the harness makes up or stands in the
  received part of stdout;
* `EarnedInv`: the verdict is the classification of the two answers, or one of
  the two startup verdicts.

Their conjunction `IInv` gives `CompatibleEarned` and `SkipJustified`; without
`LinesInv` an answer could stand in a pipe nobody asked for it, without
`AnswerInv` a verdict could rest on nothing. `VerdictIsFinal` and
`SessionImplementsPairVerdict` are proved from it action by action.
`TestsAfterBootstrap` needs `OrderInv` (the commands sent to a node, by place),
`NoProcessLeaked` needs `CloseInv` (a node not closed yet is still ahead of the
main goroutine). `ConflictsHaveCause` needs it too, and `BreakInv`: an answer the
harness reads as a broken node stands for one that died, which is for good, or for an
error line it received; and `ErrorInv`: such a line comes from a node that dies with it
or from a C node whose peer announced an unusable key, for which `HelloInv` says that
`hello` is not set twice. `ChannelNeverFills` needs `BudgetInv`: commands sent and
lines printed are counted, so a node prints at most 1 + 3 + `MaxStray` lines. The
theorem asks for a channel larger than that; TLC finds that 3 suffice with one
stray line, because the ready line is received before anything is sent. From the
same count follows `CloseIsSafe`: with such a channel `Close` and a node never wait
for each other, whatever the pipe holds. So the deadlock of `session_chatty` needs a
node that prints some 250 lines nobody receives any more, and no more than that.

**The end of a run** (`TestSessionEnd_proofs`). `RunsAreFinite`: `RunIsFinite` holds
for every set of pairs, capacity and number of stray lines, from `IInv`, `CloseInv` and
`BudgetInv`. It is the part of termination that can be proved without fairness; what is
left to the liveness properties is that somebody takes a step when one is possible.
`Left` is a sum over the main goroutine and the two sides, and a step of a worker,
reader or node changes one side (`SideChange`, `SameSide`, `LessStep`), where it
lowers one summand by more than it raises the others: what sends a command or prints
a line pays for the way to its receiver.

**Classification** (`Classify_proofs`): every two answers have a verdict,
`compatible` needs both exit codes to be 0 and neither side to be silent, broken
or without the feature, and the status does not depend on who is the initiator.

**The stdin reader** (`StdinReader_proofs`): for every stream, buffer and drain
size the node never waits with a line in its buffer, dispatches exactly the lines
written when they fit, and nothing after shutdown. The invariant behind it says
that outside the overlong branch the buffer begins where a line begins, and what
was dispatched is what ended before it. `ReaderImplementsLineStream` holds without
the assumption that lines fit: it maps each action of the reader to one of
`LineStream` or a stutter, and rests on `EmptyInv` (nothing is in the buffer while
an overlong line is drained, and what is in it in `select` has no newline).
`ReaderNeverSpins` proves the variant `Work`. `TailsHaveCause` needs `TailInv`: the
buffer begins where a line does or within a block of an overlong one, and while one
is drained the last `BufCap` bytes read had no newline. `FittingLinesAreWhole` is
the comment `stdin_overlong` refutes, for the streams it is true of.

**The report** (`Matrix_proofs`): for every set of cases, `FullReport`
whatever an earlier job left, and `FileHasAll`, `LogReconstructs` and
`GateIsRight` when it left nothing (`Leftover = {}`; the run `matrix_stale` shows
that the assumption is needed). `ReportInv` says that the report is made when
nothing it is made from can change any more; `FreshInv` that a complete file is
this job's. With both, the records of the report are those that can be read back
(`FreshReport`), and the gate decides on them, or fails for want of any. `PageIsPublished` holds for every set of cases and whatever an earlier
job left.

**The feature tests** (`FeatureTests_proofs`): for every set of pairs of Go and C
nodes, any number of repeated requests and any number of chunks, `TypeOK`,
`CompatibleIsReal`, `VerifiedIsWhole`, `AcceptedIsFriend` and `OneBallInPlay`. The
invariant has one part per module, and each is shown to survive the steps of the
other modules by what they have in common (`Quiet`: no test goes back to its
beginning, and only a feature's own tests find it compatible):
* `PairInv`: a test is only in a loop of its own feature and role (`Loops`), it
  has printed exactly when it is done, nobody is online before each has added the
  other, and a C responder's flag means that the add succeeded;
* `ChatInv`: nothing is under way before the ping, and what A hears was echoed by
  B, who had heard it;
* `FileInv`: nothing of the transfer happens before A's friend is online, and the
  final call comes after the last chunk and once, so a verified buffer is not
  touched again, neither by a chunk nor by a late offer;
* `ConfInv`: whatever is seen of the conference at either end goes back to B's
  membership, which nothing takes away.

**A run as a whole** (`PairRun_proofs`). The constants are assumed to be what both
parts assume of theirs (`ConstantsOK`). `RunIsSession` and `RunIsTests` show that a
run is one of `TestSession` (a refinement step by step; the results a test can end
with are among those `TestSession` lets a node print) and makes only steps that
`FeatureTests` has, so the invariants of both hold of it. `Link` joins them: a test
has begun only in a node that read `run_test`, and every result in a pipe is what a
finished test left. With it
* `AnswersAreOutcomes` follows from `AnswerInv`: an answer that was not made up stands
  in the pipe, and what stands there is `out[n]`;
* `CompatibleExchanged` from `EarnedInv`, `AnswersAreOutcomes` and the lemma `RealNow`
  of `FeatureTests_proofs`: a compatible verdict is the classification of two answers
  neither of which can be made up, hence of two finished tests, which the invariant of
  the tests says have done what the feature is about;
* `SkipsAreTrue` from `EarnedInv`, `Link` and `Support`: no node prints the ready
  message of a stub, and no test but that of a node without the feature ends with
  `not_implemented` (`TestMoves` of `FeatureTests_proofs`);
* `TestsAreWired` from `Link` and `OrderInv`.

This is the statement the program is for, over nodes that crash, hang, are killed or
answer late. A foreign or stub node has no tests and is not in it.

**The ports** (`Ports_proofs`): for every set of runs, base port, default range and
inherited environment, `BootstrapReachesPeer` and `NoContention`. `TakenOnce` says
that no port is taken twice, `OwnPort` that a node holds and announces the port
taken for it, which rests on the lemma `OneRange`: what a node reads from the
filtered environment is that port and nothing else.

Only model-checked: the liveness properties (`VerdictReached`, `SessionReturns`,
`ReaderExits`, `OrphansExit`, `LineReached`, `HangupEnds`, `WorkingPairSucceeds`,
`TestsEnd`, `WorkflowEnds`), since TLAPS proves nothing about fairness or ENABLED
here. Neither prover can use induction over data, so that `Left` and `Work` are
naturals that fall is proved, and that a falling natural stops falling is not put as a
theorem about behaviours. Only proved, and checked outside the runs of the table by
`pair.cfg`: the properties of `PairRun`.

## 5. What is not modelled

* Durations. A timer may fire at any moment while it is waited for. That the
  timers of one test add up to more than 90 s, and that the C node's loops count
  iterations and not seconds, are therefore causes the model does not see of
  effects (a late answer, an early timeout) it does. For the same reason no
  property tells an event the Go node noticed too late from one that never came.
* The Tox libraries: they are the environment of the feature tests. What is
  assumed of them is that a friend comes online only when each has added the
  other, that a file arrives in order and its end is told once, that the Go
  library calls its callbacks only inside `Iterate`, and that nobody but the two
  nodes takes part. Anything may fail or get lost.
* The JSON and hex helpers of the nodes: pure conversions; messages are records
  here, and a key that is not hex is one of the kinds of ready line.
* Lines of a node longer than the 64 KiB of Go's `bufio.Scanner`, which would end
  the reader of a live node and make its answer an error. Nothing the two nodes print
  comes near it; `ConflictHasCause` is true of nodes that keep to that.
* The branches of the C node's command loop for an error of `read` or `select` on
  stdin (`main.c:967-972`, `990`): the node installs no signal handler, so no call is
  interrupted, and a pipe gives no other error. An error inside the drain would end
  it as the end of the input does (`DrainEnds`).
* Malformed commands and results of the nodes' JSON, which neither side sends;
  SIGTERM to the Go node.
* Layout, order and time stamp of the report, the text of the page, and the jobs
  that build the nodes.

## 6. The plan

Done: `Classify`, `PairVerdict`, `TestSession`, `LineStream`, `StdinReader`, `Matrix`,
`ToxPair`, `FriendTests`, `FileTransfer`, `Conference`, `FeatureTests`, `PairRun`,
`Ports`, with their runs and theorems. What is left, in this order:

1. `RunIsFinite` for `FeatureTests`, where it can hold: the tests without the two
   echoing callbacks, which go on for ever.
2. A model of the timers in common units, to ask which tests can outlast the 90 s
   the harness waits, and which sides wait longer than their peers serve.
3. A refinement from `PairRun` to a specification of one case of the matrix.
4. The order of the records and the counts in the report's summary.
