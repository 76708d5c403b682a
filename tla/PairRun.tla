------------------------------- MODULE PairRun -------------------------------
(***************************************************************************)
(* One (feature, pair) run as a whole: the harness, pipes and processes of *)
(* TestSession, whose nodes run the feature tests of FeatureTests. What a  *)
(* node does after it has read run_test, and the one of its results that   *)
(* NodeResult prints, is left open by TestSession and settled here; that   *)
(* a process dies, hangs or is killed in the middle of a test is left out  *)
(* by FeatureTests and happens here.                                       *)
(*                                                                         *)
(* The instances are of the modules with the theorems, which define what   *)
(* the modules they are about define, and carry the lemmas.                *)
(***************************************************************************)
EXTENDS Naturals, Sequences

CONSTANTS Pairs, LinesCap, StdoutCap, MaxStray,   \* of TestSession
          Features, MaxRequests, Chunks           \* of FeatureTests

VARIABLES
  impl,                                           \* of both
  alive, pc, at, owned, hello, worker, reader, closed, reaped,
  proc, sent, got, stdout, fwd, rcv, strays, res, verdict,
  feature, place, out, dht, friends, online, requests, requested, friendNum,
  mishap, wire, heard, echoed, offer, asked, arrived, sendDone, pos, whole,
  complete, invited, cookie, member, joined, peers, carried, received

S == INSTANCE TestSession_proofs
F == INSTANCE FeatureTests_proofs

harnessVars ==
  <<alive, impl, pc, at, owned, hello, verdict, reaped, worker, res, rcv,
    reader, closed, fwd, sent>>
sessionVars == <<harnessVars, proc, got, stdout, strays>>
testVars ==
  <<impl, feature, place, out, dht, friends, online, requests, requested, friendNum,
    mishap, wire, heard, echoed, offer, asked, arrived, sendDone, pos, whole,
    complete, invited, cookie, member, joined, peers, carried, received>>
vars == <<sessionVars, testVars>>

Node == {"A", "B"}

\* What the instances assume of the constants: implementations that have
\* feature tests, a channel and a pipe with room, a file that is not empty.
ConstantsOK ==
  /\ S!PairsAssumption /\ S!BoundsAssumption
  /\ F!PairsAssumption /\ F!FeaturesAssumption /\ F!RequestsAssumption /\ F!ChunksAssumption

Init == S!Init /\ F!Init

-----------------------------------------------------------------------------
(***************************************************************************)
(* A step of the session that is no step of a feature test: everything but *)
(* the printing of a result.                                               *)
(***************************************************************************)
SessionStep ==
  /\ \/ S!MainStep \/ S!HarnessEnds
     \/ \E n \in Node :
          \/ S!WorkerStep(n) \/ S!ReaderStep(n) \/ S!NodeFails(n)
          \/ S!NodeReady(n) \/ S!NodeInitFails(n) \/ S!NodeBootstrap(n)
          \/ S!NodeRunTest(n) \/ S!NodeShutdown(n) \/ S!NodeEOF(n)
  /\ UNCHANGED testVars

\* The test function has returned, and the command loop prints what it
\* returned: that, and nothing else.
PrintResult(n) ==
  /\ proc[n] = "test" /\ place[n] = "done"
  /\ S!Emit(n, S!ResultLine(out[n]), "loop")
  /\ UNCHANGED <<harnessVars, got, strays, testVars>>

\* The run_test command calls the test, which begins, goes on, and runs
\* into its timers while the process is in that command.
RunTest(n) ==
  /\ proc[n] = "test"
  /\ F!TestStep(n) \/ F!Timer(n)
  /\ UNCHANGED sessionVars

\* The Tox library of n delivers to n, and calls its callbacks, while the
\* process is in its command loop or in a test, and calls it.
Library(n) ==
  /\ proc[n] \in {"loop", "test"}
  /\ \/ F!Common(F!DHTConnects(n) \/ F!ComesOnline(n) \/ F!GoesOffline(n))
     \/ F!Friend(F!cb_friend_message(n))
     \/ /\ n = "A"
        /\ F!Filing(F!cb_file_chunk_request) \/ F!Confer(F!PeerCounted)
     \/ /\ n = "B"
        /\ \/ F!Common(F!cb_friend_request)
           \/ F!Filing(F!cb_file_recv \/ F!cb_file_recv_chunk)
           \/ F!Confer(F!cb_conference_invite \/ F!cb_conference_connected
                       \/ F!cb_conference_message)
  /\ UNCHANGED sessionVars

\* What was sent is lost on its way.
Lost ==
  /\ \/ \E n \in Node : F!Friend(F!ChatLost(n))
     \/ F!Confer(F!MessageLost)
  /\ UNCHANGED sessionVars

Terminated == S!Finished /\ UNCHANGED vars

Next ==
  \/ SessionStep
  \/ \E n \in Node : PrintResult(n) \/ RunTest(n) \/ Library(n)
  \/ Lost
  \/ Terminated

Spec == Init /\ [][Next]_vars

-----------------------------------------------------------------------------
(***************************************************************************)
(* Properties.                                                             *)
(***************************************************************************)

\* The types of both parts.
TypeOK == S!TypeOK /\ F!TypeOK

(***************************************************************************)
(* An entry "compatible" of the report means that the feature was          *)
(* exercised at both ends. Between the exchange and the entry are a result *)
(* printed by each node, two pipes, two channels and the classification;   *)
(* processes die, timers run out and lines are skipped on the way          *)
(* (runCompatTest, waitForResult, the feature tests of both nodes).        *)
(***************************************************************************)
CompatibleIsExchanged == verdict.status = "compatible" => F!Exchanged

(***************************************************************************)
(* What the harness takes for the answer of a node is what the node's test *)
(* ended with, unless it made the answer up for a silent or broken node    *)
(* (RunTest, parseResultLine, the run_test command of the nodes).          *)
(***************************************************************************)
AnswerIsOutcome ==
  \A n \in Node :
    \/ res[n] \in {S!None, S!HarnessTimeout, S!IPCError}
    \/ place[n] = "done" /\ res[n] = out[n]

(***************************************************************************)
(* An entry "not_implemented", which the gate lets pass, hides no pair     *)
(* that could have been tested and answered: a process was not made or did *)
(* not say it is ready, a node has no test of the feature, or the harness  *)
(* heard of neither node before its deadline (runCompatTest,               *)
(* isStartupFailure, classifyResults, the run_test command of the nodes).  *)
(***************************************************************************)
SkipIsTrue ==
  verdict.status = "not_implemented" =>
    \/ owned # Node
    \/ \E n \in Node : ~F!Implements(n)
    \/ \A n \in Node : res[n] = S!HarnessTimeout

(***************************************************************************)
(* No test has begun before the pair was wired: the node was told to run   *)
(* it, has read the bootstrap off its peer, and the reverse one is on its  *)
(* way, where the peer announced a port (runCompatTest, the command loops).*)
(***************************************************************************)
TestIsWired ==
  \A n \in Node : place[n] # "idle" =>
    /\ S!ReadTest(n)
    /\ S!Bootstrapped(n, got[n])
    /\ S!Bootstrapped(S!Peer(n), Len(sent[S!Peer(n)]))
=============================================================================
