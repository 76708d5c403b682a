----------------------------- MODULE FriendTests -----------------------------
(***************************************************************************)
(* friend_request and friend_message, in both roles, on the Go and on the  *)
(* C node. All chat messages carry the same text, the ping.                *)
(***************************************************************************)
EXTENDS ToxPair

VARIABLES
  wire,     \* wire[n]: chat messages on their way to n
  heard,    \* heard[n]: g_msg_received, or len(messages) > 0
  echoed    \* the nodes whose callback sent a message back

chatVars == <<wire, heard, echoed>>

ChatInit ==
  /\ wire   = [n \in Node |-> 0]
  /\ heard  = [n \in Node |-> FALSE]
  /\ echoed = {}

-----------------------------------------------------------------------------
\* test_friend_request, initiator.
RequestAnswered ==
  /\ feature = "friend_request" /\ FriendOnline
  /\ Report("A", Compatible)
  /\ UNCHANGED <<fixedVars, dht, friendVars, mishap, chatVars>>

\* test_friend_request, responder: the flag may be up before the test.
StartRequested ==
  /\ feature = "friend_request" /\ Waits("B", "idle")
  /\ GoOn("B", "request")
  /\ UNCHANGED <<fixedVars, dht, friendVars, mishap, chatVars>>

Requested ==
  /\ Waits("B", "request") /\ requested
  /\ Report("B", Compatible)
  /\ UNCHANGED <<fixedVars, dht, friendVars, mishap, chatVars>>

RequestTimeout ==
  /\ Waits("B", "request") /\ Expired("B", requested)
  /\ TimedOut("B")
  /\ UNCHANGED <<fixedVars, dht, friendVars, chatVars>>

-----------------------------------------------------------------------------
\* test_friend_message, initiator: the ping. Only the C node forgets what
\* it heard before.
SendPing ==
  /\ feature = "friend_message" /\ FriendOnline
  /\ \/ /\ wire'  = [wire EXCEPT !["B"] = @ + 1]
        /\ heard' = [heard EXCEPT !["A"] = impl["A"] = "go" /\ @]
        /\ GoOn("A", "echo")
        /\ UNCHANGED mishap
     \/ /\ Report("A", ConflictingBy1)
        /\ mishap' = TRUE
        /\ UNCHANGED <<wire, heard>>
  /\ UNCHANGED <<fixedVars, dht, friendVars, echoed>>

EchoHeard ==
  /\ Waits("A", "echo") /\ heard["A"]
  /\ Report("A", Compatible)
  /\ UNCHANGED <<fixedVars, dht, friendVars, mishap, chatVars>>

EchoTimeout ==
  /\ Waits("A", "echo") /\ Expired("A", heard["A"])
  /\ TimedOut("A")
  /\ UNCHANGED <<fixedVars, dht, friendVars, chatVars>>

\* test_friend_message, responder: 60 seconds of iterations, whatever comes.
StartServing ==
  /\ feature = "friend_message" /\ Waits("B", "idle")
  /\ GoOn("B", "serve")
  /\ UNCHANGED <<fixedVars, dht, friendVars, mishap, chatVars>>

Served ==
  /\ Waits("B", "serve")
  /\ Report("B", Compatible)
  /\ UNCHANGED <<fixedVars, dht, friendVars, mishap, chatVars>>

-----------------------------------------------------------------------------
\* Mutant: the message is sent back twice, the first send being thought lost.
cb_friend_message_resends(n) ==
  /\ wire[n] > 0 /\ Iterates(n)
  /\ heard'  = [heard EXCEPT ![n] = TRUE]
  /\ wire'   = [wire EXCEPT ![n] = @ - 1, ![Peer(n)] = @ + 2]
  /\ echoed' = echoed \cup {n}
  /\ UNCHANGED <<pairVars>>

\* Mutant: a message is sent back only while the responder's test runs.
cb_friend_message_serving(n) ==
  /\ wire[n] > 0 /\ Iterates(n)
  /\ heard' = [heard EXCEPT ![n] = TRUE]
  /\ IF place[n] = "serve"
       THEN wire' = [wire EXCEPT ![n] = @ - 1, ![Peer(n)] = @ + 1] /\ echoed' = echoed \cup {n}
       ELSE wire' = [wire EXCEPT ![n] = @ - 1] /\ UNCHANGED echoed
  /\ UNCHANGED <<pairVars>>

\* A message comes in and is sent back, by either role and also outside the
\* test; an error of the send is ignored.
cb_friend_message(n) ==
  /\ wire[n] > 0 /\ Iterates(n)
  /\ heard' = [heard EXCEPT ![n] = TRUE]
  /\ \/ /\ wire'   = [wire EXCEPT ![n] = @ - 1, ![Peer(n)] = @ + 1]
        /\ echoed' = echoed \cup {n}
        /\ UNCHANGED mishap
     \/ /\ wire'   = [wire EXCEPT ![n] = @ - 1]
        /\ mishap' = TRUE
        /\ UNCHANGED echoed
  /\ UNCHANGED <<fixedVars, testVars, dht, friendVars>>

\* A connection that breaks takes the messages on their way with it.
ChatLost(n) ==
  /\ wire[n] > 0
  /\ wire'   = [wire EXCEPT ![n] = @ - 1]
  /\ mishap' = TRUE
  /\ UNCHANGED <<fixedVars, testVars, dht, friendVars, heard, echoed>>
=============================================================================
