---------------------------- MODULE FeatureTests -----------------------------
(***************************************************************************)
(* Two nodes run one feature test against each other: runTest of the Go    *)
(* node and the run_test command of the C node, over the tests in          *)
(* FriendTests, FileTransfer and Conference, and what the harness makes of *)
(* the two results. The processes, pipes and the harness's own timeout are *)
(* TestSession's matter. Timers may run out at any moment.                 *)
(***************************************************************************)
EXTENDS FriendTests, FileTransfer, Conference

vars == <<pairVars, chatVars, fileVars, confVars>>

Init == PairInit /\ ChatInit /\ FileInit /\ ConfInit

-----------------------------------------------------------------------------
(***************************************************************************)
(* What the test of node n does next: begin, see what it waits for, or run *)
(* into its timer.                                                         *)
(***************************************************************************)
Common(A) == A /\ UNCHANGED <<chatVars, fileVars, confVars>>
Friend(A) == A /\ UNCHANGED <<fileVars, confVars>>
Filing(A) == A /\ UNCHANGED <<chatVars, confVars>>
Confer(A) == A /\ UNCHANGED <<chatVars, fileVars>>

TestStep(n) ==
  \/ Common(NotSupported(n) \/ StartDHT(n) \/ DHTFound(n))
  \/ /\ n = "A"
     /\ \/ Common(AddFriend)
        \/ Friend(RequestAnswered \/ SendPing \/ EchoHeard)
        \/ Filing(SendFile \/ FileSent)
        \/ Confer(CreateAndInvite \/ PeerJoined \/ (peers /\ SendToConference))
  \/ /\ n = "B"
     /\ \/ Friend(StartRequested \/ Requested \/ StartServing \/ Served)
        \/ Filing(StartReceiving \/ FileReceived)
        \/ Confer(StartInvited \/ Join \/ Joined \/ MessageHeard)

Timer(n) ==
  \/ Common(DHTTimeout(n))
  \/ /\ n = "A"
     /\ \/ Common(NeverOnline) \/ Friend(EchoTimeout) \/ Filing(SendTimeout)
        \/ Confer(NoPeer \/ (~peers /\ SendToConference))
  \/ /\ n = "B"
     /\ \/ Friend(RequestTimeout) \/ Filing(ReceiveTimeout)
        \/ Confer(InviteTimeout \/ JoinTimeout \/ MessageTimeout)

\* The libraries deliver, and call the callbacks.
Delivers ==
  \/ Common(cb_friend_request)
  \/ \E n \in Node : Common(DHTConnects(n) \/ ComesOnline(n))
                     \/ Friend(cb_friend_message(n))
  \/ Filing(cb_file_recv \/ cb_file_chunk_request \/ cb_file_recv_chunk)
  \/ Confer(cb_conference_invite \/ cb_conference_connected \/ PeerCounted
            \/ cb_conference_message)

\* ... or fail to.
Breaks ==
  \/ \E n \in Node : Common(GoesOffline(n)) \/ Friend(ChatLost(n))
  \/ Confer(MessageLost)

\* Both results are printed; the harness ends the nodes.
AllDone == \A n \in Node : place[n] = "done"
Ended   == AllDone /\ UNCHANGED vars

Next ==
  \/ \E n \in Node : TestStep(n) \/ Timer(n)
  \/ Delivers \/ Breaks \/ Ended

(***************************************************************************)
(* Fairness: a node whose loop sees what it waits for goes on, and the     *)
(* libraries do their part as long as the programs at both ends iterate    *)
(* them. No timer has to run out, and nothing has to break.                *)
(***************************************************************************)
BothIterate == \A n \in Node : Iterates(n)

Spec ==
  /\ Init /\ [][Next]_vars
  /\ \A n \in Node : /\ WF_vars(TestStep(n))
                     /\ WF_vars(Common(BothIterate /\ (DHTConnects(n) \/ ComesOnline(n))))
                     /\ WF_vars(Friend(cb_friend_message(n)))
  /\ WF_vars(Common(cb_friend_request /\ "B" \notin friends))
  /\ WF_vars(Filing(cb_file_recv \/ cb_file_chunk_request \/ cb_file_recv_chunk))
  /\ WF_vars(Confer(cb_conference_invite)) /\ WF_vars(Confer(cb_conference_connected))
  /\ WF_vars(Confer(PeerCounted)) /\ WF_vars(Confer(cb_conference_message))

-----------------------------------------------------------------------------
(***************************************************************************)
(* Properties.                                                             *)
(***************************************************************************)

\* Types. A node prints only the results its code has, which are those
\* TestSession lets it print, and the end of a file is told once.
TypeOK ==
  /\ feature \in Features /\ impl \in Pairs
  /\ place   \in [Node -> Place]
  /\ \A n \in Node : out[n] \in Results(impl[n]) \cup {None}
  /\ DOMAIN out = Node
  /\ dht \subseteq Node /\ friends \subseteq Node /\ online \subseteq Node
  /\ requests \in 0..MaxRequests
  /\ requested \in BOOLEAN /\ friendNum \in {"peer", "none"}
  /\ mishap \in BOOLEAN
  /\ wire  \in [Node -> Nat] /\ heard \in [Node -> BOOLEAN]
  /\ echoed \subseteq Node
  /\ offer \in {"none", "sent", "accepted", "dead"}
  /\ asked \in 0..Chunks + 1 /\ arrived \in 0..Chunks + 1
  /\ pos \in 0..Chunks /\ whole \subseteq File
  /\ sendDone \in BOOLEAN /\ complete \in BOOLEAN
  /\ invited \in {"none", "sent", "seen"}
  /\ cookie \in BOOLEAN /\ member \in BOOLEAN /\ joined \in BOOLEAN
  /\ peers \in BOOLEAN /\ carried \in BOOLEAN /\ received \in BOOLEAN

(***************************************************************************)
(* A pair the harness calls compatible has done what the feature is about, *)
(* at both ends, although neither node's result alone says so: the Go      *)
(* responder counts requests it could not accept, the initiator of         *)
(* conference_message does not know whether anybody listens, and the       *)
(* responder of friend_message reports success in any case (the feature    *)
(* tests of both nodes, classifyResults).                                  *)
(***************************************************************************)
Exchanged ==
  CASE feature = "dht_bootstrap"      -> dht = Node
    [] feature = "friend_request"     -> friends = Node
    [] feature = "friend_message"     -> heard["B"] /\ "B" \in echoed /\ heard["A"]
    [] feature = "file_transfer"      -> sendDone /\ pos = Chunks /\ whole = File
    [] feature = "conference_invite"  -> member /\ joined /\ peers
    [] feature = "conference_message" -> member /\ received

CompatibleIsReal ==
  AllDone /\ classifyResults(out["A"], out["B"]).status = "compatible" => Exchanged

(***************************************************************************)
(* The responder says "file received and verified" only of a buffer that   *)
(* holds the whole file, at that moment and from then on, whenever the     *)
(* transfer began and whatever was wiped (test_file_transfer, the file     *)
(* callbacks).                                                             *)
(***************************************************************************)
VerifiedIsWhole ==
  feature = "file_transfer" /\ out["B"] = Compatible => whole = File /\ pos = Chunks

(***************************************************************************)
(* The C responder reports a request as accepted only when the initiator   *)
(* is in its friend list, however often requests come and adds fail        *)
(* (cb_friend_request, test_friend_request).                               *)
(***************************************************************************)
AcceptedIsFriend ==
  feature = "friend_request" /\ impl["B"] = "c" /\ out["B"] = Compatible =>
    "B" \in friends

(***************************************************************************)
(* Both nodes send back whatever they hear, so the ping goes back and      *)
(* forth for as long as they run; but it never becomes two (the friend     *)
(* message callbacks of both nodes).                                       *)
(***************************************************************************)
OneBallInPlay == wire["A"] + wire["B"] <= 1

(***************************************************************************)
(* Implementations that work together are found compatible: the pair       *)
(* succeeds unless something goes wrong that no test repairs (`mishap': a  *)
(* call fails, a message or chunk is lost or damaged, a timer runs out, a  *)
(* request is repeated to a conference test, a conference cookie does not  *)
(* fit, an invitation or a chunk comes before the test that wipes it), or  *)
(* a Go node that has its answer stops iterating while its peer still      *)
(* needs it (all the feature tests and callbacks).                         *)
(***************************************************************************)
Deaf(n) == impl[n] = "go" /\ place[n] = "done" /\ place[Peer(n)] # "done"

WorkingPairSucceeds ==
  (\A n \in Node : Implements(n)) =>
    <>(mishap \/ (\E n \in Node : Deaf(n)) \/ \A n \in Node : out[n] = Compatible)

(***************************************************************************)
(* Every test comes to its end and is reported, whatever the peer and the  *)
(* network do: no loop is left without a timer (the loops of all the       *)
(* feature tests).                                                         *)
(***************************************************************************)
TestsEnd == (\A n \in Node : WF_vars(TestStep(n) \/ Timer(n))) => <>AllDone

(***************************************************************************)
(* "Echo the message back (responder role)" (main.c:212), "Echo message    *)
(* back for responder role" (cmd/go-testnode/main.go:425).                 *)
(***************************************************************************)
OnlyResponderEchoes == echoed \subseteq {"B"}
=============================================================================
