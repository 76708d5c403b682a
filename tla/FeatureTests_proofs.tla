------------------------- MODULE FeatureTests_proofs -------------------------
(***************************************************************************)
(* Proofs about the feature tests of a pair, for every pair of Go and C    *)
(* nodes, every number of repeated requests and every size of the file.    *)
(***************************************************************************)
EXTENDS FeatureTests, Classify_proofs

(***************************************************************************)
(* The steps, by the module they are from.                                 *)
(***************************************************************************)
CommonStep ==
  \/ \E n \in Node : \/ NotSupported(n) \/ StartDHT(n) \/ DHTFound(n) \/ DHTTimeout(n)
                     \/ DHTConnects(n) \/ ComesOnline(n) \/ GoesOffline(n)
  \/ AddFriend \/ NeverOnline \/ cb_friend_request

FriendStep ==
  \/ RequestAnswered \/ SendPing \/ EchoHeard \/ EchoTimeout
  \/ StartRequested \/ Requested \/ RequestTimeout \/ StartServing \/ Served
  \/ \E n \in Node : cb_friend_message(n) \/ ChatLost(n)

FileStep ==
  \/ SendFile \/ FileSent \/ SendTimeout
  \/ StartReceiving \/ FileReceived \/ ReceiveTimeout
  \/ cb_file_recv \/ cb_file_chunk_request \/ cb_file_recv_chunk

ConfStep ==
  \/ CreateAndInvite \/ PeerJoined \/ NoPeer \/ SendToConference
  \/ StartInvited \/ InviteTimeout \/ Join \/ Joined \/ JoinTimeout
  \/ MessageHeard \/ MessageTimeout
  \/ cb_conference_invite \/ cb_conference_connected \/ PeerCounted
  \/ cb_conference_message \/ MessageLost

LEMMA Steps ==
  ASSUME [Next]_vars
  PROVE  Common(CommonStep) \/ Friend(FriendStep) \/ Filing(FileStep) \/ Confer(ConfStep)
           \/ UNCHANGED vars
<1>1. ASSUME NEW n \in Node, TestStep(n)
      PROVE  Common(CommonStep) \/ Friend(FriendStep) \/ Filing(FileStep) \/ Confer(ConfStep)
  BY <1>1 DEF TestStep, Common, Friend, Filing, Confer, CommonStep, FriendStep, FileStep, ConfStep
<1>2. ASSUME NEW n \in Node, Timer(n)
      PROVE  Common(CommonStep) \/ Friend(FriendStep) \/ Filing(FileStep) \/ Confer(ConfStep)
  BY <1>2 DEF Timer, Common, Friend, Filing, Confer, CommonStep, FriendStep, FileStep, ConfStep
<1>3. CASE Delivers \/ Breaks
  BY <1>3 DEF Delivers, Breaks, Common, Friend, Filing, Confer,
              CommonStep, FriendStep, FileStep, ConfStep
<1> QED
  BY <1>1, <1>2, <1>3 DEF Next, Ended

\* The results a node prints are ones its code has, and none is None.
LEMMA Outcomes ==
  /\ \A i \in {"go", "c"} : {Compatible, ConflictingBy1, ConflictingBy3} \subseteq Results(i)
  /\ NotImplemented \in Results("go")
  /\ None \notin {Compatible, ConflictingBy1, ConflictingBy3, NotImplemented}
  /\ Compatible \notin {ConflictingBy1, ConflictingBy3, NotImplemented}
<1>1. Results("go") = goResults /\ Results("c") = cResults
  BY DEF Results
<1> QED
  BY <1>1 DEF goResults, cResults, Compatible, ConflictingBy1, ConflictingBy3, NotImplemented, None

-----------------------------------------------------------------------------
(***************************************************************************)
(* The common state. A test is only in a loop of its own feature and role, *)
(* and prints once, at its end.                                            *)
(***************************************************************************)
PairType ==
  /\ feature \in Features /\ impl \in Pairs
  /\ place \in [Node -> Place]
  /\ DOMAIN out = Node /\ \A n \in Node : out[n] \in Results(impl[n]) \cup {None}
  /\ dht \subseteq Node /\ friends \subseteq Node /\ online \subseteq Node
  /\ requests \in 0..MaxRequests
  /\ requested \in BOOLEAN /\ friendNum \in {"peer", "none"} /\ mishap \in BOOLEAN

Loops(n) ==
  /\ place[n] = "dht"    => feature = "dht_bootstrap"
  /\ place[n] = "online" => n = "A" /\ feature # "dht_bootstrap"
  /\ place[n] = "request" => n = "B" /\ feature = "friend_request"
  /\ place[n] = "echo"   => n = "A" /\ feature = "friend_message"
  /\ place[n] = "serve"  => n = "B" /\ feature = "friend_message"
  /\ place[n] = "sending"   => n = "A" /\ feature = "file_transfer"
  /\ place[n] = "receiving" => n = "B" /\ feature = "file_transfer"
  /\ place[n] = "peer"   => n = "A" /\ Conferring
  /\ place[n] = "invite" => n = "B" /\ Conferring
  /\ place[n] = "join"   => n = "B" /\ feature = "conference_invite"
  /\ place[n] = "message" => n = "B" /\ feature = "conference_message"

PairInv ==
  /\ PairType
  /\ \A n \in Node : Loops(n) /\ (place[n] = "done" <=> out[n] # None)
  /\ online # {} => friends = Node
  /\ requested /\ impl["B"] = "c" => "B" \in friends
  /\ feature = "dht_bootstrap" => \A n \in Node : out[n] = Compatible => n \in dht
  /\ feature = "friend_request" => /\ out["A"] = Compatible => friends = Node
                                   /\ out["B"] = Compatible => requested

\* What a test that goes on or ends does to the common state.
LEMMA GoOnFrame ==
  ASSUME PairInv, NEW n \in Node, NEW p \in Place \ {"done"}, place[n] # "done", GoOn(n, p),
         UNCHANGED <<fixedVars, dht, friendVars>>, mishap' \in BOOLEAN, Loops(n)'
  PROVE  PairInv'
<1>1. place' = [place EXCEPT ![n] = p] /\ out' = out
  BY DEF GoOn
<1>2. \A m \in Node : m # n => Loops(m)'
  BY <1>1 DEF PairInv, PairType, Loops, Conferring, fixedVars
<1> QED
  BY <1>1, <1>2 DEF PairInv, PairType, fixedVars, friendVars, Place

LEMMA ReportFrame ==
  ASSUME PairInv, NEW n \in Node, NEW r \in Results(impl[n]), r # None, Report(n, r),
         UNCHANGED <<fixedVars, dht, friendVars>>, mishap' \in BOOLEAN,
         r = Compatible =>
           /\ feature = "dht_bootstrap" => n \in dht
           /\ feature = "friend_request" => IF n = "A" THEN friends = Node ELSE requested
  PROVE  PairInv'
<1>1. place' = [place EXCEPT ![n] = "done"] /\ out' = [out EXCEPT ![n] = r]
  BY DEF Report
<1>2. \A m \in Node : Loops(m)'
  BY <1>1 DEF PairInv, PairType, Loops, Conferring, fixedVars
<1>3. DOMAIN out' = Node /\ \A m \in Node : out'[m] = IF m = n THEN r ELSE out[m]
  BY <1>1 DEF PairInv, PairType
<1>4. \A m \in Node : place'[m] = IF m = n THEN "done" ELSE place[m]
  BY <1>1 DEF PairInv, PairType
<1>5. place' \in [Node -> Place]
  BY <1>1 DEF PairInv, PairType, Place
<1>6. PairType'
  BY <1>3, <1>5 DEF PairInv, PairType, fixedVars, friendVars
<1> QED
  BY <1>2, <1>3, <1>4, <1>6 DEF PairInv, fixedVars, friendVars, Node

LEMMA Impls == PairInv => \A n \in Node : impl[n] \in {"go", "c"}
  BY PairsAssumption DEF PairInv, PairType

\* The three outcomes every test may have, in the form the frames ask for.
LEMMA Prints ==
  ASSUME PairInv, NEW n \in Node
  PROVE  /\ \A r \in {Compatible, ConflictingBy1, ConflictingBy3} :
              r \in Results(impl[n]) /\ r # None
         /\ ConflictingBy1 # Compatible /\ ConflictingBy3 # Compatible
  BY Impls, Outcomes

LEMMA CommonPair == PairInv /\ CommonStep => PairInv'
<1> SUFFICES ASSUME PairInv, CommonStep PROVE PairInv'
  OBVIOUS
<1>0. "A" \in Node /\ "B" \in Node /\ mishap \in BOOLEAN
  BY DEF Node, PairInv, PairType
<1>1. ASSUME NEW n \in Node, NotSupported(n) PROVE PairInv'
  <2>1. impl[n] = "go" /\ feature \notin {"dht_bootstrap", "friend_request"}
    BY <1>1, Impls DEF NotSupported, Implements
  <2>2. NotImplemented \in Results(impl[n]) /\ NotImplemented # None
        /\ NotImplemented # Compatible
    BY <2>1, Outcomes
  <2> QED
    BY <1>0, <1>1, <2>2, ReportFrame DEF NotSupported
<1>2. ASSUME NEW n \in Node, StartDHT(n) PROVE PairInv'
  <2>1. Loops(n)' /\ place[n] # "done" /\ "dht" \in Place \ {"done"}
    BY <1>2 DEF StartDHT, GoOn, Waits, Loops, PairInv, PairType, Place, fixedVars
  <2> QED
    BY <1>0, <1>2, <2>1, GoOnFrame DEF StartDHT
<1>3. ASSUME NEW n \in Node, DHTFound(n) PROVE PairInv'
  <2>1. feature = "dht_bootstrap"
    BY <1>3 DEF DHTFound, Waits, PairInv, Loops
  <2> QED
    BY <1>0, <1>3, <2>1, Prints, ReportFrame DEF DHTFound
<1>4. ASSUME NEW n \in Node, DHTTimeout(n) PROVE PairInv'
  BY <1>4, Prints, ReportFrame DEF DHTTimeout, TimedOut
<1>5. CASE NeverOnline
  BY <1>0, <1>5, Prints, ReportFrame DEF NeverOnline, TimedOut
<1>6. CASE AddFriend
  <2>1. CASE GoOn("A", "online")
    <3>1. /\ place' = [place EXCEPT !["A"] = "online"] /\ out' = out
          /\ place["A"] = "idle" /\ feature # "dht_bootstrap"
      BY <1>6, <2>1 DEF GoOn, AddFriend, Waits
    <3>2. /\ friends' \in {friends, friends \cup {"A"}} /\ mishap' \in BOOLEAN
          /\ UNCHANGED <<fixedVars, dht, online, requests, requested, friendNum>>
      BY <1>0, <1>6 DEF AddFriend
    <3>3. \A m \in Node : Loops(m)'
      BY <3>1, <3>2 DEF PairInv, PairType, Loops, Conferring, fixedVars
    <3>4. PairType'
      BY <3>1, <3>2 DEF PairInv, PairType, fixedVars, Node, Place
    <3>5. \A m \in Node : place'[m] = "done" <=> out'[m] # None
      BY <3>1 DEF PairInv, PairType
    <3>6. (friends = Node => friends' = Node) /\ friends \subseteq friends'
      BY <3>2 DEF Node, PairInv, PairType
    <3> QED
      BY <3>1, <3>2, <3>3, <3>4, <3>5, <3>6 DEF PairInv, fixedVars
  <2>2. CASE ~GoOn("A", "online")
    BY <1>0, <1>6, <2>2, Prints, ReportFrame DEF AddFriend, friendVars
  <2> QED
    BY <2>1, <2>2
<1>7. CASE cb_friend_request
  <2>1. PICK err \in {"ok", "already", "failed"} :
          /\ err = "already" <=> "B" \in friends
          /\ friends'   = IF err = "ok" THEN friends \cup {"B"} ELSE friends
          /\ friendNum' = IF err = "ok" /\ impl["B"] = "c" THEN "peer" ELSE "none"
          /\ requested' = (requested \/ Noted(err))
          /\ Blame(err = "failed" \/ (err = "already" /\ UsesFriendNum))
    BY <1>7 DEF cb_friend_request
  <2>2. UNCHANGED <<fixedVars, testVars, dht, online>> /\ "A" \in friends
        /\ requests' = requests + 1 /\ requests < MaxRequests
    BY <1>7 DEF cb_friend_request
  <2>3. requests' \in 0..MaxRequests
    BY <2>2, RequestsAssumption DEF PairInv, PairType
  <2>4. PairType'
    BY <1>0, <2>1, <2>2, <2>3 DEF PairInv, PairType, fixedVars, testVars, Blame, Noted
  <2>5. \A m \in Node : Loops(m)'
    BY <2>2 DEF PairInv, Loops, Conferring, fixedVars, testVars
  <2>6. friends' = friends \/ friends' = Node
    BY <2>1, <2>2 DEF Node, PairInv, PairType
  <2>7. requested' /\ impl["B"] = "c" => "B" \in friends'
    BY <2>1 DEF Noted, PairInv
  <2> QED
    BY <2>1, <2>2, <2>4, <2>5, <2>6, <2>7 DEF PairInv, fixedVars, testVars
<1>8. ASSUME NEW n \in Node, DHTConnects(n) \/ ComesOnline(n) \/ GoesOffline(n) PROVE PairInv'
  <2>1. /\ UNCHANGED <<feature, impl, place, out, friends, requests, requested, friendNum>>
        /\ dht \subseteq dht' /\ dht' \subseteq Node /\ online' \subseteq Node
        /\ mishap' \in BOOLEAN
        /\ online' # {} => friends = Node
    BY <1>0, <1>8 DEF DHTConnects, ComesOnline, GoesOffline, fixedVars, testVars, friendVars,
                      PairInv, PairType
  <2>2. \A m \in Node : Loops(m)'
    BY <2>1 DEF PairInv, Loops, Conferring
  <2>3. PairType'
    BY <2>1 DEF PairInv, PairType
  <2> QED
    BY <2>1, <2>2, <2>3 DEF PairInv
<1> QED
  BY <1>1, <1>2, <1>3, <1>4, <1>5, <1>6, <1>7, <1>8 DEF CommonStep

\* A callback, or the library, leaves the common state alone.
LEMMA StillFrame ==
  ASSUME PairInv, UNCHANGED <<fixedVars, testVars, dht, friendVars>>, mishap' \in BOOLEAN
  PROVE  PairInv'
<1>1. UNCHANGED <<feature, impl, place, out, dht, friends, online, requests, requested, friendNum>>
  BY DEF fixedVars, testVars, friendVars
<1>2. \A m \in Node : Loops(m)'
  BY <1>1 DEF PairInv, Loops, Conferring
<1>3. PairType'
  BY <1>1 DEF PairInv, PairType
<1> QED
  BY <1>1, <1>2, <1>3 DEF PairInv

LEMMA FriendPair == PairInv /\ FriendStep => PairInv'
<1> SUFFICES ASSUME PairInv, FriendStep PROVE PairInv'
  OBVIOUS
<1>0. "A" \in Node /\ "B" \in Node /\ mishap \in BOOLEAN
  BY DEF Node, PairInv, PairType
<1>1. CASE RequestAnswered
  <2>1. friends = Node /\ feature = "friend_request"
    BY <1>1 DEF RequestAnswered, FriendOnline, PairInv
  <2> QED
    BY <1>0, <1>1, <2>1, Prints, ReportFrame DEF RequestAnswered
<1>2. CASE StartRequested
  <2>1. Loops("B")' /\ place["B"] # "done" /\ "request" \in Place \ {"done"}
    BY <1>2 DEF StartRequested, GoOn, Waits, Loops, PairInv, PairType, Place, fixedVars, Node
  <2> QED
    BY <1>0, <1>2, <2>1, GoOnFrame DEF StartRequested
<1>3. CASE Requested
  <2>1. feature = "friend_request" /\ requested
    BY <1>0, <1>3 DEF Requested, Waits, PairInv, Loops
  <2> QED
    BY <1>0, <1>3, <2>1, Prints, ReportFrame DEF Requested
<1>4. CASE RequestTimeout
  BY <1>0, <1>4, Prints, ReportFrame DEF RequestTimeout, TimedOut
<1>5. CASE SendPing
  <2>1. CASE GoOn("A", "echo")
    <3>1. Loops("A")' /\ place["A"] # "done" /\ "echo" \in Place \ {"done"}
      BY <1>5, <2>1 DEF SendPing, FriendOnline, GoOn, Waits, Loops, PairInv, PairType, Place,
                        fixedVars, Node
    <3> QED
      BY <1>0, <1>5, <2>1, <3>1, GoOnFrame DEF SendPing
  <2>2. CASE ~GoOn("A", "echo")
    BY <1>0, <1>5, <2>2, Prints, ReportFrame DEF SendPing
  <2> QED
    BY <2>1, <2>2
<1>6. CASE EchoHeard
  <2>1. feature = "friend_message"
    BY <1>0, <1>6 DEF EchoHeard, Waits, PairInv, Loops
  <2> QED
    BY <1>0, <1>6, <2>1, Prints, ReportFrame DEF EchoHeard
<1>7. CASE EchoTimeout
  BY <1>0, <1>7, Prints, ReportFrame DEF EchoTimeout, TimedOut
<1>8. CASE StartServing
  <2>1. Loops("B")' /\ place["B"] # "done" /\ "serve" \in Place \ {"done"}
    BY <1>8 DEF StartServing, GoOn, Waits, Loops, PairInv, PairType, Place, fixedVars, Node
  <2> QED
    BY <1>0, <1>8, <2>1, GoOnFrame DEF StartServing
<1>9. CASE Served
  <2>1. feature = "friend_message"
    BY <1>0, <1>9 DEF Served, Waits, PairInv, Loops
  <2> QED
    BY <1>0, <1>9, <2>1, Prints, ReportFrame DEF Served
<1>10. ASSUME NEW n \in Node, cb_friend_message(n) \/ ChatLost(n) PROVE PairInv'
  BY <1>0, <1>10, StillFrame DEF cb_friend_message, ChatLost
<1> QED
  BY <1>1, <1>2, <1>3, <1>4, <1>5, <1>6, <1>7, <1>8, <1>9, <1>10 DEF FriendStep

LEMMA FilePair == PairInv /\ FileStep => PairInv'
<1> SUFFICES ASSUME PairInv, FileStep PROVE PairInv'
  OBVIOUS
<1>0. "A" \in Node /\ "B" \in Node /\ mishap \in BOOLEAN
  BY DEF Node, PairInv, PairType
<1>1. CASE SendFile
  <2>1. CASE GoOn("A", "sending")
    <3>1. Loops("A")' /\ place["A"] # "done" /\ "sending" \in Place \ {"done"}
      BY <1>1, <2>1 DEF SendFile, FriendOnline, GoOn, Waits, Loops, PairInv, PairType, Place,
                        fixedVars, Node
    <3> QED
      BY <1>0, <1>1, <2>1, <3>1, GoOnFrame DEF SendFile
  <2>2. CASE ~GoOn("A", "sending")
    BY <1>0, <1>1, <2>2, Prints, ReportFrame DEF SendFile
  <2> QED
    BY <2>1, <2>2
<1>2. CASE FileSent \/ FileReceived
  <2>1. feature = "file_transfer"
    BY <1>0, <1>2 DEF FileSent, FileReceived, Waits, PairInv, Loops
  <2> QED
    BY <1>0, <1>2, <2>1, Prints, ReportFrame DEF FileSent, FileReceived
<1>3. CASE SendTimeout \/ ReceiveTimeout
  BY <1>0, <1>3, Prints, ReportFrame DEF SendTimeout, ReceiveTimeout, TimedOut
<1>4. CASE StartReceiving
  <2>1. Loops("B")' /\ place["B"] # "done" /\ "receiving" \in Place \ {"done"}
    BY <1>4 DEF StartReceiving, GoOn, Waits, Loops, PairInv, PairType, Place, fixedVars, Node
  <2>2. mishap' \in BOOLEAN
    BY <1>0, <1>4 DEF StartReceiving, Blame
  <2> QED
    BY <1>0, <1>4, <2>1, <2>2, GoOnFrame DEF StartReceiving
<1>5. CASE cb_file_recv \/ cb_file_chunk_request \/ cb_file_recv_chunk
  <2>1. UNCHANGED <<fixedVars, testVars, dht, friendVars>>
    BY <1>5 DEF cb_file_recv, cb_file_chunk_request, cb_file_recv_chunk
  <2>2. mishap' \in BOOLEAN
    BY <1>0, <1>5 DEF cb_file_recv, cb_file_chunk_request, cb_file_recv_chunk
  <2> QED
    BY <2>1, <2>2, StillFrame
<1> QED
  BY <1>1, <1>2, <1>3, <1>4, <1>5 DEF FileStep

LEMMA ConfPair == PairInv /\ ConfStep => PairInv'
<1> SUFFICES ASSUME PairInv, ConfStep PROVE PairInv'
  OBVIOUS
<1>0. "A" \in Node /\ "B" \in Node /\ mishap \in BOOLEAN
  BY DEF Node, PairInv, PairType
<1>1. CASE CreateAndInvite
  <2>0. mishap' \in BOOLEAN /\ UNCHANGED <<fixedVars, dht, friendVars>>
    BY <1>0, <1>1 DEF CreateAndInvite
  <2>1. CASE GoOn("A", "peer")
    <3>1. Loops("A")' /\ place["A"] # "done" /\ "peer" \in Place \ {"done"}
      BY <1>1, <2>1 DEF CreateAndInvite, Conferring, FriendOnline, GoOn, Waits, Loops, PairInv,
                        PairType, Place, fixedVars, Node
    <3> QED
      BY <1>0, <2>0, <2>1, <3>1, GoOnFrame
  <2>2. CASE ~GoOn("A", "peer")
    <3>1. Report("A", ConflictingBy1)
      BY <1>1, <2>2 DEF CreateAndInvite
    <3> QED
      BY <1>0, <2>0, <3>1, Prints, ReportFrame
  <2> QED
    BY <2>1, <2>2
<1>2. CASE SendToConference
  <2>1. PICK r \in {Compatible, ConflictingBy1} : Report("A", r)
    BY <1>2 DEF SendToConference
  <2>2. mishap' \in BOOLEAN /\ UNCHANGED <<fixedVars, dht, friendVars>>
        /\ feature = "conference_message"
    BY <1>0, <1>2 DEF SendToConference, Blame
  <2> QED
    BY <1>0, <2>1, <2>2, Prints, ReportFrame
<1>3. CASE PeerJoined \/ Joined \/ MessageHeard
  <2>1. Conferring
    BY <1>0, <1>3 DEF PeerJoined, Joined, MessageHeard, Waits, PairInv, Loops, Conferring
  <2>2. PICK n \in Node : Report(n, Compatible)
    BY <1>0, <1>3 DEF PeerJoined, Joined, MessageHeard
  <2>3. UNCHANGED <<fixedVars, dht, friendVars, mishap>>
    BY <1>3 DEF PeerJoined, Joined, MessageHeard
  <2> QED
    BY <1>0, <2>1, <2>2, <2>3, Prints, ReportFrame DEF Conferring
<1>4. CASE NoPeer \/ InviteTimeout \/ JoinTimeout \/ MessageTimeout
  BY <1>0, <1>4, Prints, ReportFrame
  DEF NoPeer, InviteTimeout, JoinTimeout, MessageTimeout, TimedOut
<1>5. CASE StartInvited
  <2>1. Loops("B")' /\ place["B"] # "done" /\ "invite" \in Place \ {"done"}
    BY <1>5 DEF StartInvited, Conferring, GoOn, Waits, Loops, PairInv, PairType, Place,
                fixedVars, Node
  <2>2. mishap' \in BOOLEAN /\ UNCHANGED <<fixedVars, dht, friendVars>> /\ GoOn("B", "invite")
    BY <1>0, <1>5 DEF StartInvited, Blame
  <2> QED
    BY <1>0, <2>1, <2>2, GoOnFrame
<1>6. CASE Join
  <2>1. mishap' \in BOOLEAN /\ UNCHANGED <<fixedVars, dht, friendVars>>
    BY <1>0, <1>6 DEF Join, Blame
  <2>2. CASE Report("B", ConflictingBy1)
    BY <1>0, <2>1, <2>2, Prints, ReportFrame
  <2>3. CASE ~Report("B", ConflictingBy1)
    <3>1. place["B"] = "invite" /\ Conferring
      BY <1>0, <1>6 DEF Join, Waits, PairInv, Loops
    <3>2. PICK p \in {"join", "message"} :
            /\ GoOn("B", p)
            /\ p = "join"    => feature = "conference_invite"
            /\ p = "message" => feature = "conference_message"
      BY <1>6, <2>3, <3>1 DEF Join, Conferring
    <3>3. place'["B"] = p /\ feature' = feature
      BY <1>0, <2>1, <3>2 DEF GoOn, PairInv, PairType, fixedVars
    <3>4. Loops("B")'
      BY <3>2, <3>3 DEF Loops
    <3>5. place["B"] # "done" /\ p \in Place \ {"done"}
      BY <3>1, <3>2 DEF Place
    <3> QED
      BY <1>0, <2>1, <3>2, <3>4, <3>5, GoOnFrame
  <2> QED
    BY <2>2, <2>3
<1>7. CASE cb_conference_invite \/ cb_conference_connected \/ PeerCounted
             \/ cb_conference_message \/ MessageLost
  <2>1. UNCHANGED <<fixedVars, testVars, dht, friendVars>>
    BY <1>7 DEF cb_conference_invite, cb_conference_connected, PeerCounted,
                cb_conference_message, MessageLost, pairVars
  <2>2. mishap' \in BOOLEAN
    BY <1>0, <1>7 DEF cb_conference_invite, cb_conference_connected, PeerCounted,
                cb_conference_message, MessageLost, pairVars
  <2> QED
    BY <2>1, <2>2, StillFrame
<1> QED
  BY <1>1, <1>2, <1>3, <1>4, <1>5, <1>6, <1>7 DEF ConfStep

LEMMA PairStays == PairInv /\ [Next]_vars => PairInv'
<1> SUFFICES ASSUME PairInv, [Next]_vars PROVE PairInv'
  OBVIOUS
<1>1. CASE UNCHANGED vars
  <2>1. mishap' \in BOOLEAN /\ UNCHANGED <<fixedVars, testVars, dht, friendVars>>
    BY <1>1 DEF vars, pairVars, PairInv, PairType
  <2> QED
    BY <2>1, StillFrame
<1> QED
  BY <1>1, Steps, CommonPair, FriendPair, FilePair, ConfPair DEF Common, Friend, Filing, Confer

LEMMA PairBegins == PairInit => PairInv
<1> SUFFICES ASSUME PairInit PROVE PairInv
  OBVIOUS
<1>1. \A n \in Node : place[n] = "idle" /\ out[n] = None
  BY DEF PairInit
<1>2. PairType
  <2>1. place \in [Node -> Place] /\ DOMAIN out = Node
    BY DEF PairInit, Place
  <2>2. requests \in 0..MaxRequests
    BY RequestsAssumption DEF PairInit
  <2>3. dht \subseteq Node /\ friends \subseteq Node /\ online \subseteq Node
    BY DEF PairInit
  <2> QED
    BY <1>1, <2>1, <2>2, <2>3 DEF PairInit, PairType
<1>3. None # Compatible
  BY Outcomes
<1> QED
  BY <1>1, <1>2, <1>3 DEF PairInit, PairInv, Loops, Node

-----------------------------------------------------------------------------
(***************************************************************************)
(* What a step means for the features it does not belong to: a test does   *)
(* not go back to its beginning, and only the tests of the features F find *)
(* that the nodes are compatible.                                          *)
(***************************************************************************)
Early(p) == p \in {"idle", "online"}

Quiet(F) ==
  /\ feature' = feature /\ impl' = impl
  /\ \A n \in Node : /\ Early(place'[n]) => Early(place[n])
                     /\ out'[n] = Compatible => out[n] = Compatible \/ feature \in F

LEMMA GoOnQuiet ==
  ASSUME PairInv, NEW F, NEW n \in Node, NEW p, GoOn(n, p), UNCHANGED fixedVars,
         Early(p) => Early(place[n])
  PROVE  Quiet(F)
BY DEF PairInv, PairType, GoOn, Quiet, fixedVars

LEMMA ReportQuiet ==
  ASSUME PairInv, NEW F, NEW n \in Node, NEW r, Report(n, r), UNCHANGED fixedVars,
         r = Compatible => feature \in F
  PROVE  Quiet(F)
BY DEF PairInv, PairType, Report, Quiet, Early, fixedVars

LEMMA StillQuiet ==
  ASSUME NEW F, UNCHANGED <<fixedVars, testVars>>
  PROVE  Quiet(F)
BY DEF Quiet, fixedVars, testVars

LEMMA CommonQuiet == PairInv /\ CommonStep => Quiet({"dht_bootstrap"})
<1> SUFFICES ASSUME PairInv, CommonStep PROVE Quiet({"dht_bootstrap"})
  OBVIOUS
<1>0. "A" \in Node /\ Compatible \notin {ConflictingBy1, ConflictingBy3, NotImplemented}
  BY Outcomes DEF Node
<1>1. ASSUME NEW n \in Node, NotSupported(n) \/ DHTTimeout(n) PROVE Quiet({"dht_bootstrap"})
  BY <1>0, <1>1, ReportQuiet DEF NotSupported, DHTTimeout, TimedOut
<1>2. ASSUME NEW n \in Node, StartDHT(n) PROVE Quiet({"dht_bootstrap"})
  BY <1>2, GoOnQuiet DEF StartDHT, Early
<1>3. ASSUME NEW n \in Node, DHTFound(n) PROVE Quiet({"dht_bootstrap"})
  <2>1. feature = "dht_bootstrap"
    BY <1>3 DEF DHTFound, Waits, PairInv, Loops
  <2> QED
    BY <1>3, <2>1, ReportQuiet DEF DHTFound
<1>4. CASE NeverOnline
  BY <1>0, <1>4, ReportQuiet DEF NeverOnline, TimedOut
<1>5. CASE AddFriend
  <2>1. Early(place["A"]) /\ UNCHANGED fixedVars
    BY <1>5 DEF AddFriend, Waits, Early
  <2>2. GoOn("A", "online") \/ Report("A", ConflictingBy1)
    BY <1>5 DEF AddFriend
  <2> QED
    BY <1>0, <2>1, <2>2, GoOnQuiet, ReportQuiet
<1>6. CASE cb_friend_request
  BY <1>6, StillQuiet DEF cb_friend_request
<1>7. ASSUME NEW n \in Node, DHTConnects(n) \/ ComesOnline(n) \/ GoesOffline(n)
      PROVE  Quiet({"dht_bootstrap"})
  BY <1>7, StillQuiet DEF DHTConnects, ComesOnline, GoesOffline
<1> QED
  BY <1>1, <1>2, <1>3, <1>4, <1>5, <1>6, <1>7 DEF CommonStep

LEMMA FriendQuiet == PairInv /\ FriendStep => Quiet({"friend_request", "friend_message"})
<1> DEFINE F == {"friend_request", "friend_message"}
<1> SUFFICES ASSUME PairInv, FriendStep PROVE Quiet(F)
  OBVIOUS
<1>0. "A" \in Node /\ "B" \in Node /\ Compatible \notin {ConflictingBy1, ConflictingBy3}
  BY Outcomes DEF Node
<1>1. CASE RequestAnswered \/ Requested \/ EchoHeard \/ Served
  <2>1. feature \in F
    BY <1>0, <1>1 DEF RequestAnswered, Requested, EchoHeard, Served, Waits, PairInv, Loops
  <2> QED
    BY <1>0, <1>1, <2>1, ReportQuiet DEF RequestAnswered, Requested, EchoHeard, Served
<1>2. CASE RequestTimeout \/ EchoTimeout
  BY <1>0, <1>2, ReportQuiet DEF RequestTimeout, EchoTimeout, TimedOut
<1>3. CASE StartRequested \/ StartServing
  BY <1>0, <1>3, GoOnQuiet DEF StartRequested, StartServing, Early
<1>4. CASE SendPing
  BY <1>0, <1>4, GoOnQuiet, ReportQuiet DEF SendPing, Early
<1>5. ASSUME NEW n \in Node, cb_friend_message(n) \/ ChatLost(n) PROVE Quiet(F)
  BY <1>5, StillQuiet DEF cb_friend_message, ChatLost
<1> QED
  BY <1>1, <1>2, <1>3, <1>4, <1>5 DEF FriendStep

LEMMA FileQuiet == PairInv /\ FileStep => Quiet({"file_transfer"})
<1> SUFFICES ASSUME PairInv, FileStep PROVE Quiet({"file_transfer"})
  OBVIOUS
<1>0. "A" \in Node /\ "B" \in Node /\ Compatible \notin {ConflictingBy1, ConflictingBy3}
  BY Outcomes DEF Node
<1>1. CASE FileSent \/ FileReceived
  <2>1. feature = "file_transfer"
    BY <1>0, <1>1 DEF FileSent, FileReceived, Waits, PairInv, Loops
  <2> QED
    BY <1>0, <1>1, <2>1, ReportQuiet DEF FileSent, FileReceived
<1>2. CASE SendTimeout \/ ReceiveTimeout
  BY <1>0, <1>2, ReportQuiet DEF SendTimeout, ReceiveTimeout, TimedOut
<1>3. CASE SendFile \/ StartReceiving
  BY <1>0, <1>3, GoOnQuiet, ReportQuiet DEF SendFile, StartReceiving, Early
<1>4. CASE cb_file_recv \/ cb_file_chunk_request \/ cb_file_recv_chunk
  BY <1>4, StillQuiet DEF cb_file_recv, cb_file_chunk_request, cb_file_recv_chunk
<1> QED
  BY <1>1, <1>2, <1>3, <1>4 DEF FileStep

LEMMA ConfQuiet == PairInv /\ ConfStep => Quiet({"conference_invite", "conference_message"})
<1> DEFINE F == {"conference_invite", "conference_message"}
<1> SUFFICES ASSUME PairInv, ConfStep PROVE Quiet(F)
  OBVIOUS
<1>0. "A" \in Node /\ "B" \in Node /\ Compatible \notin {ConflictingBy1, ConflictingBy3}
  BY Outcomes DEF Node
<1>1. CASE PeerJoined \/ Joined \/ MessageHeard \/ SendToConference
  <2>1. feature \in F
    BY <1>0, <1>1 DEF PeerJoined, Joined, MessageHeard, SendToConference, Waits, PairInv, Loops
  <2> QED
    BY <1>0, <1>1, <2>1, ReportQuiet DEF PeerJoined, Joined, MessageHeard, SendToConference
<1>2. CASE NoPeer \/ InviteTimeout \/ JoinTimeout \/ MessageTimeout
  BY <1>0, <1>2, ReportQuiet DEF NoPeer, InviteTimeout, JoinTimeout, MessageTimeout, TimedOut
<1>3. CASE CreateAndInvite \/ StartInvited \/ Join
  <2>1. UNCHANGED fixedVars
    BY <1>3 DEF CreateAndInvite, StartInvited, Join
  <2>2. PICK n \in Node : \/ \E p \in {"peer", "invite", "join", "message"} : GoOn(n, p)
                          \/ Report(n, ConflictingBy1)
    BY <1>0, <1>3 DEF CreateAndInvite, StartInvited, Join
  <2> QED
    BY <1>0, <2>1, <2>2, GoOnQuiet, ReportQuiet DEF Early
<1>4. CASE cb_conference_invite \/ cb_conference_connected \/ PeerCounted
             \/ cb_conference_message \/ MessageLost
  BY <1>4, StillQuiet DEF cb_conference_invite, cb_conference_connected, PeerCounted,
                cb_conference_message, MessageLost, pairVars
<1> QED
  BY <1>1, <1>2, <1>3, <1>4 DEF ConfStep

-----------------------------------------------------------------------------
(***************************************************************************)
(* The chat. One ping is sent, at the end of the initiator's wait for its  *)
(* friend; all messages are that ping going back and forth.                *)
(***************************************************************************)
ChatType ==
  wire \in [Node -> Nat] /\ heard \in [Node -> BOOLEAN] /\ echoed \subseteq Node

ChatInv ==
  /\ ChatType
  /\ OneBallInPlay
  /\ Early(place["A"]) => wire["A"] = 0 /\ wire["B"] = 0
  /\ heard["A"] \/ wire["A"] > 0 => "B" \in echoed
  /\ "B" \in echoed => heard["B"]
  /\ feature = "friend_message" /\ out["A"] = Compatible => heard["A"]

LEMMA ChatFrame ==
  ASSUME ChatInv, NEW F, Quiet(F), "friend_message" \notin F, UNCHANGED chatVars
  PROVE  ChatInv'
<1>1. "A" \in Node /\ UNCHANGED <<wire, heard, echoed>>
  BY DEF Node, chatVars
<1> QED
  BY <1>1 DEF Quiet, ChatInv, ChatType, OneBallInPlay

LEMMA ChatStays == PairInv /\ ChatInv /\ Friend(FriendStep) => ChatInv'
<1> SUFFICES ASSUME PairInv, ChatInv, FriendStep PROVE ChatInv'
  BY DEF Friend
<1>0. /\ "A" \in Node /\ "B" \in Node /\ Peer("A") = "B" /\ Peer("B") = "A"
      /\ Compatible \notin {ConflictingBy1, ConflictingBy3, None}
  BY Outcomes DEF Node, Peer
<1>1. /\ feature' = feature /\ impl' = impl
      /\ Early(place'["A"]) => Early(place["A"])
  BY <1>0, FriendQuiet DEF Quiet
<1>2. ASSUME UNCHANGED chatVars,
             feature = "friend_message" /\ out'["A"] = Compatible =>
               out["A"] = Compatible \/ heard["A"]
      PROVE  ChatInv'
  BY <1>1, <1>2 DEF chatVars, ChatInv, ChatType, OneBallInPlay
<1>3. CASE RequestAnswered
  <2>1. feature = "friend_request" /\ UNCHANGED chatVars
    BY <1>3 DEF RequestAnswered
  <2> QED
    BY <1>2, <2>1
<1>4. CASE \/ StartRequested \/ Requested \/ RequestTimeout \/ StartServing \/ Served
  <2>1. out'["A"] = out["A"]
    <3>1. \/ \E p : GoOn("B", p)
          \/ \E r : Report("B", r)
      BY <1>4 DEF StartRequested, Requested, RequestTimeout, StartServing, Served, TimedOut
    <3> QED
      BY <1>0, <3>1 DEF GoOn, Report, PairInv, PairType
  <2> QED
    BY <1>2, <1>4, <2>1 DEF StartRequested, Requested, RequestTimeout, StartServing, Served
<1>5. CASE EchoHeard
  BY <1>2, <1>5 DEF EchoHeard
<1>6. CASE EchoTimeout
  <2>1. out'["A"] = ConflictingBy3
    BY <1>0, <1>6 DEF EchoTimeout, TimedOut, Report, PairInv, PairType
  <2> QED
    BY <1>0, <1>2, <1>6, <2>1 DEF EchoTimeout
<1>7. CASE SendPing
  <2>1. Early(place["A"]) /\ place["A"] # "done" /\ wire["A"] = 0 /\ wire["B"] = 0
    BY <1>7 DEF SendPing, FriendOnline, Waits, Early, ChatInv
  <2>2. CASE Report("A", ConflictingBy1) /\ UNCHANGED chatVars
    <3>1. out'["A"] = ConflictingBy1
      BY <1>0, <2>2 DEF Report, PairInv, PairType
    <3> QED
      BY <1>0, <1>2, <2>2, <3>1
  <2>3. CASE ~(Report("A", ConflictingBy1) /\ UNCHANGED chatVars)
    <3>1. /\ wire'  = [wire EXCEPT !["B"] = @ + 1]
          /\ heard' = [heard EXCEPT !["A"] = impl["A"] = "go" /\ @]
          /\ GoOn("A", "echo") /\ echoed' = echoed
      BY <1>7, <2>3 DEF SendPing, chatVars
    <3>2. wire'["A"] = 0 /\ wire'["B"] = 1 /\ wire' \in [Node -> Nat]
      BY <1>0, <2>1, <3>1 DEF ChatInv, ChatType
    <3>3. heard' \in [Node -> BOOLEAN] /\ heard'["B"] = heard["B"]
          /\ (heard'["A"] => heard["A"])
      BY <1>0, <3>1 DEF ChatInv, ChatType
    <3>4. ~Early(place'["A"]) /\ out'["A"] = None
      BY <1>0, <2>1, <3>1 DEF GoOn, PairInv, PairType, Early
    <3> QED
      BY <1>0, <3>1, <3>2, <3>3, <3>4 DEF ChatInv, ChatType, OneBallInPlay
  <2> QED
    BY <2>2, <2>3
<1>8. ASSUME NEW n \in Node, cb_friend_message(n) PROVE ChatInv'
  <2>1. /\ wire[n] > 0 /\ heard' = [heard EXCEPT ![n] = TRUE] /\ UNCHANGED testVars
        /\ \/ /\ wire' = [wire EXCEPT ![n] = @ - 1, ![Peer(n)] = @ + 1]
              /\ echoed' = echoed \cup {n}
           \/ wire' = [wire EXCEPT ![n] = @ - 1] /\ UNCHANGED echoed
    BY <1>8 DEF cb_friend_message
  <2>2. ~Early(place'["A"]) /\ place' = place /\ out' = out
    BY <1>0, <2>1 DEF ChatInv, testVars, Node
  <2>3. n = "A" \/ n = "B"
    BY DEF Node
  <2>4. /\ wire' \in [Node -> Nat]
        /\ wire'["A"] + wire'["B"] <= 1
        /\ n = "A" => wire'["A"] = 0
        /\ n = "B" /\ wire'["A"] > 0 => "B" \in echoed'
    BY <1>0, <2>1, <2>3 DEF ChatInv, ChatType, OneBallInPlay
  <2>5. /\ heard' \in [Node -> BOOLEAN] /\ heard'[n]
        /\ \A m \in Node : m # n => heard'[m] = heard[m]
        /\ echoed \subseteq echoed' /\ echoed' \subseteq Node
        /\ "B" \in echoed' => "B" \in echoed \/ n = "B"
    BY <2>1 DEF ChatInv, ChatType
  <2>6. n = "A" => "B" \in echoed
    BY <2>1 DEF ChatInv
  <2> QED
    BY <1>0, <1>1, <2>2, <2>3, <2>4, <2>5, <2>6 DEF ChatInv, ChatType, OneBallInPlay
<1>9. ASSUME NEW n \in Node, ChatLost(n) PROVE ChatInv'
  <2>1. wire[n] > 0 /\ wire' = [wire EXCEPT ![n] = @ - 1]
        /\ UNCHANGED <<place, out, heard, echoed>>
    BY <1>9 DEF ChatLost, testVars
  <2>2. /\ wire' \in [Node -> Nat]
        /\ wire'["A"] <= wire["A"] /\ wire'["B"] <= wire["B"]
    BY <1>0, <2>1 DEF ChatInv, ChatType, Node
  <2>3. wire'["A"] + wire'["B"] <= 1 /\ (wire'["A"] > 0 => wire["A"] > 0)
        /\ ~Early(place["A"])
    BY <1>0, <2>1, <2>2 DEF ChatInv, ChatType, OneBallInPlay, Node
  <2> QED
    BY <1>1, <2>1, <2>2, <2>3 DEF ChatInv, ChatType, OneBallInPlay
<1> QED
  BY <1>3, <1>4, <1>5, <1>6, <1>7, <1>8, <1>9 DEF FriendStep

-----------------------------------------------------------------------------
(***************************************************************************)
(* The file. The transfer begins only when the initiator's friend is       *)
(* online, and its end is told once, after the last chunk: nothing moves   *)
(* the position or the buffer after a responder has verified them.         *)
(***************************************************************************)
FileType ==
  /\ offer \in {"none", "sent", "accepted", "dead"}
  /\ asked \in 0..Chunks + 1 /\ arrived \in 0..Chunks + 1
  /\ pos \in 0..Chunks /\ whole \subseteq File
  /\ sendDone \in BOOLEAN /\ complete \in BOOLEAN

FileInv ==
  /\ FileType
  /\ offer \in {"none", "sent"} => asked = 0 /\ arrived = 0
  /\ Early(place["A"]) => offer = "none"
  /\ complete => arrived = Chunks + 1
  /\ feature = "file_transfer" /\ out["A"] = Compatible => sendDone
  /\ feature = "file_transfer" /\ out["B"] = Compatible =>
       whole = File /\ pos = Chunks /\ arrived = Chunks + 1

LEMMA FileFrame ==
  ASSUME FileInv, NEW F, Quiet(F), "file_transfer" \notin F, UNCHANGED fileVars
  PROVE  FileInv'
<1>1. "A" \in Node /\ "B" \in Node
      /\ UNCHANGED <<offer, asked, arrived, sendDone, pos, whole, complete>>
  BY DEF Node, fileVars
<1> QED
  BY <1>1 DEF Quiet, FileInv, FileType

\* A step of a test, in which one side goes on or ends.
LEMMA Other ==
  ASSUME PairInv, NEW n \in Node, \/ \E p : GoOn(n, p)
                                  \/ \E r : Report(n, r)
  PROVE  \A m \in Node : m # n => place'[m] = place[m] /\ out'[m] = out[m]
BY DEF GoOn, Report, PairInv, PairType

LEMMA FileStays == PairInv /\ FileInv /\ Filing(FileStep) => FileInv'
<1> SUFFICES ASSUME PairInv, FileInv, FileStep PROVE FileInv'
  BY DEF Filing
<1>0. /\ "A" \in Node /\ "B" \in Node /\ Chunks \in Nat /\ Chunks > 0
      /\ Compatible \notin {ConflictingBy1, ConflictingBy3, None}
  BY Outcomes, ChunksAssumption DEF Node
<1>1. /\ feature' = feature /\ impl' = impl
      /\ Early(place'["A"]) => Early(place["A"])
  BY <1>0, FileQuiet DEF Quiet
<1>2. CASE SendFile
  <2>1. /\ Early(place["A"]) /\ offer = "none" /\ asked = 0 /\ arrived = 0
        /\ out["A"] # Compatible
    BY <1>0, <1>2 DEF SendFile, FriendOnline, Waits, Early, FileInv, PairInv
  <2>2. UNCHANGED <<asked, arrived, pos, whole, complete>>
    BY <1>2 DEF SendFile
  <2>3. CASE Report("A", ConflictingBy1) /\ UNCHANGED <<offer, sendDone>>
    <3>1. out'["A"] = ConflictingBy1 /\ out'["B"] = out["B"]
      BY <1>0, <2>3 DEF Report, PairInv, PairType
    <3> QED
      BY <1>0, <1>1, <2>1, <2>2, <2>3, <3>1 DEF FileInv, FileType
  <2>4. CASE GoOn("A", "sending") /\ offer' = "sent" /\ sendDone' = FALSE
    <3>1. ~Early(place'["A"]) /\ out' = out
      BY <1>0, <2>4 DEF GoOn, PairInv, PairType, Early
    <3> QED
      BY <1>0, <1>1, <2>1, <2>2, <2>4, <3>1 DEF FileInv, FileType
  <2> QED
    BY <1>2, <2>3, <2>4 DEF SendFile
<1>3. CASE FileSent \/ SendTimeout
  <2>1. UNCHANGED <<offer, asked, arrived, sendDone, pos, whole, complete>>
    BY <1>3 DEF FileSent, SendTimeout, fileVars
  <2>2. out'["B"] = out["B"]
    BY <1>0, <1>3, Other DEF FileSent, SendTimeout, TimedOut
  <2>3. out'["A"] = Compatible => sendDone
    BY <1>0, <1>3 DEF FileSent, SendTimeout, TimedOut, Report, PairInv, PairType
  <2> QED
    BY <1>1, <2>1, <2>2, <2>3 DEF FileInv, FileType
<1>4. CASE StartReceiving
  <2>1. /\ out["B"] # Compatible /\ out' = out
        /\ pos' = 0 /\ whole' = {} /\ complete' = FALSE
        /\ UNCHANGED <<offer, asked, arrived, sendDone>>
    BY <1>0, <1>4 DEF StartReceiving, GoOn, Waits, PairInv
  <2>2. pos' \in 0..Chunks /\ whole' \subseteq File
    BY <1>0, <2>1
  <2> QED
    BY <1>1, <2>1, <2>2 DEF FileInv, FileType
<1>5. CASE FileReceived
  <2>1. UNCHANGED <<offer, asked, arrived, sendDone, pos, whole, complete>>
    BY <1>5 DEF FileReceived, fileVars
  <2>2. out'["A"] = out["A"]
    BY <1>0, <1>5, Other DEF FileReceived
  <2>3. out'["B"] = Compatible => Verified
    BY <1>0, <1>5 DEF FileReceived, Report, PairInv, PairType
  <2>4. Verified => whole = File /\ pos = Chunks
    BY DEF Verified, FileInv, FileType, File
  <2>5. arrived = Chunks + 1
    BY <1>5 DEF FileReceived, FileInv
  <2> QED
    BY <1>1, <2>1, <2>2, <2>3, <2>4, <2>5 DEF FileInv, FileType
<1>6. CASE ReceiveTimeout
  <2>1. UNCHANGED <<offer, asked, arrived, sendDone, pos, whole, complete>>
    BY <1>6 DEF ReceiveTimeout, fileVars
  <2>2. out'["A"] = out["A"]
    BY <1>0, <1>6, Other DEF ReceiveTimeout, TimedOut
  <2>3. out'["B"] # Compatible
    BY <1>0, <1>6 DEF ReceiveTimeout, TimedOut, Report, PairInv, PairType
  <2> QED
    BY <1>1, <2>1, <2>2, <2>3 DEF FileInv, FileType
<1>7. CASE cb_file_recv
  <2>1. /\ offer = "sent" /\ offer' \in {"accepted", "dead"}
        /\ (pos' = 0 /\ complete' = FALSE) \/ UNCHANGED <<pos, complete>>
        /\ UNCHANGED <<place, out, asked, arrived, sendDone, whole>>
    BY <1>7 DEF cb_file_recv, testVars
  <2>2. /\ asked = 0 /\ arrived = 0 /\ arrived # Chunks + 1 /\ ~complete
        /\ ~(feature = "file_transfer" /\ out["B"] = Compatible)
        /\ ~Early(place["A"])
    BY <1>0, <2>1 DEF FileInv
  <2>3. pos' \in 0..Chunks /\ complete' \in BOOLEAN /\ ~complete'
    <3>1. pos' = 0 \/ pos' = pos
      BY <2>1
    <3>2. pos' \in 0..Chunks
      BY <1>0, <3>1 DEF FileInv, FileType
    <3>3. complete' \in BOOLEAN /\ ~complete'
      <4>1. complete' = FALSE \/ complete' = complete
        BY <2>1
      <4>2. CASE complete' = FALSE
        BY <4>2
      <4>3. CASE complete' = complete
        BY <2>2, <4>3 DEF FileInv, FileType
      <4> QED
        BY <4>1, <4>2, <4>3
    <3> QED
      BY <3>2, <3>3
  <2>4. FileType'
    BY <2>1, <2>3 DEF FileInv, FileType
  <2> QED
    BY <1>1, <2>1, <2>2, <2>3, <2>4 DEF FileInv
<1>8. CASE cb_file_chunk_request
  <2>1. /\ offer = "accepted" /\ offer' \in {"accepted", "dead"}
        /\ UNCHANGED <<place, out, arrived, pos, whole, complete>>
    BY <1>8 DEF cb_file_chunk_request, testVars
  <2>2. asked' = asked \/ (asked < Chunks + 1 /\ asked' = asked + 1)
    BY <1>0, <1>8 DEF cb_file_chunk_request, FileInv, FileType
  <2>3. sendDone' = TRUE \/ sendDone' = sendDone
    BY <1>8 DEF cb_file_chunk_request
  <2>4. asked' \in 0..Chunks + 1
    BY <1>0, <2>2 DEF FileInv, FileType
  <2>5. sendDone' \in BOOLEAN /\ (sendDone => sendDone')
    BY <2>3 DEF FileInv, FileType
  <2>6. FileType'
    BY <2>1, <2>4, <2>5 DEF FileInv, FileType
  <2> QED
    BY <1>1, <2>1, <2>5, <2>6 DEF FileInv
<1>9. CASE cb_file_recv_chunk
  <2>1. /\ offer = "accepted" /\ arrived' = arrived + 1 /\ arrived <= Chunks
        /\ UNCHANGED <<place, out, offer, asked, sendDone>>
    BY <1>0, <1>9 DEF cb_file_recv_chunk, FinalChunk, testVars, FileInv, FileType
  <2>2. ~(feature = "file_transfer" /\ out["B"] = Compatible)
        /\ ~complete /\ ~Early(place["A"])
    BY <1>0, <2>1 DEF FileInv
  <2>3. complete' => arrived' = Chunks + 1
    BY <1>9, <2>1, <2>2 DEF cb_file_recv_chunk, FinalChunk
  <2>4. complete' \in BOOLEAN
    BY <1>9 DEF cb_file_recv_chunk, FileInv, FileType
  <2>5. \/ pos' = arrived + 1 /\ arrived < Chunks
           /\ (whole' = whole \cup {pos'} \/ whole' = whole \ {pos'})
        \/ pos' = pos /\ whole' = whole
    BY <1>9 DEF cb_file_recv_chunk
  <2>6. pos' \in 0..Chunks
    BY <1>0, <2>5 DEF FileInv, FileType
  <2>7. whole' \subseteq File
    <3>1. CASE pos' = arrived + 1 /\ arrived < Chunks
      <4>1. pos' \in File
        BY <1>0, <3>1 DEF FileInv, FileType, File
      <4> QED
        BY <2>5, <4>1 DEF FileInv, FileType
    <3>2. CASE ~(pos' = arrived + 1 /\ arrived < Chunks)
      BY <2>5, <3>2 DEF FileInv, FileType
    <3> QED
      BY <3>1, <3>2
  <2>8. arrived' \in 0..Chunks + 1
    BY <1>0, <2>1 DEF FileInv, FileType
  <2> QED
    BY <1>1, <2>1, <2>2, <2>3, <2>4, <2>6, <2>7, <2>8 DEF FileInv, FileType
<1> QED
  BY <1>2, <1>3, <1>4, <1>5, <1>6, <1>7, <1>8, <1>9 DEF FileStep

-----------------------------------------------------------------------------
(***************************************************************************)
(* The conference. All that is seen of it goes back to B's membership,     *)
(* which nothing takes away.                                               *)
(***************************************************************************)
ConfType ==
  /\ invited \in {"none", "sent", "seen"}
  /\ cookie \in BOOLEAN /\ member \in BOOLEAN /\ joined \in BOOLEAN
  /\ peers \in BOOLEAN /\ carried \in BOOLEAN /\ received \in BOOLEAN

ConfInv ==
  /\ ConfType
  /\ peers \/ joined \/ carried \/ received => member
  /\ feature = "conference_invite" => /\ out["A"] = Compatible => peers
                                      /\ out["B"] = Compatible => joined
  /\ feature = "conference_message" /\ out["B"] = Compatible => received

LEMMA ConfFrame ==
  ASSUME ConfInv, NEW F, Quiet(F), "conference_invite" \notin F, "conference_message" \notin F,
         UNCHANGED confVars
  PROVE  ConfInv'
<1>1. "A" \in Node /\ "B" \in Node
      /\ UNCHANGED <<invited, cookie, member, joined, peers, carried, received>>
  BY DEF Node, confVars
<1> QED
  BY <1>1 DEF Quiet, ConfInv, ConfType

\* A step of a test that leaves the conference as it is.
LEMMA ConfAnswer ==
  ASSUME PairInv, ConfInv, NEW n \in Node, UNCHANGED <<feature, confVars>>,
         \/ \E p : GoOn(n, p)
         \/ \E r : /\ Report(n, r)
                   /\ r = Compatible =>
                        /\ feature = "conference_invite" => IF n = "A" THEN peers ELSE joined
                        /\ feature = "conference_message" /\ n = "B" => received
  PROVE  ConfInv'
<1>1. /\ "A" \in Node /\ "B" \in Node /\ (n = "A" \/ n = "B") /\ feature' = feature
      /\ UNCHANGED <<invited, cookie, member, joined, peers, carried, received>>
  BY DEF Node, confVars
<1>2. \A m \in Node : m # n => out'[m] = out[m]
  BY Other
<1>3. out'[n] = Compatible =>
        \/ out[n] = Compatible
        \/ /\ feature = "conference_invite" => IF n = "A" THEN peers ELSE joined
           /\ feature = "conference_message" /\ n = "B" => received
  BY DEF GoOn, Report, PairInv, PairType
<1>4. ConfType'
  BY <1>1 DEF ConfInv, ConfType
<1>5. feature = "conference_invite" => /\ out'["A"] = Compatible => peers
                                       /\ out'["B"] = Compatible => joined
  BY <1>1, <1>2, <1>3 DEF ConfInv
<1>6. feature = "conference_message" /\ out'["B"] = Compatible => received
  BY <1>1, <1>2, <1>3 DEF ConfInv
<1> QED
  BY <1>1, <1>4, <1>5, <1>6 DEF ConfInv

LEMMA ConfStays == PairInv /\ ConfInv /\ Confer(ConfStep) => ConfInv'
<1> SUFFICES ASSUME PairInv, ConfInv, ConfStep PROVE ConfInv'
  BY DEF Confer
<1>0. /\ "A" \in Node /\ "B" \in Node
      /\ Compatible \notin {ConflictingBy1, ConflictingBy3, None}
  BY Outcomes DEF Node
<1>1. feature' = feature /\ impl' = impl
  BY ConfQuiet DEF Quiet
<1>2. CASE CreateAndInvite
  <2>1. /\ UNCHANGED <<cookie, member, joined, peers, carried, received>>
        /\ invited' \in {"sent", invited}
    BY <1>2 DEF CreateAndInvite
  <2>2. ConfType'
    BY <2>1 DEF ConfInv, ConfType
  <2>3. out'["B"] = out["B"]
    BY <1>0, <1>2, Other DEF CreateAndInvite
  <2>4. out'["A"] # Compatible
    BY <1>0, <1>2 DEF CreateAndInvite, FriendOnline, Waits, GoOn, Report, PairInv, PairType
  <2> QED
    BY <1>1, <2>1, <2>2, <2>3, <2>4 DEF ConfInv
<1>3. CASE PeerJoined
  BY <1>0, <1>1, <1>3, ConfAnswer DEF PeerJoined
<1>4. CASE NoPeer
  BY <1>0, <1>1, <1>4, ConfAnswer DEF NoPeer, TimedOut
<1>5. CASE SendToConference
  <2>1. /\ carried' = member \/ carried' = carried
        /\ feature = "conference_message"
        /\ UNCHANGED <<invited, cookie, member, joined, peers, received>>
    BY <1>5 DEF SendToConference
  <2>2. out'["B"] = out["B"]
    BY <1>0, <1>5, Other DEF SendToConference
  <2>3. carried' \in BOOLEAN /\ (carried' => member)
    BY <2>1 DEF ConfInv, ConfType
  <2>4. ConfType'
    BY <2>1, <2>3 DEF ConfInv, ConfType
  <2> QED
    BY <1>1, <2>1, <2>2, <2>3, <2>4 DEF ConfInv
<1>6. CASE StartInvited
  <2>1. /\ cookie' = FALSE /\ joined' = FALSE
        /\ received' = (received /\ feature = "conference_invite")
        /\ UNCHANGED <<invited, member, peers, carried>>
    BY <1>6 DEF StartInvited
  <2>2. ConfType'
    BY <2>1 DEF ConfInv, ConfType
  <2>3. out' = out /\ out["B"] # Compatible
    BY <1>0, <1>6 DEF StartInvited, GoOn, Waits, PairInv
  <2>4. received' => received
    BY <2>1
  <2> QED
    BY <1>1, <2>1, <2>2, <2>3, <2>4 DEF ConfInv
<1>7. CASE InviteTimeout \/ JoinTimeout \/ MessageTimeout
  BY <1>0, <1>1, <1>7, ConfAnswer DEF InviteTimeout, JoinTimeout, MessageTimeout, TimedOut
<1>8. CASE Join
  <2>1. /\ member' = TRUE \/ member' = member
        /\ UNCHANGED <<invited, cookie, joined, peers, carried, received>>
    BY <1>8 DEF Join
  <2>2. out'["A"] = out["A"]
    BY <1>0, <1>8, Other DEF Join
  <2>3. out'["B"] # Compatible
    BY <1>0, <1>8 DEF Join, Waits, GoOn, Report, PairInv, PairType
  <2>4. member' \in BOOLEAN /\ (member => member')
    BY <2>1 DEF ConfInv, ConfType
  <2>5. ConfType'
    BY <2>1, <2>4 DEF ConfInv, ConfType
  <2> QED
    BY <1>1, <2>1, <2>2, <2>3, <2>4, <2>5 DEF ConfInv
<1>9. CASE Joined
  <2>1. feature = "conference_invite"
    BY <1>0, <1>9 DEF Joined, Waits, PairInv, Loops
  <2> QED
    BY <1>0, <1>1, <1>9, <2>1, ConfAnswer DEF Joined
<1>10. CASE MessageHeard
  <2>1. feature = "conference_message"
    BY <1>0, <1>10 DEF MessageHeard, Waits, PairInv, Loops
  <2> QED
    BY <1>0, <1>1, <1>10, <2>1, ConfAnswer DEF MessageHeard
<1>11. CASE cb_conference_invite
  <2>1. /\ invited' = "seen" /\ (cookie' = TRUE \/ cookie' = cookie)
        /\ UNCHANGED <<out, member, joined, peers, carried, received>>
    BY <1>11 DEF cb_conference_invite, testVars
  <2>2. ConfType'
    BY <2>1 DEF ConfInv, ConfType
  <2> QED
    BY <1>1, <2>1, <2>2 DEF ConfInv
<1>12. CASE cb_conference_connected \/ PeerCounted
  <2>1. /\ member /\ UNCHANGED <<out, invited, cookie, member, carried, received>>
        /\ joined' = TRUE \/ joined' = joined
        /\ peers' = TRUE \/ peers' = peers
    BY <1>12 DEF cb_conference_connected, PeerCounted, pairVars, testVars
  <2>2. joined' \in BOOLEAN /\ (joined => joined')
    <3>1. CASE joined' = TRUE
      BY <3>1
    <3>2. CASE joined' = joined
      BY <3>2 DEF ConfInv, ConfType
    <3> QED
      BY <2>1, <3>1, <3>2
  <2>4. peers' \in BOOLEAN /\ (peers => peers')
    <3>1. CASE peers' = TRUE
      BY <3>1
    <3>2. CASE peers' = peers
      BY <3>2 DEF ConfInv, ConfType
    <3> QED
      BY <2>1, <3>1, <3>2
  <2>3. ConfType'
    BY <2>1, <2>2, <2>4 DEF ConfInv, ConfType
  <2> QED
    BY <1>1, <2>1, <2>2, <2>3, <2>4 DEF ConfInv
<1>13. CASE cb_conference_message \/ MessageLost
  <2>1. /\ carried /\ carried' = FALSE
        /\ UNCHANGED <<out, invited, cookie, member, joined, peers>>
        /\ received' = TRUE \/ received' = received
    BY <1>13 DEF cb_conference_message, MessageLost, pairVars, testVars
  <2>2. received' \in BOOLEAN /\ (received => received')
    <3>1. CASE received' = TRUE
      BY <3>1
    <3>2. CASE received' = received
      BY <3>2 DEF ConfInv, ConfType
    <3> QED
      BY <2>1, <3>1, <3>2
  <2>3. ConfType'
    BY <2>1, <2>2 DEF ConfInv, ConfType
  <2> QED
    BY <1>1, <2>1, <2>2, <2>3 DEF ConfInv
<1> QED
  BY <1>2, <1>3, <1>4, <1>5, <1>6, <1>7, <1>8, <1>9, <1>10, <1>11, <1>12, <1>13 DEF ConfStep

-----------------------------------------------------------------------------
(***************************************************************************)
(* The four parts together.                                                *)
(***************************************************************************)
IInv == PairInv /\ ChatInv /\ FileInv /\ ConfInv

LEMMA Begins == Init => IInv
<1> SUFFICES ASSUME Init PROVE IInv
  OBVIOUS
<1>0. "A" \in Node /\ "B" \in Node /\ None # Compatible
      /\ \A n \in Node : out[n] = None
  BY Outcomes DEF Node, Init, PairInit
<1>1. PairInv
  BY PairBegins DEF Init
<1>2. ChatInv
  <2>1. /\ \A n \in Node : wire[n] = 0 /\ ~heard[n]
        /\ wire \in [Node -> Nat] /\ heard \in [Node -> BOOLEAN] /\ echoed = {}
    BY DEF Init, ChatInit
  <2> QED
    BY <1>0, <2>1 DEF ChatInv, ChatType, OneBallInPlay
<1>3. FileInv
  <2>1. asked \in 0..Chunks + 1 /\ arrived \in 0..Chunks + 1 /\ pos \in 0..Chunks
    BY ChunksAssumption DEF Init, FileInit
  <2>2. /\ offer = "none" /\ asked = 0 /\ arrived = 0 /\ whole = {}
        /\ sendDone = FALSE /\ complete = FALSE
        /\ out["A"] # Compatible /\ out["B"] # Compatible
    BY <1>0 DEF Init, FileInit
  <2>3. FileType
    BY <2>1, <2>2 DEF FileType
  <2> QED
    BY <2>2, <2>3 DEF FileInv
<1>4. ConfInv
  <2>1. /\ invited = "none" /\ cookie = FALSE /\ member = FALSE /\ joined = FALSE
        /\ peers = FALSE /\ carried = FALSE /\ received = FALSE
        /\ out["A"] # Compatible /\ out["B"] # Compatible
    BY <1>0 DEF Init, ConfInit
  <2>2. ConfType
    BY <2>1 DEF ConfType
  <2> QED
    BY <2>1, <2>2 DEF ConfInv
<1> QED
  BY <1>1, <1>2, <1>3, <1>4 DEF IInv

LEMMA Stays == IInv /\ [Next]_vars => IInv'
<1> SUFFICES ASSUME IInv, [Next]_vars PROVE IInv'
  OBVIOUS
<1>0. PairInv /\ ChatInv /\ FileInv /\ ConfInv /\ PairInv'
  BY PairStays DEF IInv
<1>1. CASE Common(CommonStep)
  <2>1. CommonStep /\ UNCHANGED <<chatVars, fileVars, confVars>>
    BY <1>1 DEF Common
  <2>2. Quiet({"dht_bootstrap"})
    BY <1>0, <2>1, CommonQuiet
  <2> QED
    BY <1>0, <2>1, <2>2, ChatFrame, FileFrame, ConfFrame DEF IInv
<1>2. CASE Friend(FriendStep)
  <2>1. FriendStep /\ UNCHANGED <<fileVars, confVars>>
    BY <1>2 DEF Friend
  <2>2. Quiet({"friend_request", "friend_message"})
    BY <1>0, <2>1, FriendQuiet
  <2> QED
    BY <1>0, <1>2, <2>1, <2>2, ChatStays, FileFrame, ConfFrame DEF IInv
<1>3. CASE Filing(FileStep)
  <2>1. FileStep /\ UNCHANGED <<chatVars, confVars>>
    BY <1>3 DEF Filing
  <2>2. Quiet({"file_transfer"})
    BY <1>0, <2>1, FileQuiet
  <2> QED
    BY <1>0, <1>3, <2>1, <2>2, FileStays, ChatFrame, ConfFrame DEF IInv
<1>4. CASE Confer(ConfStep)
  <2>1. ConfStep /\ UNCHANGED <<chatVars, fileVars>>
    BY <1>4 DEF Confer
  <2>2. Quiet({"conference_invite", "conference_message"})
    BY <1>0, <2>1, ConfQuiet
  <2> QED
    BY <1>0, <1>4, <2>1, <2>2, ConfStays, ChatFrame, FileFrame DEF IInv
<1>5. CASE UNCHANGED vars
  <2>1. UNCHANGED <<chatVars, fileVars, confVars>> /\ UNCHANGED <<fixedVars, testVars>>
    BY <1>5 DEF vars, pairVars
  <2>2. Quiet({})
    BY <2>1, StillQuiet
  <2> QED
    BY <1>0, <2>1, <2>2, ChatFrame, FileFrame, ConfFrame DEF IInv
<1> QED
  BY <1>1, <1>2, <1>3, <1>4, <1>5, Steps

\* The feature and the implementations are those of the beginning.
LEMMA Fixed ==
  ASSUME IInv, [Next]_vars
  PROVE  feature' = feature /\ impl' = impl
<1>0. PairInv
  BY DEF IInv
<1>1. CASE Common(CommonStep)
  BY <1>0, <1>1, CommonQuiet DEF Common, Quiet
<1>2. CASE Friend(FriendStep)
  BY <1>0, <1>2, FriendQuiet DEF Friend, Quiet
<1>3. CASE Filing(FileStep)
  BY <1>0, <1>3, FileQuiet DEF Filing, Quiet
<1>4. CASE Confer(ConfStep)
  BY <1>0, <1>4, ConfQuiet DEF Confer, Quiet
<1>5. CASE UNCHANGED vars
  BY <1>5 DEF vars, pairVars, fixedVars
<1> QED
  BY <1>1, <1>2, <1>3, <1>4, <1>5, Steps

LEMMA Always == Spec => []IInv
  BY Begins, Stays, PTL DEF Spec

-----------------------------------------------------------------------------
(***************************************************************************)
(* Whose step moves whose test: only a node's own, and not one that has    *)
(* reported; and only a node without the feature says so.                  *)
(***************************************************************************)
Moves(n) ==
  /\ place[n] # "done"
  /\ \E p : place' = [place EXCEPT ![n] = p]
  /\ out' = out \/ \E r : /\ out' = [out EXCEPT ![n] = r]
                          /\ r = NotImplemented => ~Implements(n)

LEMMA GoOnMoves ==
  ASSUME NEW n, NEW p, place[n] # "done", GoOn(n, p)
  PROVE  Moves(n)
  BY DEF GoOn, Moves

LEMMA ReportMoves ==
  ASSUME NEW n, NEW r, place[n] # "done", Report(n, r),
         r = NotImplemented => ~Implements(n)
  PROVE  Moves(n)
  BY DEF Report, Moves

LEMMA Supported ==
  NotImplemented \notin {Compatible, ConflictingBy1, ConflictingBy3}
  BY DEF NotImplemented, Compatible, ConflictingBy1, ConflictingBy3

LEMMA TestMoves ==
  ASSUME NEW n \in Node, TestStep(n) \/ Timer(n)
  PROVE  Moves(n)
<1>1. CASE NotSupported(n) \/ StartDHT(n) \/ DHTFound(n) \/ DHTTimeout(n)
  BY <1>1, GoOnMoves, ReportMoves, Supported
     DEF NotSupported, StartDHT, DHTFound, DHTTimeout, TimedOut, Waits
<1>2. CASE n = "A" /\ (AddFriend \/ NeverOnline)
  BY <1>2, GoOnMoves, ReportMoves, Supported DEF AddFriend, NeverOnline, TimedOut, Waits
<1>3. CASE n = "A" /\ (RequestAnswered \/ SendPing \/ EchoHeard \/ EchoTimeout)
  BY <1>3, GoOnMoves, ReportMoves, Supported
     DEF RequestAnswered, SendPing, EchoHeard, EchoTimeout, TimedOut, Waits, FriendOnline
<1>4. CASE n = "B" /\ (StartRequested \/ Requested \/ RequestTimeout \/ StartServing \/ Served)
  BY <1>4, GoOnMoves, ReportMoves, Supported
     DEF StartRequested, Requested, RequestTimeout, StartServing, Served, TimedOut, Waits
<1>5. CASE n = "A" /\ (SendFile \/ FileSent \/ SendTimeout)
  BY <1>5, GoOnMoves, ReportMoves, Supported
     DEF SendFile, FileSent, SendTimeout, TimedOut, Waits, FriendOnline
<1>6. CASE n = "B" /\ (StartReceiving \/ FileReceived \/ ReceiveTimeout)
  BY <1>6, GoOnMoves, ReportMoves, Supported
     DEF StartReceiving, FileReceived, ReceiveTimeout, TimedOut, Waits
<1>7. CASE n = "A" /\ (CreateAndInvite \/ PeerJoined \/ NoPeer \/ SendToConference)
  BY <1>7, GoOnMoves, ReportMoves, Supported
     DEF CreateAndInvite, PeerJoined, NoPeer, SendToConference, TimedOut, Waits, FriendOnline
<1>8. CASE n = "B" /\ (StartInvited \/ InviteTimeout \/ Join \/ Joined \/ JoinTimeout
                       \/ MessageHeard \/ MessageTimeout)
  BY <1>8, GoOnMoves, ReportMoves, Supported
     DEF StartInvited, InviteTimeout, Join, Joined, JoinTimeout, MessageHeard, MessageTimeout,
         TimedOut, Waits
<1> QED
  BY <1>1, <1>2, <1>3, <1>4, <1>5, <1>6, <1>7, <1>8
     DEF TestStep, Timer, Common, Friend, Filing, Confer

LEMMA LibraryMoves ==
  ASSUME Delivers \/ Breaks
  PROVE  UNCHANGED <<place, out>>
  BY DEF Delivers, Breaks, Common, Friend, Filing, Confer, cb_friend_request, DHTConnects,
         ComesOnline, cb_friend_message, cb_file_recv, cb_file_chunk_request,
         cb_file_recv_chunk, cb_conference_invite, cb_conference_connected, PeerCounted,
         cb_conference_message, GoesOffline, ChatLost, MessageLost, testVars, pairVars

-----------------------------------------------------------------------------
(***************************************************************************)
(* What follows.                                                           *)
(***************************************************************************)

\* Types: the common state and the state of each feature's callbacks and
\* tests (the variables of main.c and cmd/go-testnode/main.go).
THEOREM TypeCorrect == Spec => []TypeOK
<1>1. IInv => TypeOK
  BY DEF IInv, PairInv, PairType, ChatInv, ChatType, FileInv, FileType, ConfInv, ConfType, TypeOK
<1> QED
  BY <1>1, Always, PTL

\* "file received and verified" is printed only of the whole file, and what
\* was verified is not touched afterwards (test_file_transfer and the file
\* callbacks).
THEOREM VerifiedFile == Spec => []VerifiedIsWhole
<1>1. IInv => VerifiedIsWhole
  BY DEF IInv, FileInv, VerifiedIsWhole
<1> QED
  BY <1>1, Always, PTL

\* A C responder that says it accepted a request has the initiator in its
\* friend list (cb_friend_request, test_friend_request).
THEOREM AcceptedFriend == Spec => []AcceptedIsFriend
<1>1. IInv => AcceptedIsFriend
  BY DEF IInv, PairInv, AcceptedIsFriend, Node
<1> QED
  BY <1>1, Always, PTL

\* Although both nodes send back all they hear, there is never more than
\* one message under way (the friend message callbacks of both nodes).
THEOREM OneBall == Spec => []OneBallInPlay
<1>1. IInv => OneBallInPlay
  BY DEF IInv, ChatInv
<1> QED
  BY <1>1, Always, PTL

LEMMA RealNow == IInv => CompatibleIsReal
<1>1. ASSUME IInv, AllDone, classifyResults(out["A"], out["B"]).status = "compatible"
      PROVE  Exchanged
  <2>0. "A" \in Node /\ "B" \in Node
    BY DEF Node
  <2>1. \A n \in Node : out[n] \in {Compatible, ConflictingBy1, ConflictingBy3, NotImplemented}
    <3>1. \A n \in Node : out[n] \in Results(impl[n]) /\ impl[n] \in {"go", "c"}
      BY <1>1, Impls DEF AllDone, IInv, PairInv, PairType
    <3> QED
      BY <3>1 DEF Results, goResults, cResults
  <2>2. \A n \in Node : out[n] \in Answer
    BY <2>1 DEF Answer, NodeStatus, Reported, ExitCode,
                Compatible, ConflictingBy1, ConflictingBy3, NotImplemented
  <2>3. out["A"].exit = 0 /\ out["B"].exit = 0
    BY <1>1, <2>0, <2>2, CompatibleNeedsBoth
  <2>4. out["A"] = Compatible /\ out["B"] = Compatible
    BY <2>0, <2>1, <2>3 DEF Compatible, ConflictingBy1, ConflictingBy3, NotImplemented
  <2>5. feature \in Feature
    BY <1>1, FeaturesAssumption DEF IInv, PairInv, PairType
  <2>6. CASE feature = "dht_bootstrap"
    BY <1>1, <2>0, <2>4, <2>6 DEF IInv, PairInv, PairType, Exchanged, Node
  <2>7. CASE feature = "friend_request"
    BY <1>1, <2>4, <2>7 DEF IInv, PairInv, Exchanged
  <2>8. CASE feature = "friend_message"
    BY <1>1, <2>4, <2>8 DEF IInv, ChatInv, Exchanged
  <2>9. CASE feature = "file_transfer"
    BY <1>1, <2>4, <2>9 DEF IInv, FileInv, Exchanged
  <2>10. CASE feature \in {"conference_invite", "conference_message"}
    BY <1>1, <2>4, <2>10 DEF IInv, ConfInv, Exchanged
  <2> QED
    BY <2>5, <2>6, <2>7, <2>8, <2>9, <2>10 DEF Feature
<1> QED
  BY <1>1 DEF CompatibleIsReal

\* A pair is found compatible only when the thing tested was done at both
\* ends, for all features and pairs of implementations (the feature tests
\* of both nodes, classifyResults).
THEOREM CompatiblePair == Spec => []CompatibleIsReal
  BY RealNow, Always, PTL
=============================================================================
