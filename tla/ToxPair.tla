------------------------------- MODULE ToxPair -------------------------------
(***************************************************************************)
(* What the feature tests of the Go and C nodes share: two freshly started *)
(* Tox instances, the friend list and connection status of each, the       *)
(* friend request callback, and the way a test waits and reports. Side A   *)
(* is the initiator, side B the responder. One run tests one feature.      *)
(*                                                                         *)
(* The Tox libraries are the environment: they deliver what was sent, or   *)
(* do not, and a call may fail. A library moves only while its program     *)
(* iterates it: the C node does so in its command loop and in its tests,   *)
(* the Go node in its tests alone.                                         *)
(***************************************************************************)
EXTENDS Classify, Naturals

CONSTANTS
  Pairs,        \* the pairs of implementations, functions on Node
  Features,     \* the features tested
  MaxRequests   \* BOUND: how often the library delivers the friend request

Node    == {"A", "B"}
Peer(n) == IF n = "A" THEN "B" ELSE "A"

Feature == {"dht_bootstrap", "friend_request", "friend_message",
            "file_transfer", "conference_invite", "conference_message"}

ASSUME PairsAssumption    == Pairs \subseteq [Node -> {"go", "c"}]
ASSUME FeaturesAssumption == Features \subseteq Feature
ASSUME RequestsAssumption == MaxRequests \in Nat

VARIABLES
  feature, impl,   \* what is tested, and on which implementations; fixed
  place,           \* place[n]: the loop n's test is in
  out,             \* out[n]: the result n printed
  dht,             \* the nodes that see a DHT peer
  friends,         \* the nodes that have their peer in the friend list
  online,          \* the nodes that see their peer online
  requests,        \* how often B's library delivered A's friend request
  requested,       \* B: g_friend_received, or len(friendRequests) > 0
  friendNum,       \* B: g_friend_num, "peer" or "none" (UINT32_MAX)
  mishap           \* something went wrong that the tests cannot mend

fixedVars  == <<feature, impl>>
testVars   == <<place, out>>
friendVars == <<friends, online, requests, requested, friendNum>>
pairVars   == <<fixedVars, testVars, dht, friendVars, mishap>>

\* The loops of the tests, by what they wait for.
Place == {"idle", "dht", "online", "request", "echo", "serve", "sending",
          "receiving", "peer", "invite", "join", "message", "done"}

PairInit ==
  /\ feature   \in Features
  /\ impl      \in Pairs
  /\ place     = [n \in Node |-> "idle"]
  /\ out       = [n \in Node |-> None]
  /\ dht       = {} /\ friends = {} /\ online = {}
  /\ requests  = 0
  /\ requested = FALSE
  /\ friendNum = "none"
  /\ mishap    = FALSE

-----------------------------------------------------------------------------
GoOn(n, p)   == place' = [place EXCEPT ![n] = p] /\ UNCHANGED out
Report(n, r) == /\ place' = [place EXCEPT ![n] = "done"]
                /\ out'   = [out   EXCEPT ![n] = r]

Waits(n, p)  == place[n] = p
Iterates(n)  == impl[n] = "c" \/ place[n] \notin {"idle", "done"}

\* A timer of n runs out. The C loops look for the event after every
\* iteration; the Go loops only before one, so the last one's is missed.
Expired(n, event) == impl[n] = "go" \/ ~event

TimedOut(n) == Report(n, ConflictingBy3) /\ mishap' = TRUE

Blame(b) == mishap' = (mishap \/ b)

\* The Go node has no file and conference tests: it answers at once.
Implements(n) ==
  impl[n] = "go" => feature \in {"dht_bootstrap", "friend_request", "friend_message"}

NotSupported(n) ==
  /\ ~Implements(n) /\ Waits(n, "idle")
  /\ Report(n, NotImplemented)
  /\ UNCHANGED <<fixedVars, dht, friendVars, mishap>>

-----------------------------------------------------------------------------
(***************************************************************************)
(* dht_bootstrap, on both sides.                                           *)
(***************************************************************************)
StartDHT(n) ==
  /\ feature = "dht_bootstrap" /\ Waits(n, "idle")
  /\ GoOn(n, "dht")
  /\ UNCHANGED <<fixedVars, dht, friendVars, mishap>>

DHTFound(n) ==
  /\ Waits(n, "dht") /\ n \in dht
  /\ Report(n, Compatible)
  /\ UNCHANGED <<fixedVars, dht, friendVars, mishap>>

DHTTimeout(n) ==
  /\ Waits(n, "dht") /\ Expired(n, n \in dht)
  /\ TimedOut(n)
  /\ UNCHANGED <<fixedVars, dht, friendVars>>

-----------------------------------------------------------------------------
(***************************************************************************)
(* The initiator adds the responder. When that fails, the friend tests     *)
(* report, except friend_message of the Go node, which like the other      *)
(* tests goes on with a friend that will never be online. Every test of    *)
(* the C node reports an address that is not hexadecimal.                  *)
(***************************************************************************)
AddIsFatal ==
  feature = "friend_request" \/ (feature = "friend_message" /\ impl["A"] = "c")

AddFriend ==
  /\ feature # "dht_bootstrap" /\ Implements("A") /\ Waits("A", "idle")
  /\ \/ friends' = friends \cup {"A"} /\ GoOn("A", "online") /\ UNCHANGED mishap
     \/ /\ \/ (AddIsFatal \/ impl["A"] = "c") /\ Report("A", ConflictingBy1)
           \/ ~AddIsFatal /\ GoOn("A", "online")
        /\ mishap' = TRUE
        /\ UNCHANGED friends
  /\ UNCHANGED <<fixedVars, dht, online, requests, requested, friendNum>>

\* Every initiator but the Go one of friend_request looks once more after
\* its loop.
NeverOnline ==
  /\ Waits("A", "online")
  /\ IF feature = "friend_request" THEN Expired("A", "A" \in online)
                                   ELSE "A" \notin online
  /\ TimedOut("A")
  /\ UNCHANGED <<fixedVars, dht, friendVars>>

FriendOnline == Waits("A", "online") /\ "A" \in online

\* Mutant: the C callback does not look at err either.
NotedWithoutError(err) == TRUE

\* Which outcome of the add lets the request count as accepted.
Noted(err) == impl["B"] = "go" \/ err \in {"ok", "already"}

\* The responder's callback, at any time B iterates. The C node overwrites
\* its friend number also when the add fails, as it does for a friend it
\* has (ALREADY_SENT); the Go node takes note of the request in any case.
UsesFriendNum == feature \in {"conference_invite", "conference_message"}

cb_friend_request ==
  /\ "A" \in friends /\ Iterates("B") /\ requests < MaxRequests
  /\ requests' = requests + 1
  /\ \E err \in IF "B" \in friends THEN {"already"} ELSE {"ok", "failed"} :
       /\ friends'   = IF err = "ok" THEN friends \cup {"B"} ELSE friends
       /\ friendNum' = IF err = "ok" /\ impl["B"] = "c" THEN "peer" ELSE "none"
       /\ requested' = (requested \/ Noted(err))
       /\ Blame(err = "failed" \/ (err = "already" /\ UsesFriendNum))
  /\ UNCHANGED <<fixedVars, testVars, dht, online>>

-----------------------------------------------------------------------------
(***************************************************************************)
(* The libraries: a DHT peer is found, a friend is seen online when each   *)
(* has added the other, the connection breaks.                             *)
(***************************************************************************)
DHTConnects(n) ==
  /\ feature = "dht_bootstrap" /\ n \notin dht /\ Iterates(n)
  /\ dht' = dht \cup {n}
  /\ UNCHANGED <<fixedVars, testVars, friendVars, mishap>>

ComesOnline(n) ==
  /\ friends = Node /\ n \notin online /\ Iterates(n)
  /\ online' = online \cup {n}
  /\ UNCHANGED <<fixedVars, testVars, dht, friends, requests, requested,
                 friendNum, mishap>>

GoesOffline(n) ==
  /\ n \in online /\ Iterates(n)
  /\ online' = online \ {n}
  /\ mishap' = TRUE
  /\ UNCHANGED <<fixedVars, testVars, dht, friends, requests, requested, friendNum>>
=============================================================================
