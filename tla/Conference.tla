----------------------------- MODULE Conference ------------------------------
(***************************************************************************)
(* conference_invite and conference_message on the C node: the three       *)
(* conference callbacks and the tests of either role. There is one         *)
(* conference, A's, and one invitation to it.                              *)
(***************************************************************************)
EXTENDS ToxPair

VARIABLES
  invited,    \* the invitation: "none", "sent", "seen"
  cookie,     \* B: g_conference_cookie_len > 0
  member,     \* B's library has joined
  joined,     \* B: g_conference_joined
  peers,      \* A: the conference has at least two peers
  carried,    \* A's message is on its way to B
  received    \* B: g_conference_msg_received

confVars == <<invited, cookie, member, joined, peers, carried, received>>

ConfInit ==
  /\ invited = "none"
  /\ cookie = FALSE /\ member = FALSE /\ joined = FALSE
  /\ peers = FALSE /\ carried = FALSE /\ received = FALSE

Conferring == feature \in {"conference_invite", "conference_message"}

-----------------------------------------------------------------------------
(***************************************************************************)
(* Initiator: a conference is made and the friend invited. Only            *)
(* conference_invite looks at the error of the invitation.                 *)
(***************************************************************************)
CreateAndInvite ==
  /\ Conferring /\ FriendOnline
  /\ \/ invited' = "sent" /\ GoOn("A", "peer") /\ UNCHANGED mishap
     \/ /\ feature = "conference_message"
        /\ GoOn("A", "peer")
        /\ mishap' = TRUE /\ UNCHANGED invited
     \/ /\ Report("A", ConflictingBy1)
        /\ mishap' = TRUE /\ UNCHANGED invited
  /\ UNCHANGED <<fixedVars, dht, friendVars, cookie, member, joined, peers,
                 carried, received>>

PeerJoined ==
  /\ feature = "conference_invite" /\ Waits("A", "peer") /\ peers
  /\ Report("A", Compatible)
  /\ UNCHANGED <<fixedVars, dht, friendVars, mishap, confVars>>

NoPeer ==
  /\ feature = "conference_invite" /\ Waits("A", "peer") /\ ~peers
  /\ TimedOut("A")
  /\ UNCHANGED <<fixedVars, dht, friendVars, confVars>>

\* The loop of conference_message ends with a peer or with its timer, and
\* the message is sent in both cases. It reaches B if B is a member.
SendToConference ==
  /\ feature = "conference_message" /\ Waits("A", "peer")
  /\ \/ Report("A", Compatible) /\ carried' = member /\ Blame(~peers)
     \/ Report("A", ConflictingBy1) /\ mishap' = TRUE /\ UNCHANGED carried
  /\ UNCHANGED <<fixedVars, dht, friendVars, invited, cookie, member, joined,
                 peers, received>>

-----------------------------------------------------------------------------
(***************************************************************************)
(* Responder. What came in before the test is wiped, the cookie too.       *)
(***************************************************************************)
StartInvited ==
  /\ Conferring /\ Waits("B", "idle") /\ impl["B"] = "c"
  /\ GoOn("B", "invite")
  /\ cookie' = FALSE /\ joined' = FALSE
  /\ received' = (received /\ feature = "conference_invite")
  /\ Blame(cookie)
  /\ UNCHANGED <<fixedVars, dht, friendVars, invited, member, peers, carried>>

InviteTimeout ==
  /\ Waits("B", "invite") /\ ~cookie
  /\ TimedOut("B")
  /\ UNCHANGED <<fixedVars, dht, friendVars, confVars>>

\* tox_conference_join with the friend number of the last request. Only
\* conference_invite looks at its error.
Join ==
  /\ Waits("B", "invite") /\ cookie
  /\ \/ /\ friendNum = "peer"
        /\ member' = TRUE
        /\ GoOn("B", IF feature = "conference_invite" THEN "join" ELSE "message")
        /\ UNCHANGED mishap
     \/ /\ IF feature = "conference_invite" THEN Report("B", ConflictingBy1)
                                            ELSE GoOn("B", "message")
        /\ Blame(friendNum = "peer")
        /\ UNCHANGED member
  /\ UNCHANGED <<fixedVars, dht, friendVars, invited, cookie, joined, peers,
                 carried, received>>

Joined ==
  /\ Waits("B", "join") /\ joined
  /\ Report("B", Compatible)
  /\ UNCHANGED <<fixedVars, dht, friendVars, mishap, confVars>>

JoinTimeout ==
  /\ Waits("B", "join") /\ ~joined
  /\ TimedOut("B")
  /\ UNCHANGED <<fixedVars, dht, friendVars, confVars>>

\* Mutant: the responder of conference_message is content to be a member.
MessageUnheard ==
  /\ Waits("B", "message") /\ member
  /\ Report("B", Compatible)
  /\ UNCHANGED <<fixedVars, dht, friendVars, mishap, confVars>>

MessageHeard ==
  /\ Waits("B", "message") /\ received
  /\ Report("B", Compatible)
  /\ UNCHANGED <<fixedVars, dht, friendVars, mishap, confVars>>

\* Mutant: the loop has no bound.
MessageAwaited == FALSE

MessageTimeout ==
  /\ Waits("B", "message") /\ ~received
  /\ TimedOut("B")
  /\ UNCHANGED <<fixedVars, dht, friendVars, confVars>>

-----------------------------------------------------------------------------
(***************************************************************************)
(* Callbacks and library.                                                  *)
(***************************************************************************)
\* A cookie longer than the buffer, or of another type of conference, is
\* dropped without a word.
cb_conference_invite ==
  /\ invited = "sent" /\ impl["B"] = "c"
  /\ invited' = "seen"
  /\ \/ cookie' = TRUE /\ UNCHANGED mishap
     \/ mishap' = TRUE /\ UNCHANGED cookie
  /\ UNCHANGED <<fixedVars, testVars, dht, friendVars, member, joined, peers,
                 carried, received>>

cb_conference_connected ==
  /\ member /\ ~joined
  /\ joined' = TRUE
  /\ UNCHANGED <<pairVars, invited, cookie, member, peers, carried, received>>

PeerCounted ==
  /\ member /\ ~peers /\ Iterates("A")
  /\ peers' = TRUE
  /\ UNCHANGED <<pairVars, invited, cookie, member, joined, carried, received>>

cb_conference_message ==
  /\ carried
  /\ carried' = FALSE /\ received' = TRUE
  /\ UNCHANGED <<pairVars, invited, cookie, member, joined, peers>>

MessageLost ==
  /\ carried
  /\ carried' = FALSE
  /\ mishap' = TRUE
  /\ UNCHANGED <<fixedVars, testVars, dht, friendVars, invited, cookie, member,
                 joined, peers, received>>
=============================================================================
