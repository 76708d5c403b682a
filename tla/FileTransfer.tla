----------------------------- MODULE FileTransfer ----------------------------
(***************************************************************************)
(* file_transfer on the C node: the three file callbacks and the test of   *)
(* either role. The library transfers a file of a known size in order, in  *)
(* Chunks pieces, and tells both ends of the end with a length of 0.       *)
(***************************************************************************)
EXTENDS ToxPair

CONSTANT Chunks   \* the pieces a file of FILE_XFER_SIZE bytes comes in

ASSUME ChunksAssumption == Chunks \in Nat \ {0}

VARIABLES
  offer,      \* the transfer: "none", "sent", "accepted", "dead"
  asked,      \* chunks A was asked for; Chunks + 1 after the final call
  arrived,    \* chunks B was given; Chunks + 1 after the final call
  sendDone,   \* A: g_file_send_done
  pos,        \* B: g_file_pos, in chunks
  whole,      \* B: the chunks of g_file_data that hold the right bytes
  complete    \* B: g_file_complete

fileVars == <<offer, asked, arrived, sendDone, pos, whole, complete>>

File == 1..Chunks

FileInit ==
  /\ offer = "none"
  /\ asked = 0 /\ arrived = 0
  /\ sendDone = FALSE
  /\ pos = 0 /\ whole = {} /\ complete = FALSE

-----------------------------------------------------------------------------
\* test_file_transfer, initiator.
SendFile ==
  /\ feature = "file_transfer" /\ FriendOnline
  /\ \/ /\ offer' = "sent" /\ sendDone' = FALSE
        /\ GoOn("A", "sending")
        /\ UNCHANGED mishap
     \/ /\ Report("A", ConflictingBy1)
        /\ mishap' = TRUE
        /\ UNCHANGED <<offer, sendDone>>
  /\ UNCHANGED <<fixedVars, dht, friendVars, asked, arrived, pos, whole, complete>>

FileSent ==
  /\ Waits("A", "sending") /\ sendDone
  /\ Report("A", Compatible)
  /\ UNCHANGED <<fixedVars, dht, friendVars, mishap, fileVars>>

SendTimeout ==
  /\ Waits("A", "sending") /\ ~sendDone
  /\ TimedOut("A")
  /\ UNCHANGED <<fixedVars, dht, friendVars, fileVars>>

\* test_file_transfer, responder. What came in before is wiped.
StartReceiving ==
  /\ feature = "file_transfer" /\ Waits("B", "idle") /\ impl["B"] = "c"
  /\ GoOn("B", "receiving")
  /\ pos' = 0 /\ whole' = {} /\ complete' = FALSE
  /\ Blame(arrived > 0)
  /\ UNCHANGED <<fixedVars, dht, friendVars, offer, asked, arrived, sendDone>>

\* Mutant: the length is compared, the bytes are not.
VerifiedByLength == pos = Chunks

Verified == 1..pos \subseteq whole /\ pos = Chunks

FileReceived ==
  /\ Waits("B", "receiving") /\ complete
  /\ Report("B", IF Verified THEN Compatible ELSE ConflictingBy1)
  /\ UNCHANGED <<fixedVars, dht, friendVars, mishap, fileVars>>

ReceiveTimeout ==
  /\ Waits("B", "receiving") /\ ~complete
  /\ TimedOut("B")
  /\ UNCHANGED <<fixedVars, dht, friendVars, fileVars>>

-----------------------------------------------------------------------------
\* The offer comes in: it is accepted, or accepted in vain (the error of
\* tox_file_control is not looked at), or cancelled as not the expected kind
\* or size. Only the last leaves the position alone.
cb_file_recv ==
  /\ offer = "sent" /\ impl["B"] = "c"
  /\ \/ offer' = "accepted" /\ pos' = 0 /\ complete' = FALSE /\ UNCHANGED mishap
     \/ offer' = "dead" /\ mishap' = TRUE /\ pos' = 0 /\ complete' = FALSE
     \/ offer' = "dead" /\ mishap' = TRUE /\ UNCHANGED <<pos, complete>>
  /\ UNCHANGED <<fixedVars, testVars, dht, friendVars, asked, arrived, sendDone, whole>>

\* A's library asks for the next chunk, and at the end says so. The error
\* of tox_file_send_chunk is not looked at: the transfer stalls.
cb_file_chunk_request ==
  /\ offer = "accepted"
  /\ \/ /\ asked < Chunks /\ asked' = asked + 1
        /\ UNCHANGED <<offer, sendDone, mishap>>
     \/ /\ asked < Chunks /\ offer' = "dead" /\ mishap' = TRUE
        /\ UNCHANGED <<asked, sendDone>>
     \/ /\ asked = Chunks /\ arrived >= Chunks /\ asked' = asked + 1
        /\ sendDone' = TRUE
        /\ UNCHANGED <<offer, mishap>>
  /\ UNCHANGED <<fixedVars, testVars, dht, friendVars, arrived, pos, whole, complete>>

\* Mutant: the empty chunk counts as any other, so the end comes again.
FinalChunkRepeated == arrived >= Chunks

FinalChunk == arrived = Chunks

\* B's library hands over the next chunk, intact or not, and then the end.
cb_file_recv_chunk ==
  /\ offer = "accepted"
  /\ \/ /\ arrived < asked /\ arrived < Chunks
        /\ pos' = arrived + 1
        /\ \/ whole' = whole \cup {pos'} /\ UNCHANGED mishap
           \/ whole' = whole \ {pos'} /\ mishap' = TRUE
        /\ UNCHANGED complete
     \/ /\ FinalChunk
        /\ complete' = TRUE
        /\ UNCHANGED <<pos, whole, mishap>>
  /\ arrived' = arrived + 1
  /\ UNCHANGED <<fixedVars, testVars, dht, friendVars, offer, asked, sendDone>>
=============================================================================
