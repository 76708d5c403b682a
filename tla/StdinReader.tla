---------------------------- MODULE StdinReader -----------------------------
(***************************************************************************)
(* The command loop of the C test node: read() into g_stdin_buf, dispatch  *)
(* of the complete lines in it, and the branch for a line longer than the  *)
(* buffer (testnode/ctoxcore/main.c).                                      *)
(*                                                                         *)
(* Bytes are positions in everything ever written to stdin; what a byte is *)
(* matters only where it is a newline. The buffer always holds a segment   *)
(* of the stream: the bytes base+1..read, so g_stdin_len = read - base,    *)
(* and a dispatched text is a segment too.                                 *)
(***************************************************************************)
EXTENDS Integers, FiniteSets, Sequences

CONSTANTS
  Size,      \* BOUND: bytes the other side writes
  Streams,   \* the sets of newline positions a stream may have
  BufCap,    \* bytes g_stdin_buf takes in (sizeof - 1)
  DrainCap   \* bytes of the buffer `drain' (256)

ASSUME SizeAssumption    == Size \in Nat
ASSUME StreamsAssumption == Streams \subseteq SUBSET (1..Size)
ASSUME CapAssumption     == BufCap \in Nat \ {0} /\ DrainCap \in Nat \ {0}

VARIABLES
  nl,        \* positions of the newlines, fixed
  stop,      \* newlines of the lines that say shutdown, fixed
  written,   \* bytes in the pipe so far
  eof,       \* the other side closed it
  read,      \* bytes taken from the pipe
  base,      \* where the buffer begins
  pc,        \* "select", "drain", "process" or "exit"
  running,   \* g_running
  ran        \* the segments handed to dispatch, in order

streamVars == <<nl, stop, written, eof>>
vars == <<streamVars, read, base, pc, running, ran>>

Init ==
  /\ nl \in Streams
  /\ stop \in {S \in SUBSET nl : Cardinality(S) <= 1}
  /\ written = 0 /\ eof = FALSE
  /\ read = 0 /\ base = 0
  /\ pc = "select" /\ running = TRUE
  /\ ran = << >>

-----------------------------------------------------------------------------
(***************************************************************************)
(* The other side. A write may reach the pipe in parts.                    *)
(***************************************************************************)
Write ==
  /\ ~eof
  /\ written' \in written + 1 .. Size
  /\ UNCHANGED <<nl, stop, eof, read, base, pc, running, ran>>

Hangup ==
  /\ ~eof
  /\ eof' = TRUE
  /\ UNCHANGED <<nl, stop, written, read, base, pc, running, ran>>

-----------------------------------------------------------------------------
Room  == BufCap - (read - base)
Avail == written - read

\* Mutant: the count given to read() does not allow for what is buffered.
AtMostBuf(n) == IF Avail < BufCap THEN Avail ELSE BufCap

AtMost(n) == IF Avail < n THEN Avail ELSE n    \* what read() returns

Breaks(from, to) == \E e \in nl : from < e /\ e <= to

\* One round of the loop starts in select; nothing to read, nothing to do.
ReadInput ==
  /\ pc = "select" /\ Room > 0
  /\ Avail > 0
  /\ read' = read + AtMost(Room)
  /\ pc' = "process"
  /\ UNCHANGED <<streamVars, base, running, ran>>

\* Mutant: the end is seen in the hangup, not in a read of 0 bytes.
EndAtHangup ==
  /\ pc = "select" /\ Room > 0
  /\ eof
  /\ pc' = "exit"
  /\ UNCHANGED <<streamVars, read, base, running, ran>>

EndOfInput ==
  /\ pc = "select" /\ Room > 0
  /\ Avail = 0 /\ eof
  /\ pc' = "exit"
  /\ UNCHANGED <<streamVars, read, base, running, ran>>

\* Mutant: the full buffer is not emptied.
DiscardKeeps ==
  /\ pc = "select" /\ Room = 0
  /\ Avail > 0 \/ eof
  /\ pc' = "drain"
  /\ UNCHANGED <<streamVars, base, read, running, ran>>

\* The buffer is full: forget it and read up to a newline, and with it
\* whatever else the same read() brought.
Discard ==
  /\ pc = "select" /\ Room = 0
  /\ Avail > 0 \/ eof
  /\ base' = read
  /\ pc' = "drain"
  /\ UNCHANGED <<streamVars, read, running, ran>>

\* Mutant: the last byte of the block is not looked at.
DrainOverlooks ==
  /\ pc = "drain"
  /\ Avail > 0
  /\ read' = read + AtMost(DrainCap)
  /\ base' = read'
  /\ pc' = IF Breaks(read, read' - 1) THEN "process" ELSE "drain"
  /\ UNCHANGED <<streamVars, running, ran>>

Drain ==
  /\ pc = "drain"
  /\ Avail > 0
  /\ read' = read + AtMost(DrainCap)
  /\ base' = read'
  /\ pc' = IF Breaks(read, read') THEN "process" ELSE "drain"
  /\ UNCHANGED <<streamVars, running, ran>>

\* Mutant: only an error ends the draining, not the end of the input.
DrainSpins ==
  /\ pc = "drain"
  /\ Avail = 0 /\ eof
  /\ UNCHANGED vars

DrainEnds ==
  /\ pc = "drain"
  /\ Avail = 0 /\ eof
  /\ running' = FALSE
  /\ pc' = "process"
  /\ UNCHANGED <<streamVars, read, base, ran>>

(***************************************************************************)
(* process_stdin_lines: the first line of the buffer, while there is one.  *)
(* A blank line is dropped. A whole line that says shutdown stops the      *)
(* node; what the tail of a line says may be anything.                     *)
(***************************************************************************)
HasLine  == Breaks(base, read)
First(e) == base < e /\ e <= read /\ ~Breaks(base, e - 1)    \* the newline at e

Segment(e) == [from |-> base + 1, to |-> e]
Starts(p)  == p = 1 \/ p - 1 \in nl
Whole(seg) == Starts(seg.from) /\ seg.to \in nl /\ ~Breaks(seg.from - 1, seg.to - 1)

\* Mutant: the next line waits for the next round, as with fgets().
DispatchOne ==
  /\ pc = "process" /\ running
  /\ \E e \in nl :
       /\ First(e)
       /\ base' = e
       /\ ran' = Append(ran, Segment(e))
       /\ running' = (e \notin stop)
       /\ pc' = IF e \in stop THEN "exit" ELSE "select"
  /\ UNCHANGED <<streamVars, read>>

\* Mutant: the rest of the buffer is not moved to the front.
DispatchForgetsRest ==
  /\ pc = "process" /\ running
  /\ \E e \in nl :
       /\ First(e)
       /\ base' = read
       /\ ran' = Append(ran, Segment(e))
       /\ running' = (e \notin stop)
  /\ UNCHANGED <<streamVars, read, pc>>

\* Mutant: g_running is looked at in the outer loop alone.
DispatchStopped ==
  /\ pc = "process"
  /\ \E e \in nl :
       /\ First(e)
       /\ base' = e
       /\ ran' = Append(ran, Segment(e))
       /\ running' = (running /\ e \notin stop)
  /\ UNCHANGED <<streamVars, read, pc>>

Dispatch ==
  /\ pc = "process" /\ running
  /\ \E e \in nl :
       /\ First(e)
       /\ base' = e
       /\ IF e = base + 1
            THEN UNCHANGED <<ran, running>>
            ELSE /\ ran' = Append(ran, Segment(e))
                 /\ \/ running' = (e \notin stop)
                    \/ ~Whole(Segment(e)) /\ running' \in BOOLEAN
  /\ UNCHANGED <<streamVars, read, pc>>

RoundEnds ==
  /\ pc = "process" /\ ~(running /\ HasLine)
  /\ pc' = IF running THEN "select" ELSE "exit"
  /\ UNCHANGED <<streamVars, read, base, running, ran>>

NodeStep ==
  \/ ReadInput \/ EndOfInput \/ Discard \/ Drain \/ DrainEnds
  \/ Dispatch \/ RoundEnds

Exited == pc = "exit" /\ UNCHANGED vars

Next == Write \/ Hangup \/ NodeStep \/ Exited

\* The node's process is scheduled; nobody owes it input.
Spec == Init /\ [][Next]_vars /\ WF_vars(NodeStep)

-----------------------------------------------------------------------------
(***************************************************************************)
(* Properties.                                                             *)
(***************************************************************************)

\* The buffer is a segment of what was written, never longer than it can be.
TypeOK ==
  /\ nl \in SUBSET (1..Size) /\ stop \in SUBSET nl
  /\ written \in 0..Size /\ read \in 0..written /\ base \in 0..read
  /\ read - base <= BufCap
  /\ eof \in BOOLEAN /\ running \in BOOLEAN
  /\ pc \in {"select", "drain", "process", "exit"}
  /\ ran \in Seq([from : 1..Size, to : 1..Size])

(***************************************************************************)
(* The node never waits for input while a complete line is in its buffer:  *)
(* the fault of the select() and fgets() version that the comment at       *)
(* main.c:838-847 describes (process_stdin_lines).                         *)
(***************************************************************************)
NothingStranded == pc = "select" => ~HasLine

(***************************************************************************)
(* When every line fits the buffer, however the stream is cut into writes, *)
(* the lines dispatched are the lines written: each non-blank one up to    *)
(* the reader's position, whole, once and in order (process_stdin_lines,   *)
(* the read in main).                                                      *)
(***************************************************************************)
Fits ==
  \A b \in {0} \cup nl : Size - b < BufCap \/ Breaks(b, b + BufCap)

LinesUpTo(n) ==
  {seg \in [from : 1..Size, to : 1..Size] :
     Whole(seg) /\ seg.from < seg.to /\ seg.to <= n}

LinesIntact ==
  Fits =>
    /\ {ran[i] : i \in 1..Len(ran)} = LinesUpTo(base)
    /\ \A i, j \in 1..Len(ran) : i < j => ran[i].to < ran[j].from

(***************************************************************************)
(* Nothing after a shutdown command is dispatched: a node told to stop     *)
(* starts no test that is already in its buffer (g_running in both loops). *)
(***************************************************************************)
NothingAfterShutdown ==
  \A i \in 1..Len(ran) :
    Whole(ran[i]) /\ ran[i].to \in stop => i = Len(ran) /\ ~running

(***************************************************************************)
(* The node exits after the other side hung up, wherever in a line or in   *)
(* draining one that finds it: n == 0 and n <= 0 in main.                  *)
(***************************************************************************)
HangupEnds == eof ~> pc = "exit"

(***************************************************************************)
(* The loop implements LineStream: whatever the sizes of the reads, of the *)
(* buffer and of the block, a byte is passed over only behind a line that  *)
(* does not fit, at most one block beyond its end, and no line is left     *)
(* behind when the node leaves (main, process_stdin_lines).                *)
(***************************************************************************)
Lines == INSTANCE LineStream WITH
  taken <- base,
  lost  <- (pc = "drain"),
  gone  <- (~running \/ pc = "exit")

ImplementsLineStream == Lines!Spec

(***************************************************************************)
(* Neither loop spins: every step of the node leaves it less to do, where  *)
(* a byte in the pipe, a byte in the buffer and the place in the round     *)
(* count. So it does only finitely much between two writes, also in the    *)
(* branch for an overlong line (main).                                     *)
(***************************************************************************)
Place == CASE pc = "drain" -> 3 [] pc = "process" -> 2 [] pc = "select" -> 1
           [] pc = "exit"  -> 0
Work == 6 * Avail + 4 * (read - base) + Place

NeverSpins == [][NodeStep => Work' < Work /\ Work' >= 0]_vars

(***************************************************************************)
(* What an overlong line costs: a command is cut only within one block of  *)
(* the drain behind a buffer's worth of bytes without a newline, whatever  *)
(* was read before and since (the overlong-line branch in main).           *)
(***************************************************************************)
BehindOverlong(p) ==
  \E b \in BufCap .. p - 1 : p <= b + DrainCap /\ ~Breaks(b - BufCap, b)

TailHasCause ==
  \A i \in 1..Len(ran) : Whole(ran[i]) \/ BehindOverlong(ran[i].from - 1)

(***************************************************************************)
(* No line is forgotten: each that was written is dispatched in the end,   *)
(* itself or its tail, unless it is blank, the node stops first, or the    *)
(* line ends (or all of its text does) within one block of the drain       *)
(* behind a buffer's worth of bytes without a newline. A hangup costs no   *)
(* line that was written before it (main, process_stdin_lines).            *)
(***************************************************************************)
Dispatched(e) == \E i \in 1..Len(ran) : ran[i].to = e
Blank(e)      == e = 1 \/ e - 1 \in nl

LineReached ==
  \A e \in 1..Size :
    (e \in nl /\ e <= written) ~>
      \/ Dispatched(e) \/ Blank(e) \/ ~running
      \/ BehindOverlong(e) \/ BehindOverlong(e - 1)

(***************************************************************************)
(* The overlong-line branch drains its line "so that a partial tail is     *)
(* never dispatched as a standalone command" (main.c:976-978).             *)
(***************************************************************************)
NoPartialTail == \A i \in 1..Len(ran) : Whole(ran[i])
=============================================================================
