------------------------- MODULE StdinReader_proofs -------------------------
(***************************************************************************)
(* Proofs about the stdin reader of the C node, for every stream, every    *)
(* way to cut it into writes, and every size of the two buffers.           *)
(***************************************************************************)
EXTENDS StdinReader, TLAPS

LEMMA ReadBounds ==
  ASSUME TypeOK, NEW n \in Nat
  PROVE  /\ AtMost(n) \in Nat /\ AtMost(n) <= n /\ AtMost(n) <= Avail
         /\ read + AtMost(n) \in read..written
  BY SizeAssumption DEF TypeOK, AtMost, Avail

LEMMA SegmentType ==
  ASSUME TypeOK, NEW e \in nl, First(e)
  PROVE  /\ Segment(e) \in [from : 1..Size, to : 1..Size]
         /\ e \in Nat /\ e \in base + 1 .. read
  BY SizeAssumption DEF TypeOK, First, Segment

LEMMA AppendFacts ==
  ASSUME NEW S, NEW s \in Seq(S), NEW e \in S
  PROVE  /\ Append(s, e) \in Seq(S)
         /\ Len(Append(s, e)) = Len(s) + 1 /\ Len(s) \in Nat
         /\ \A k \in 1..Len(s) : Append(s, e)[k] = s[k]
         /\ Append(s, e)[Len(s) + 1] = e
  OBVIOUS

LEMMA RanType ==
  ASSUME TypeOK, NEW i \in 1..Len(ran)
  PROVE  ran[i].from \in Nat /\ ran[i].to \in Nat
<1> DEFINE S == [from : 1..Size, to : 1..Size]
<1>1. ran \in Seq(S)
  BY DEF TypeOK
<1>2. ran[i] \in S
  <2> HIDE DEF S
  <2> QED BY <1>1
<1> QED
  BY <1>2, SizeAssumption

LEMMA InitType == Init => TypeOK
<1> SUFFICES ASSUME Init PROVE TypeOK
  OBVIOUS
<1>1. nl \in SUBSET (1..Size) /\ stop \in SUBSET nl
  BY StreamsAssumption DEF Init
<1>2. /\ written = 0 /\ read = 0 /\ base = 0 /\ ran = << >>
      /\ eof = FALSE /\ running = TRUE /\ pc = "select"
  BY DEF Init
<1>3. /\ written \in 0..Size /\ read \in 0..written /\ base \in 0..read
      /\ read - base <= BufCap
  BY <1>2, SizeAssumption, CapAssumption
<1>4. ran \in Seq([from : 1..Size, to : 1..Size])
  BY <1>2
<1> QED
  BY <1>1, <1>2, <1>3, <1>4 DEF TypeOK

LEMMA NextType == TypeOK /\ [Next]_vars => TypeOK'
<1> SUFFICES ASSUME TypeOK, [Next]_vars PROVE TypeOK'
  OBVIOUS
<1> USE SizeAssumption, CapAssumption
<1>1. CASE Write
  BY <1>1 DEF Write, TypeOK
<1>2. CASE Hangup
  BY <1>2 DEF Hangup, TypeOK
<1>3. CASE ReadInput
  <2>1. Room \in Nat
    BY <1>3 DEF ReadInput, Room, TypeOK
  <2>2. /\ AtMost(Room) <= Room /\ AtMost(Room) \in Nat
        /\ read + AtMost(Room) \in read..written
    BY <2>1, ReadBounds
  <2> QED
    BY <1>3, <2>2 DEF ReadInput, Room, TypeOK, streamVars
<1>4. CASE EndOfInput \/ DrainEnds \/ RoundEnds
  BY <1>4 DEF EndOfInput, DrainEnds, RoundEnds, TypeOK, streamVars
<1>5. CASE Discard
  BY <1>5 DEF Discard, TypeOK, streamVars
<1>6. CASE Drain
  <2>1. read + AtMost(DrainCap) \in read..written
    BY ReadBounds
  <2> QED
    BY <1>6, <2>1 DEF Drain, TypeOK, streamVars
<1>7. CASE Dispatch
  <2>1. PICK e \in nl : /\ First(e) /\ base' = e
                        /\ ran' = ran \/ ran' = Append(ran, Segment(e))
                        /\ running' \in BOOLEAN
    BY <1>7 DEF Dispatch, TypeOK
  <2>2. /\ UNCHANGED <<nl, stop, written, eof, read, pc>>
        /\ e \in base + 1 .. read /\ e \in Nat
    BY <1>7, <2>1, SegmentType DEF Dispatch, streamVars
  <2>3. base' \in 0..read' /\ read' - base' <= BufCap
    BY <2>1, <2>2 DEF TypeOK
  <2>4. ran' \in Seq([from : 1..Size, to : 1..Size])
    <3>1. CASE ran' = Append(ran, Segment(e))
      BY <2>1, <3>1, SegmentType, AppendFacts DEF TypeOK
    <3> QED
      BY <2>1, <3>1 DEF TypeOK
  <2> QED
    BY <2>1, <2>2, <2>3, <2>4 DEF TypeOK
<1>8. CASE UNCHANGED vars
  BY <1>8 DEF vars, streamVars, TypeOK
<1> QED
  BY <1>1, <1>2, <1>3, <1>4, <1>5, <1>6, <1>7, <1>8 DEF Next, NodeStep, Exited

\* The variables keep their types; in particular the buffer never holds
\* more than it can.
THEOREM TypeCorrect == Spec => []TypeOK
  BY InitType, NextType, PTL DEF Spec

-----------------------------------------------------------------------------
(***************************************************************************)
(* At the top of the loop the buffer holds no newline, and a node that is  *)
(* still reading has not been told to stop.                                *)
(***************************************************************************)
EmptyInv ==
  /\ pc = "select" => ~HasLine
  /\ pc = "drain" => base = read
  /\ pc \in {"select", "drain"} => running

LEMMA InitEmpty == Init => EmptyInv
<1>1. ASSUME Init PROVE ~HasLine
  BY <1>1, InitType DEF Init, TypeOK, HasLine, Breaks
<1> QED
  BY <1>1 DEF Init, EmptyInv

LEMMA EmptyStep == TypeOK /\ EmptyInv /\ [Next]_vars => EmptyInv'
<1> SUFFICES ASSUME TypeOK, EmptyInv, [Next]_vars PROVE EmptyInv'
  OBVIOUS
<1>1. CASE UNCHANGED <<nl, base, read, pc, running>>
  BY <1>1 DEF EmptyInv, HasLine, Breaks
<1>2. CASE ReadInput \/ EndOfInput \/ DrainEnds \/ Dispatch
  BY <1>2 DEF ReadInput, EndOfInput, DrainEnds, Dispatch, EmptyInv
<1>3. CASE Discard \/ Drain
  BY <1>3 DEF Discard, Drain, EmptyInv, streamVars
<1>4. CASE RoundEnds
  BY <1>4 DEF RoundEnds, EmptyInv, HasLine, Breaks, streamVars
<1> QED
  BY <1>1, <1>2, <1>3, <1>4 DEF Next, NodeStep, Write, Hangup, Exited, vars, streamVars

\* The node never goes to wait for input with a complete line at hand.
THEOREM NeverStranded == Spec => []NothingStranded
<1>1. EmptyInv => NothingStranded
  BY DEF EmptyInv, NothingStranded
<1> QED
  BY <1>1, InitEmpty, EmptyStep, TypeCorrect, PTL DEF Spec

-----------------------------------------------------------------------------
(***************************************************************************)
(* A stream whose lines all fit is dispatched line by line.                *)
(***************************************************************************)
Boundary(p) == p = 0 \/ p \in nl

LineInv ==
  Fits =>
    /\ pc # "drain"
    /\ Boundary(base)
    /\ {ran[i] : i \in 1..Len(ran)} = LinesUpTo(base)
    /\ \A i \in 1..Len(ran) : ran[i].to <= base
    /\ \A i, j \in 1..Len(ran) : i < j => ran[i].to < ran[j].from

\* A full buffer that begins a line holds a newline, so it is not discarded.
LEMMA NoDiscard ==
  ASSUME TypeOK, EmptyInv, Fits, Boundary(base), Discard
  PROVE  FALSE
<1>1. pc = "select" /\ read = base + BufCap /\ read <= Size
  BY SizeAssumption, CapAssumption DEF Discard, Room, TypeOK
<1>2. Breaks(base, base + BufCap)
  <2>1. base \in {0} \cup nl
    BY DEF Boundary
  <2>2. ~(Size - base < BufCap)
    BY <1>1, SizeAssumption, CapAssumption DEF TypeOK
  <2> QED
    BY <2>1, <2>2 DEF Fits
<1> QED
  BY <1>1, <1>2 DEF EmptyInv, HasLine

\* What the first newline of the buffer adds to the lines of the stream.
LEMMA NextLine ==
  ASSUME TypeOK, Boundary(base), NEW e \in nl, First(e)
  PROVE  /\ Whole(Segment(e))
         /\ e = base + 1 => LinesUpTo(e) = LinesUpTo(base)
         /\ e # base + 1 => LinesUpTo(e) = LinesUpTo(base) \cup {Segment(e)}
<1>1. /\ base \in Nat /\ e \in Nat /\ base < e /\ nl \subseteq Nat \ {0}
      /\ \A d \in nl : ~(base < d /\ d <= e - 1)
  BY SizeAssumption DEF TypeOK, First, Breaks
<1>2. Segment(e) \in [from : 1..Size, to : 1..Size]
  BY SegmentType
<1>3. Whole(Segment(e))
  BY <1>1 DEF Whole, Segment, Starts, Boundary, Breaks
<1>4. LinesUpTo(base) \subseteq LinesUpTo(e)
  BY <1>1 DEF LinesUpTo
<1>5. ASSUME NEW seg \in LinesUpTo(e), seg \notin LinesUpTo(base)
      PROVE  seg = Segment(e) /\ e # base + 1
  <2>1. /\ seg \in [from : 1..Size, to : 1..Size] /\ Whole(seg)
        /\ seg.from < seg.to /\ seg.to <= e
    BY <1>5 DEF LinesUpTo
  <2>2. ~(seg.to <= base)
    BY <1>5, <2>1 DEF LinesUpTo
  <2>3. seg.from \in Nat /\ seg.to \in Nat /\ seg.from >= 1
    BY <2>1, SizeAssumption
  <2>4. seg.to = e
    BY <1>1, <2>1, <2>2, <2>3 DEF Whole
  <2>5. ~(seg.from - 1 < base)
    BY <1>1, <2>1, <2>3, <2>4 DEF Whole, Breaks, Boundary
  <2>6. ~(base < seg.from - 1)
    BY <1>1, <2>1, <2>3, <2>4 DEF Whole, Starts
  <2>7. seg.from = base + 1
    BY <1>1, <2>3, <2>5, <2>6
  <2> QED
    BY <1>1, <2>1, <2>4, <2>7 DEF Segment
<1>6. ASSUME e # base + 1 PROVE Segment(e) \in LinesUpTo(e)
  BY <1>1, <1>2, <1>3, <1>6 DEF LinesUpTo, Segment
<1> QED
  BY <1>3, <1>4, <1>5, <1>6

LEMMA LineStep == TypeOK /\ EmptyInv /\ LineInv /\ [Next]_vars => LineInv'
<1> SUFFICES ASSUME TypeOK, EmptyInv, LineInv, [Next]_vars, Fits' PROVE LineInv'
  BY DEF LineInv
<1>1. nl' = nl
  BY DEF Next, NodeStep, Write, Hangup, ReadInput, EndOfInput, Discard, Drain, DrainEnds,
         Dispatch, RoundEnds, Exited, vars, streamVars
<1>2. Fits
  BY <1>1 DEF Fits, Breaks
<1>3. /\ pc # "drain" /\ Boundary(base)
      /\ {ran[i] : i \in 1..Len(ran)} = LinesUpTo(base)
      /\ \A i \in 1..Len(ran) : ran[i].to <= base
      /\ \A i, j \in 1..Len(ran) : i < j => ran[i].to < ran[j].from
  BY <1>2 DEF LineInv
<1>4. \A n : LinesUpTo(n)' = LinesUpTo(n')
  BY <1>1 DEF LinesUpTo, Whole, Starts, Breaks
<1>5. ASSUME UNCHANGED <<base, ran>>, pc' # "drain" PROVE LineInv'
  <2>1. LinesUpTo(base)' = LinesUpTo(base)
    BY <1>1, <1>5 DEF LinesUpTo, Whole, Starts, Breaks
  <2> QED
    BY <1>1, <1>3, <1>5, <2>1 DEF LineInv, Boundary
<1>6. CASE Dispatch
  <2>1. PICK e \in nl : /\ First(e) /\ base' = e
                        /\ IF e = base + 1 THEN ran' = ran
                           ELSE ran' = Append(ran, Segment(e))
    BY <1>6 DEF Dispatch
  <2>2. pc' # "drain" /\ Boundary(base)'
    BY <1>1, <1>3, <1>6, <2>1 DEF Dispatch, Boundary
  <2>3. LinesUpTo(base)' = LinesUpTo(e)
    BY <1>1, <2>1 DEF LinesUpTo, Whole, Starts, Breaks
  <2>4. base \in Nat /\ e \in Nat /\ base < e /\ ran \in Seq([from : 1..Size, to : 1..Size])
    BY <2>1, SizeAssumption DEF TypeOK, First
  <2>5. CASE e = base + 1
    <3>1. ran' = ran /\ LinesUpTo(e) = LinesUpTo(base)
      BY <1>3, <2>1, <2>5, NextLine
    <3>2. \A i \in 1..Len(ran) : ran[i].to <= e
      BY <1>3, <2>4, <2>5, RanType
    <3> QED
      BY <1>3, <2>1, <2>2, <2>3, <3>1, <3>2 DEF LineInv
  <2>6. CASE e # base + 1
    <3>1. ran' = Append(ran, Segment(e)) /\ LinesUpTo(e) = LinesUpTo(base) \cup {Segment(e)}
      BY <1>3, <2>1, <2>6, NextLine
    <3>2. /\ Len(ran') = Len(ran) + 1 /\ Len(ran) \in Nat
          /\ ran'[Len(ran) + 1] = Segment(e)
          /\ \A i \in 1..Len(ran) : ran'[i] = ran[i]
      BY <2>4, <3>1
    <3>3. {ran'[i] : i \in 1..Len(ran')} = LinesUpTo(e)
      BY <1>3, <3>1, <3>2
    <3>4. \A i \in 1..Len(ran) : ran[i].to \in Nat /\ ran[i].to <= base
      BY <1>3, RanType
    <3>5. ASSUME NEW i \in 1..Len(ran') PROVE ran'[i].to <= e
      <4>1. i \in 1..Len(ran) \/ i = Len(ran) + 1
        BY <3>2
      <4> QED
        BY <2>4, <3>2, <3>4, <4>1 DEF Segment
    <3>6. ASSUME NEW i \in 1..Len(ran'), NEW j \in 1..Len(ran'), i < j
          PROVE  ran'[i].to < ran'[j].from
      <4>1. i \in 1..Len(ran) /\ (j \in 1..Len(ran) \/ j = Len(ran) + 1)
        BY <3>2, <3>6
      <4>2. CASE j = Len(ran) + 1
        BY <2>4, <3>2, <3>4, <4>1, <4>2 DEF Segment
      <4>3. CASE j \in 1..Len(ran)
        BY <1>3, <3>2, <3>6, <4>1, <4>3
      <4> QED
        BY <4>1, <4>2, <4>3
    <3> QED
      BY <2>1, <2>2, <2>3, <3>3, <3>5, <3>6 DEF LineInv
  <2> QED
    BY <2>5, <2>6
<1>7. CASE Discard
  BY <1>2, <1>3, <1>7, NoDiscard
<1>8. CASE Drain \/ DrainEnds
  BY <1>3, <1>8 DEF Drain, DrainEnds
<1> QED
  BY <1>3, <1>5, <1>6, <1>7, <1>8
     DEF Next, NodeStep, Write, Hangup, ReadInput, EndOfInput, RoundEnds, Exited, vars

\* When every line fits the buffer, what is dispatched are the non-blank
\* lines of the stream up to the reader's position, whole, once, in order.
THEOREM LinesAreIntact == Spec => []LinesIntact
<1>1. Init => EmptyInv /\ LineInv
  <2>1. ASSUME Init PROVE EmptyInv /\ LineInv
    <3> USE InitEmpty
    <3>1. /\ base = 0 /\ read = 0 /\ ran = << >> /\ pc = "select" /\ nl \subseteq 1..Size
      BY <2>1, InitType DEF Init, TypeOK
    <3>2. LinesUpTo(0) = {}
      BY SizeAssumption DEF LinesUpTo
    <3>3. 1..Len(ran) = {}
      BY <3>1
    <3> QED
      BY <2>1, <3>1, <3>2, <3>3, SizeAssumption DEF LineInv, Boundary
  <2> QED BY <2>1
<1>2. LineInv => LinesIntact
  BY DEF LineInv, LinesIntact
<1> QED
  BY <1>1, <1>2, EmptyStep, LineStep, TypeCorrect, PTL DEF Spec

-----------------------------------------------------------------------------
(***************************************************************************)
(* A shutdown command is the last one dispatched.                          *)
(***************************************************************************)
LEMMA StopStep == TypeOK /\ NothingAfterShutdown /\ [Next]_vars => NothingAfterShutdown'
<1> SUFFICES ASSUME TypeOK, NothingAfterShutdown, [Next]_vars PROVE NothingAfterShutdown'
  OBVIOUS
<1>1. nl' = nl /\ stop' = stop
  BY DEF Next, NodeStep, Write, Hangup, ReadInput, EndOfInput, Discard, Drain, DrainEnds,
         Dispatch, RoundEnds, Exited, vars, streamVars
<1>2. \A seg : Whole(seg)' <=> Whole(seg')
  BY <1>1 DEF Whole, Starts, Breaks
<1>3. ASSUME ran' = ran, running' = running \/ ~running' PROVE NothingAfterShutdown'
  BY <1>1, <1>3 DEF NothingAfterShutdown, Whole, Starts, Breaks
<1>4. ASSUME NEW e \in nl, First(e), running, ran' = Append(ran, Segment(e)),
             running' = (e \notin stop) \/ ~Whole(Segment(e))
      PROVE  NothingAfterShutdown'
  <2>1. /\ Len(ran') = Len(ran) + 1 /\ Len(ran) \in Nat
        /\ ran'[Len(ran) + 1] = Segment(e)
        /\ \A i \in 1..Len(ran) : ran'[i] = ran[i]
    BY <1>4, SegmentType DEF TypeOK
  <2>2. \A i \in 1..Len(ran) : ~(Whole(ran[i]) /\ ran[i].to \in stop)
    BY <1>4 DEF NothingAfterShutdown
  <2>3. ASSUME NEW i \in 1..Len(ran'), Whole(ran'[i]), ran'[i].to \in stop
        PROVE  i = Len(ran') /\ ~running'
    <3>1. i = Len(ran) + 1
      BY <2>1, <2>2, <2>3
    <3>2. Whole(Segment(e)) /\ e \in stop
      BY <2>1, <2>3, <3>1 DEF Segment
    <3> QED
      BY <1>4, <2>1, <3>1, <3>2
  <2> QED
    BY <1>1, <2>3 DEF NothingAfterShutdown, Whole, Starts, Breaks
<1>5. CASE Dispatch
  BY <1>3, <1>4, <1>5 DEF Dispatch
<1> QED
  BY <1>3, <1>5
     DEF Next, NodeStep, Write, Hangup, ReadInput, EndOfInput, Discard, Drain, DrainEnds,
         RoundEnds, Exited, vars

\* No command that follows a shutdown is run, though it may be in the buffer.
THEOREM ShutdownIsLast == Spec => []NothingAfterShutdown
<1>1. Init => NothingAfterShutdown
  BY DEF Init, NothingAfterShutdown
<1> QED
  BY <1>1, StopStep, TypeCorrect, PTL DEF Spec

-----------------------------------------------------------------------------
(***************************************************************************)
(* What the whole loop promises: LineStream.                               *)
(***************************************************************************)
LEMMA InitLines == Init => Lines!Init
  BY DEF Init, Lines!Init

LEMMA TakesLine == TypeOK /\ Dispatch => Lines!TakeLine
<1> SUFFICES ASSUME TypeOK, Dispatch PROVE Lines!TakeLine
  OBVIOUS
<1>1. PICK e \in nl :
        /\ First(e) /\ base' = e
        /\ IF e = base + 1
             THEN UNCHANGED <<ran, running>>
             ELSE /\ ran' = Append(ran, Segment(e))
                  /\ \/ running' = (e \notin stop)
                     \/ ~Whole(Segment(e)) /\ running' \in BOOLEAN
  BY DEF Dispatch
<1>2. pc = "process" /\ running /\ UNCHANGED <<streamVars, read, pc>>
  BY DEF Dispatch
<1>3. running' \in BOOLEAN
  BY <1>1, <1>2
<1>4. base < e /\ e <= written /\ ~Lines!Breaks(base, e - 1) /\ e - base <= BufCap
  BY <1>1, SizeAssumption, CapAssumption DEF First, Breaks, Lines!Breaks, TypeOK
<1>5. Lines!Whole([from |-> base + 1, to |-> e]) => Whole(Segment(e))
  BY SizeAssumption DEF Whole, Segment, Starts, Breaks, Lines!Whole, Lines!Breaks, TypeOK
<1>6. UNCHANGED Lines!streamVars
  BY <1>2 DEF streamVars, Lines!streamVars
<1>7. pc = "process" /\ pc' = "process"
  BY <1>2
<1>8. CASE e = base + 1
  <2>1. ran' = ran /\ running' = running
    BY <1>1, <1>8
  <2> QED
    BY <1>1, <1>2, <1>4, <1>6, <1>7, <1>8, <2>1 DEF Lines!TakeLine
<1>9. CASE e # base + 1
  <2>1. ran' = Append(ran, [from |-> base + 1, to |-> e])
    BY <1>1, <1>9 DEF Segment
  <2>2. \/ (~running' \/ pc' = "exit") = (e \in stop)
        \/ /\ ~Lines!Whole([from |-> base + 1, to |-> e])
           /\ (~running' \/ pc' = "exit") \in BOOLEAN
    BY <1>1, <1>3, <1>5, <1>7, <1>9
  <2> QED
    BY <1>1, <1>2, <1>4, <1>6, <1>7, <1>9, <2>1, <2>2 DEF Lines!TakeLine
<1> QED
  BY <1>8, <1>9

LEMMA LinesStep == TypeOK /\ EmptyInv /\ [Next]_vars => [Lines!Next]_(Lines!vars)
<1> SUFFICES ASSUME TypeOK, EmptyInv, [Next]_vars PROVE [Lines!Next]_(Lines!vars)
  OBVIOUS
<1> USE SizeAssumption, CapAssumption DEF Lines!vars, Lines!streamVars, streamVars
<1>1. CASE Write \/ Hangup
  BY <1>1 DEF Write, Hangup, Lines!Next, Lines!Grows
<1>2. CASE ReadInput
  BY <1>2 DEF ReadInput
<1>3. CASE EndOfInput
  <2>1. eof /\ ~Lines!Breaks(base, written)
    BY <1>3 DEF EndOfInput, EmptyInv, HasLine, Breaks, Lines!Breaks, Avail, TypeOK
  <2> QED
    BY <1>3, <2>1 DEF EndOfInput, Lines!Next, Lines!Leave
<1>4. CASE Discard
  <2>1. base + BufCap = read /\ read <= written /\ ~Lines!Breaks(base, base + BufCap)
    BY <1>4 DEF Discard, Room, EmptyInv, HasLine, Breaks, Lines!Breaks, TypeOK
  <2>2. running /\ running' = running /\ pc = "select" /\ pc' = "drain" /\ base' = read
    BY <1>4 DEF Discard, EmptyInv
  <2>3. UNCHANGED <<nl, stop, written, eof, ran>>
    BY <1>4 DEF Discard
  <2>4. Lines!LoseLine
    BY <2>1, <2>2, <2>3 DEF Lines!LoseLine
  <2> QED
    BY <2>4 DEF Lines!Next
<1>5. CASE Drain
  <2>0. AtMost(DrainCap) <= DrainCap /\ read + AtMost(DrainCap) \in read..written
    BY ReadBounds
  <2>1. /\ base = read /\ base' = read' /\ read' \in read..written
        /\ read' <= read + DrainCap
    BY <1>5, <2>0 DEF Drain, EmptyInv, TypeOK, AtMost, Avail
  <2>2. read' # read
    BY <1>5 DEF Drain, AtMost, Avail, TypeOK
  <2>3. base' \in base + 1 .. written /\ base' <= base + DrainCap
    BY <2>1, <2>2 DEF TypeOK
  <2>4. /\ pc = "drain" /\ pc' # "exit"
        /\ pc' = "drain" <=> ~Lines!Breaks(base, base')
    BY <1>5, <2>1 DEF Drain, Breaks, Lines!Breaks
  <2>5. running /\ running' = running /\ UNCHANGED <<nl, stop, written, eof, ran>>
    BY <1>5 DEF Drain, EmptyInv
  <2>6. Lines!PassOver
    BY <2>3, <2>4, <2>5 DEF Lines!PassOver
  <2> QED
    BY <2>6 DEF Lines!Next
<1>6. CASE DrainEnds
  <2>1. ~Lines!Breaks(base, written)
    BY <1>6 DEF DrainEnds, EmptyInv, Lines!Breaks, Avail, TypeOK
  <2>2. /\ running /\ running' = FALSE /\ pc = "drain" /\ pc' = "process"
        /\ eof /\ UNCHANGED <<nl, stop, written, eof, base, ran>>
    BY <1>6 DEF DrainEnds, EmptyInv
  <2>3. Lines!Leave
    BY <2>1, <2>2 DEF Lines!Leave
  <2> QED
    BY <2>3 DEF Lines!Next
<1>7. CASE Dispatch
  BY <1>7, TakesLine DEF Lines!Next
<1>8. CASE RoundEnds
  BY <1>8 DEF RoundEnds
<1>9. CASE UNCHANGED vars
  BY <1>9 DEF vars
<1> QED
  BY <1>1, <1>2, <1>3, <1>4, <1>5, <1>6, <1>7, <1>8, <1>9 DEF Next, NodeStep, Exited

\* The loop implements LineStream, for every stream and all sizes.
THEOREM ReaderImplementsLineStream == Spec => ImplementsLineStream
  BY InitEmpty, InitLines, EmptyStep, LinesStep, TypeCorrect, PTL
     DEF Spec, ImplementsLineStream, Lines!Spec

-----------------------------------------------------------------------------
(***************************************************************************)
(* What is cut stands behind an overlong line.                             *)
(***************************************************************************)
TailInv ==
  /\ pc # "drain" /\ running => Boundary(base) \/ BehindOverlong(base)
  /\ pc = "drain" => base >= BufCap /\ ~Breaks(base - BufCap, base)
  /\ TailHasCause

\* A segment that begins at the base is whole, or begins where one may be cut.
LEMMA SegmentCause ==
  ASSUME TypeOK, NEW e \in nl, First(e), Boundary(base) \/ BehindOverlong(base)
  PROVE  Whole(Segment(e)) \/ BehindOverlong(Segment(e).from - 1)
<1>1. base \in Nat /\ Segment(e).from - 1 = base /\ Segment(e).to = e
  BY SizeAssumption DEF TypeOK, Segment
<1>2. CASE Boundary(base)
  BY <1>1, <1>2 DEF Whole, Starts, Boundary, First, Segment
<1>3. CASE BehindOverlong(base)
  BY <1>1, <1>3
<1> QED
  BY <1>2, <1>3

LEMMA TailStep == TypeOK /\ EmptyInv /\ TailInv /\ [Next]_vars => TailInv'
<1> SUFFICES ASSUME TypeOK, EmptyInv, TailInv, [Next]_vars PROVE TailInv'
  OBVIOUS
<1>0. /\ base \in Nat /\ read \in Nat /\ base <= read
      /\ BufCap \in Nat /\ DrainCap \in Nat
  BY SizeAssumption, CapAssumption DEF TypeOK
<1>1. nl' = nl
  BY DEF Next, NodeStep, Write, Hangup, ReadInput, EndOfInput, Discard, Drain, DrainEnds,
         Dispatch, RoundEnds, Exited, vars, streamVars
<1>2. /\ \A seg : Whole(seg)' <=> Whole(seg')
      /\ \A p : BehindOverlong(p)' <=> BehindOverlong(p')
      /\ \A a, b : Breaks(a, b)' <=> Breaks(a', b')
  BY <1>1 DEF Whole, Starts, Breaks, BehindOverlong
<1>3. ASSUME ran' = ran PROVE TailHasCause'
  BY <1>1, <1>3 DEF TailInv, TailHasCause, Whole, Starts, Breaks, BehindOverlong
<1>4. ASSUME UNCHANGED <<base, ran>>, pc # "drain" <=> pc' # "drain", running' => running
      PROVE  TailInv'
  BY <1>1, <1>3, <1>4 DEF TailInv, Boundary, Breaks, BehindOverlong
<1>5. CASE Discard
  <2>1. base' = read /\ pc' = "drain" /\ pc = "select" /\ ran' = ran /\ read = base + BufCap
    BY <1>0, <1>5 DEF Discard, Room
  <2>2. ~Breaks(base, read)
    BY <2>1 DEF EmptyInv, HasLine
  <2>3. base' >= BufCap /\ ~Breaks(base' - BufCap, base')
    BY <1>0, <2>1, <2>2
  <2> QED
    BY <1>1, <1>3, <2>1, <2>3 DEF TailInv, Breaks
<1>6. CASE Drain
  <2>0. AtMost(DrainCap) <= DrainCap /\ AtMost(DrainCap) \in Nat
    BY ReadBounds, <1>0
  <2>1. /\ pc = "drain" /\ base = read /\ base' = base + AtMost(DrainCap) /\ ran' = ran
        /\ pc' = IF Breaks(base, base') THEN "process" ELSE "drain"
    BY <1>6 DEF Drain, EmptyInv
  <2>2. base >= BufCap /\ ~Breaks(base - BufCap, base)
    BY <2>1 DEF TailInv
  <2>3. CASE Breaks(base, base')
    <3>1. base' > base
      BY <1>0, <2>0, <2>1, <2>3 DEF Breaks, TypeOK
    <3>2. base \in BufCap .. base' - 1 /\ base' <= base + DrainCap
      BY <1>0, <2>0, <2>1, <2>2, <3>1
    <3>3. BehindOverlong(base')
      BY <2>2, <3>2 DEF BehindOverlong
    <3> QED
      BY <1>1, <1>3, <2>1, <2>3, <3>3 DEF TailInv, BehindOverlong, Breaks
  <2>4. CASE ~Breaks(base, base')
    <3>1. base' >= BufCap /\ ~Breaks(base' - BufCap, base')
      <4>1. \A d \in nl : d \in Nat
        BY SizeAssumption DEF TypeOK
      <4> QED
        BY <1>0, <2>0, <2>1, <2>2, <2>4, <4>1 DEF Breaks
    <3> QED
      BY <1>1, <1>3, <2>1, <2>4, <3>1 DEF TailInv, Breaks
  <2> QED
    BY <2>3, <2>4
<1>7. CASE DrainEnds
  <2>1. ran' = ran /\ pc' = "process" /\ ~running'
    BY <1>7 DEF DrainEnds
  <2> QED
    BY <1>3, <2>1 DEF TailInv
<1>8. CASE Dispatch
  <2>1. PICK e \in nl : /\ First(e) /\ base' = e /\ pc' = pc /\ pc = "process" /\ running
                        /\ ran' = ran \/ ran' = Append(ran, Segment(e))
    BY <1>8 DEF Dispatch
  <2>2. Whole(Segment(e)) \/ BehindOverlong(Segment(e).from - 1)
    BY <2>1, SegmentCause DEF TailInv
  <2>3. ASSUME ran' = Append(ran, Segment(e)) PROVE TailHasCause'
    <3>1. /\ Len(ran) \in Nat /\ Len(ran') = Len(ran) + 1
          /\ ran'[Len(ran) + 1] = Segment(e)
          /\ \A i \in 1..Len(ran) : ran'[i] = ran[i]
      BY <2>1, <2>3, SegmentType DEF TypeOK
    <3>2. \A i \in 1..Len(ran') : Whole(ran'[i]) \/ BehindOverlong(ran'[i].from - 1)
      BY <2>2, <3>1 DEF TailInv, TailHasCause
    <3> QED
      BY <1>1, <3>2 DEF TailHasCause, Whole, Starts, Breaks, BehindOverlong
  <2>4. TailHasCause'
    BY <1>3, <2>1, <2>3
  <2> QED
    BY <1>1, <2>1, <2>4 DEF TailInv, Boundary
<1> QED
  BY <1>4, <1>5, <1>6, <1>7, <1>8
     DEF Next, NodeStep, Write, Hangup, ReadInput, EndOfInput, RoundEnds, Exited, vars, streamVars

\* A command is cut only behind an overlong line, for every stream, buffer
\* and block.
THEOREM TailsHaveCause == Spec => []TailHasCause
<1>1. Init => TailInv
  BY DEF Init, TailInv, TailHasCause, Boundary
<1>2. TailInv => TailHasCause
  BY DEF TailInv
<1> QED
  BY <1>1, <1>2, InitEmpty, EmptyStep, TailStep, TypeCorrect, PTL DEF Spec

(***************************************************************************)
(* What the comment on the drain loop says holds of the streams whose      *)
(* lines all fit; the run stdin_overlong refutes it for the others.        *)
(***************************************************************************)
THEOREM FittingLinesAreWhole == Spec => [](Fits => NoPartialTail)
<1>1. TypeOK /\ LinesIntact => (Fits => NoPartialTail)
  BY DEF LinesIntact, LinesUpTo, NoPartialTail
<1> QED
  BY <1>1, LinesAreIntact, TypeCorrect, PTL

-----------------------------------------------------------------------------
(***************************************************************************)
(* The variant of the loop.                                                *)
(***************************************************************************)
LEMMA FewerBytes ==
  ASSUME NEW a \in Nat, NEW r \in Int, NEW b \in Int, NEW c \in Int, b < c
  PROVE  6 * a + 4 * (r - c) + 2 < 6 * a + 4 * (r - b) + 2
  OBVIOUS

LEMMA WorkLess == TypeOK /\ EmptyInv /\ NodeStep => Work' < Work
<1> SUFFICES ASSUME TypeOK, EmptyInv, NodeStep PROVE Work' < Work
  OBVIOUS
<1> USE SizeAssumption, CapAssumption DEF Work, Place, Avail, streamVars
<1>0. /\ written \in Nat /\ read \in Nat /\ base \in Nat
      /\ base <= read /\ read <= written
  BY DEF TypeOK
<1>1. CASE ReadInput
  <2>1. Room \in Nat
    BY <1>1, <1>0 DEF ReadInput, Room
  <2>2. AtMost(Room) \in Nat \ {0}
    BY <1>0, <1>1, <2>1 DEF ReadInput, AtMost
  <2> QED
    BY <1>0, <1>1, <2>2 DEF ReadInput
<1>2. CASE EndOfInput \/ DrainEnds \/ RoundEnds
  BY <1>0, <1>2 DEF EndOfInput, DrainEnds, RoundEnds
<1>3. CASE Discard
  BY <1>0, <1>3 DEF Discard, Room
<1>4. CASE Drain
  <2>1. AtMost(DrainCap) \in Nat \ {0}
    BY <1>0, <1>4 DEF Drain, AtMost
  <2> QED
    BY <1>0, <1>4, <2>1 DEF Drain, EmptyInv
<1>5. CASE Dispatch
  <2>1. base' \in base + 1 .. read /\ UNCHANGED <<read, written, pc>>
    BY <1>5, SegmentType DEF Dispatch
  <2>2. base' \in Nat /\ base' > base
    BY <1>0, <2>1
  <2>3. Place = 2 /\ Place' = 2
    BY <1>5, <2>1 DEF Dispatch
  <2>4. Avail' = Avail /\ Avail \in Nat
    BY <1>0, <2>1
  <2>5. read' = read /\ base \in Int /\ base' \in Int /\ read \in Int
    BY <1>0, <2>1, <2>2
  <2> HIDE DEF Place, Avail
  <2> QED
    BY <2>2, <2>3, <2>4, <2>5, FewerBytes DEF Work
<1> QED
  BY <1>1, <1>2, <1>3, <1>4, <1>5 DEF NodeStep

\* Every step of the node leaves less to do, down to nothing: it comes to
\* rest between any two writes.
THEOREM ReaderNeverSpins == Spec => NeverSpins
<1>1. TypeOK /\ EmptyInv /\ TypeOK' => [NodeStep => Work' < Work /\ Work' >= 0]_vars
  <2> SUFFICES ASSUME TypeOK, EmptyInv, TypeOK', NodeStep PROVE Work' < Work /\ Work' >= 0
    OBVIOUS
  <2>0. /\ Avail' \in Nat /\ (read - base)' \in Nat
        /\ Place' \in 0..3
    BY SizeAssumption DEF TypeOK, Place, Avail
  <2>1. Work' >= 0
    BY <2>0 DEF Work
  <2> QED
    BY <2>1, WorkLess
<1> QED
  BY <1>1, InitEmpty, EmptyStep, TypeCorrect, PTL DEF Spec, NeverSpins
=============================================================================
