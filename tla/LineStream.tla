----------------------------- MODULE LineStream -----------------------------
(***************************************************************************)
(* What the command loop of the C test node promises about its input,      *)
(* without a buffer, reads or rounds: the lines are taken from the stream  *)
(* one after the other and handed over as they are; something is passed    *)
(* over only when the buffer's worth of bytes came without a newline, and  *)
(* then no further than one block beyond the next newline; and the node    *)
(* leaves when it is told to, or when the other side hung up and there is  *)
(* no line left.                                                           *)
(***************************************************************************)
EXTENDS Integers, Sequences

CONSTANTS Size, Streams, BufCap, DrainCap    \* as in StdinReader

VARIABLES
  nl, stop, written, eof,   \* the stream, as in StdinReader
  taken,                    \* how far it was handed over or passed over
  lost,                     \* the end of an overlong line is looked for
  gone,                     \* the node takes nothing any more
  ran                       \* the segments handed over, in order

streamVars == <<nl, stop, written, eof>>
vars == <<streamVars, taken, lost, gone, ran>>

Breaks(from, to) == \E e \in nl : from < e /\ e <= to
Whole(seg) == /\ seg.from = 1 \/ seg.from - 1 \in nl
              /\ seg.to \in nl /\ ~Breaks(seg.from - 1, seg.to - 1)

Init ==
  /\ nl \in Streams /\ stop \in SUBSET nl
  /\ written = 0 /\ eof = FALSE
  /\ taken = 0 /\ lost = FALSE /\ gone = FALSE
  /\ ran = << >>

Grows ==
  /\ ~eof
  /\ \/ written' \in written + 1 .. Size /\ UNCHANGED eof
     \/ eof' = TRUE /\ UNCHANGED written
  /\ UNCHANGED <<nl, stop, taken, lost, gone, ran>>

\* The next line, which fits: blank, or handed over.
TakeLine ==
  /\ ~gone /\ ~lost
  /\ \E e \in nl :
       /\ taken < e /\ e <= written /\ ~Breaks(taken, e - 1)
       /\ e - taken <= BufCap
       /\ taken' = e
       /\ LET seg == [from |-> taken + 1, to |-> e]
          IN  IF e = taken + 1
                THEN UNCHANGED <<ran, gone>>
                ELSE /\ ran' = Append(ran, seg)
                     /\ \/ gone' = (e \in stop)
                        \/ ~Whole(seg) /\ gone' \in BOOLEAN
  /\ UNCHANGED <<streamVars, lost>>

\* The next line does not fit.
LoseLine ==
  /\ ~gone /\ ~lost
  /\ taken + BufCap <= written /\ ~Breaks(taken, taken + BufCap)
  /\ taken' = taken + BufCap /\ lost' = TRUE
  /\ UNCHANGED <<streamVars, gone, ran>>

PassOver ==
  /\ ~gone /\ lost
  /\ taken' \in taken + 1 .. written
  /\ taken' <= taken + DrainCap
  /\ lost' = ~Breaks(taken, taken')
  /\ UNCHANGED <<streamVars, gone, ran>>

Leave ==
  /\ ~gone
  /\ eof /\ ~Breaks(taken, written)
  /\ gone' = TRUE /\ lost' = FALSE
  /\ UNCHANGED <<streamVars, taken, ran>>

Next == Grows \/ TakeLine \/ LoseLine \/ PassOver \/ Leave

Spec == Init /\ [][Next]_vars
=============================================================================
