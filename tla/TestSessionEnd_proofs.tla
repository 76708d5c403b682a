------------------------ MODULE TestSessionEnd_proofs -------------------------
(***************************************************************************)
(* A run comes to its end: the proof that Left is a variant of             *)
(* TestSession. Every step of a side lowers SideLeft of that side and      *)
(* leaves the other side's alone; a step of the main thread lowers         *)
(* MainLeft by at least one, which outweighs what it hands to the sides.   *)
(***************************************************************************)
EXTENDS TestSession_proofs

\* SideLeft with its parts as arguments, for the arithmetic.
Sum(worker_, reader_, proc_, len, fwd_, rcv_, held, strays_, sent_, got_) ==
  worker_ + reader_ + proc_ + (3 * (len - fwd_ - held) + 2 * held + fwd_ - rcv_)
    + 4 * (MaxStray - strays_) + 5 * (sent_ - got_)

LEMMA SideIsSum ==
  ASSUME NEW n \in Node
  PROVE  /\ SideLeft(n) = Sum(WorkerLeft(n), ReaderLeft(n), ProcLeft(n), Len(stdout[n]),
                              fwd[n], rcv[n], Held(n), strays[n], Len(sent[n]), got[n])
         /\ SideLeft(n)' = Sum(WorkerLeft(n)', ReaderLeft(n)', ProcLeft(n)', Len(stdout'[n]),
                               fwd'[n], rcv'[n], Held(n)', strays'[n], Len(sent'[n]), got'[n])
  BY DEF SideLeft, LinesLeft, InPipe, Sum

\* The parts are numbers, and the positions in a pipe are in order.
SideOK(n) ==
  /\ WorkerLeft(n) \in Nat /\ ReaderLeft(n) \in Nat /\ ProcLeft(n) \in Nat
  /\ Held(n) \in Nat
  /\ rcv[n] \in Nat /\ fwd[n] \in Nat /\ Len(stdout[n]) \in Nat
  /\ got[n] \in Nat /\ Len(sent[n]) \in Nat /\ strays[n] \in Nat
  /\ rcv[n] <= fwd[n] /\ fwd[n] + Held(n) <= Len(stdout[n]) /\ got[n] <= Len(sent[n])

LEMMA SideTypes == TypeOK => \A n \in Node : SideOK(n)
<1> SUFFICES ASSUME TypeOK, NEW n \in Node PROVE SideOK(n)
  OBVIOUS
<1>1. /\ worker[n] \in {"idle", "send", "wait", "done"}
      /\ reader[n] \in {"off", "scan", "hold", "exited"}
      /\ proc[n] \in {"absent", "dead", "hung"} \cup Running
      /\ strays[n] \in Nat /\ fwd[n] + Held(n) <= Len(stdout[n])
  BY DEF TypeOK
<1>2. WorkerLeft(n) \in Nat /\ ReaderLeft(n) \in Nat /\ ProcLeft(n) \in Nat
  BY <1>1 DEF WorkerLeft, ReaderLeft, ProcLeft, Running
<1>3. Held(n) \in Nat
  BY DEF Held
<1> QED
  BY <1>1, <1>2, <1>3, PipeType DEF SideOK

LEMMA SideTypesNext == (TypeOK => \A n \in Node : SideOK(n))'
  BY SideTypes, PTL

LEMMA MainLeftType == TypeOK => MainLeft \in Nat
  BY DEF TypeOK, MainLeft, Step, Node

LEMMA MainTypeNext == (TypeOK => MainLeft \in Nat)'
  BY MainLeftType, PTL

\* What a step changes on side n, part by part.
dWorker(n)  == WorkerLeft(n)' - WorkerLeft(n)
dReader(n)  == ReaderLeft(n)' - ReaderLeft(n)
dProc(n)    == ProcLeft(n)' - ProcLeft(n)
dHeld(n)    == Held(n)' - Held(n)
dWritten(n) == Len(stdout'[n]) - Len(stdout[n])
dSent(n)    == Len(sent'[n]) - Len(sent[n])
dFwd(n)     == fwd'[n] - fwd[n]
dRcv(n)     == rcv'[n] - rcv[n]
dStrays(n)  == strays'[n] - strays[n]
dGot(n)     == got'[n] - got[n]

LEMMA SideChange ==
  ASSUME TypeOK, TypeOK', NEW n \in Node
  PROVE  /\ SideOK(n) /\ SideOK(n)' /\ SideLeft(n) \in Int /\ SideLeft(n)' \in Int
         /\ SideLeft(n)' = SideLeft(n)
              + dWorker(n) + dReader(n) + dProc(n) + 3 * dWritten(n) - 2 * dFwd(n)
              - dRcv(n) - dHeld(n) - 4 * dStrays(n) + 5 * dSent(n) - 5 * dGot(n)
<1>1. SideOK(n)
  BY SideTypes
<1>2. SideOK(n)'
  BY SideTypesNext
<1> DEFINE w == WorkerLeft(n)   w2 == WorkerLeft(n)'   r == ReaderLeft(n)  r2 == ReaderLeft(n)'
           p == ProcLeft(n)     p2 == ProcLeft(n)'     h == Held(n)        h2 == Held(n)'
           l == Len(stdout[n])  l2 == Len(stdout'[n])  e == Len(sent[n])   e2 == Len(sent'[n])
           f == fwd[n]          f2 == fwd'[n]          c == rcv[n]         c2 == rcv'[n]
           s == strays[n]       s2 == strays'[n]       g == got[n]         g2 == got'[n]
<1>3. /\ w \in Nat /\ r \in Nat /\ p \in Nat /\ h \in Nat /\ l \in Nat
      /\ e \in Nat /\ f \in Nat /\ c \in Nat /\ s \in Nat /\ g \in Nat
  BY <1>1 DEF SideOK
<1>4. /\ w2 \in Nat /\ r2 \in Nat /\ p2 \in Nat /\ h2 \in Nat /\ l2 \in Nat
      /\ e2 \in Nat /\ f2 \in Nat /\ c2 \in Nat /\ s2 \in Nat /\ g2 \in Nat
  BY <1>2 DEF SideOK
<1>5. SideLeft(n) = Sum(w, r, p, l, f, c, h, s, e, g)
  BY SideIsSum
<1>6. SideLeft(n)' = Sum(w2, r2, p2, l2, f2, c2, h2, s2, e2, g2)
  BY SideIsSum
<1>7. SideLeft(n) \in Int /\ SideLeft(n)' \in Int /\
      SideLeft(n)' = SideLeft(n)
          + (w2 - w) + (r2 - r) + (p2 - p) + 3 * (l2 - l) - 2 * (f2 - f)
          - (c2 - c) - (h2 - h) - 4 * (s2 - s) + 5 * (e2 - e) - 5 * (g2 - g)
  <2> HIDE DEF w, r, p, l, f, c, h, s, e, g, w2, r2, p2, l2, f2, c2, h2, s2, e2, g2
  <2>1. SideLeft(n) \in Int
    BY <1>3, <1>5, BoundsAssumption DEF Sum
  <2>2. SideLeft(n)' \in Int
    BY <1>4, <1>6, BoundsAssumption DEF Sum
  <2>3. Sum(w2, r2, p2, l2, f2, c2, h2, s2, e2, g2)
          = Sum(w, r, p, l, f, c, h, s, e, g)
          + (w2 - w) + (r2 - r) + (p2 - p) + 3 * (l2 - l) - 2 * (f2 - f)
          - (c2 - c) - (h2 - h) - 4 * (s2 - s) + 5 * (e2 - e) - 5 * (g2 - g)
    BY <1>3, <1>4, BoundsAssumption DEF Sum
  <2> QED
    BY <1>5, <1>6, <2>1, <2>2, <2>3
<1> QED
  BY <1>1, <1>2, <1>7
     DEF dWorker, dReader, dProc, dHeld, dWritten, dSent, dFwd, dRcv, dStrays, dGot

\* A step of one side does not change what is left on the other.
LEMMA SameSide ==
  ASSUME NEW m \in Node,
         UNCHANGED <<worker[m], reader[m], proc[m], stdout[m], fwd[m], rcv[m], strays[m],
                     sent[m], got[m]>>
  PROVE  SideLeft(m)' = SideLeft(m)
  BY DEF SideLeft, WorkerLeft, ReaderLeft, ProcLeft, LinesLeft, InPipe, Held

Lowers(n) == SideLeft(n)' < SideLeft(n) /\ \A m \in Node \ {n} : SideLeft(m)' = SideLeft(m)

LEMMA WorkerLess ==
  ASSUME TypeOK, TypeOK', NEW n \in Node, WorkerStep(n)
  PROVE  Lowers(n)
<1>1. /\ UNCHANGED <<reader, fwd, proc, got, stdout, strays>>
      /\ worker \in [Node -> {"idle", "send", "wait", "done"}]
      /\ rcv \in [Node -> Nat] /\ sent \in [Node -> Seq(Command)]
  BY WorkerFrame DEF TypeOK
<1>2. SideOK(n) /\ SideOK(n)'
  BY SideChange
<1>3. /\ dReader(n) = 0 /\ dProc(n) = 0 /\ dHeld(n) = 0 /\ dWritten(n) = 0
      /\ dFwd(n) = 0 /\ dStrays(n) = 0 /\ dGot(n) = 0
  <2>1. ReaderLeft(n)' = ReaderLeft(n) /\ ProcLeft(n)' = ProcLeft(n) /\ Held(n)' = Held(n)
    BY <1>1 DEF ReaderLeft, ProcLeft, Held
  <2> QED
    BY <1>1, <1>2, <2>1 DEF SideOK, dReader, dProc, dHeld, dWritten, dFwd, dStrays, dGot
<1>4. ASSUME dWorker(n) \in Int, dRcv(n) \in Int, dSent(n) \in Int,
             dWorker(n) - dRcv(n) + 5 * dSent(n) < 0,
             \A m \in Node \ {n} : UNCHANGED <<worker[m], rcv[m], sent[m]>>
      PROVE  Lowers(n)
  <2>1. SideLeft(n)' < SideLeft(n)
    BY <1>3, <1>4, SideChange
  <2> QED
    BY <1>1, <1>4, <2>1, SameSide DEF Lowers
<1>5. CASE SendRunTest(n)
  <2>1. worker[n] = "send" /\ WorkerLeft(n) = 7 /\ UNCHANGED rcv
    BY <1>5 DEF SendRunTest, Working, WorkerLeft
  <2>2. dRcv(n) = 0
    BY <1>2, <2>1 DEF SideOK, dRcv
  <2>3. CASE Write(n, "run_test") /\ worker' = [worker EXCEPT ![n] = "wait"]
    <3>1. Len(sent'[n]) = Len(sent[n]) + 1 /\ \A m \in Node \ {n} : sent'[m] = sent[m]
      BY <1>1, <2>3, GrowFacts DEF Write, Command
    <3>2. dWorker(n) = -6
      BY <1>1, <2>1, <2>3 DEF WorkerLeft, dWorker
    <3>3. dSent(n) = 1
      BY <1>2, <3>1 DEF SideOK, dSent
    <3> QED
      BY <1>1, <1>4, <2>1, <2>2, <2>3, <3>1, <3>2, <3>3
  <2>4. CASE worker' = [worker EXCEPT ![n] = "done"] /\ UNCHANGED sent
    <3>1. dWorker(n) = -7
      BY <1>1, <2>1, <2>4 DEF WorkerLeft, dWorker
    <3>2. dSent(n) = 0
      BY <1>2, <2>4 DEF SideOK, dSent
    <3> QED
      BY <1>1, <1>4, <2>1, <2>2, <2>4, <3>1, <3>2
  <2> QED
    BY <1>5, <2>3, <2>4 DEF SendRunTest, Answered
<1>6. CASE ReceiveLine(n)
  <2>1. /\ rcv' = [rcv EXCEPT ![n] = @ + 1] /\ UNCHANGED sent /\ worker[n] = "wait"
        /\ worker' = worker \/ worker' = [worker EXCEPT ![n] = "done"]
    BY <1>6 DEF ReceiveLine, Answered, Working
  <2>2. dWorker(n) \in {0, -1}
    BY <1>1, <2>1 DEF WorkerLeft, dWorker
  <2>3. dRcv(n) = 1
    BY <1>1, <2>1 DEF dRcv
  <2>4. dSent(n) = 0
    BY <1>2, <2>1 DEF SideOK, dSent
  <2> QED
    BY <1>1, <1>4, <2>1, <2>2, <2>3, <2>4
<1>7. CASE ReceiveClosed(n) \/ Deadline(n)
  <2>1. UNCHANGED <<rcv, sent>> /\ worker[n] = "wait" /\ worker' = [worker EXCEPT ![n] = "done"]
    BY <1>7 DEF ReceiveClosed, Deadline, Answered, Working
  <2>2. dWorker(n) = -1
    BY <1>1, <2>1 DEF WorkerLeft, dWorker
  <2>3. dRcv(n) = 0 /\ dSent(n) = 0
    BY <1>2, <2>1 DEF SideOK, dRcv, dSent
  <2> QED
    BY <1>1, <1>4, <2>1, <2>2, <2>3
<1> QED
  BY <1>5, <1>6, <1>7 DEF WorkerStep

LEMMA ReaderLess ==
  ASSUME TypeOK, TypeOK', NEW n \in Node, ReaderStep(n)
  PROVE  Lowers(n)
<1>1. /\ UNCHANGED <<worker, rcv, proc, got, stdout, strays, sent>>
      /\ reader \in [Node -> {"off", "scan", "hold", "exited"}] /\ fwd \in [Node -> Nat]
  BY ReaderFrame DEF TypeOK
<1>2. SideOK(n) /\ SideOK(n)'
  BY SideChange
<1>3. /\ dWorker(n) = 0 /\ dProc(n) = 0 /\ dWritten(n) = 0 /\ dRcv(n) = 0
      /\ dStrays(n) = 0 /\ dGot(n) = 0 /\ dSent(n) = 0
  <2>1. WorkerLeft(n)' = WorkerLeft(n) /\ ProcLeft(n)' = ProcLeft(n)
    BY <1>1 DEF WorkerLeft, ProcLeft
  <2> QED
    BY <1>1, <1>2, <2>1 DEF SideOK, dWorker, dProc, dWritten, dRcv, dStrays, dGot, dSent
<1>4. ASSUME dReader(n) \in Int, dFwd(n) \in Int, dHeld(n) \in Int,
             dReader(n) - 2 * dFwd(n) - dHeld(n) < 0,
             \A m \in Node \ {n} : UNCHANGED <<reader[m], fwd[m]>>
      PROVE  Lowers(n)
  <2>1. SideLeft(n)' < SideLeft(n)
    BY <1>3, <1>4, SideChange
  <2> QED
    BY <1>1, <1>4, <2>1, SameSide DEF Lowers
<1>5. CASE Scan(n)
  <2>1. reader[n] = "scan" /\ reader' = [reader EXCEPT ![n] = "hold"] /\ fwd' = fwd
    BY <1>5 DEF Scan, Reading
  <2>2. dReader(n) = 0 /\ dHeld(n) = 1
    BY <1>1, <2>1 DEF ReaderLeft, Held, dReader, dHeld
  <2>3. dFwd(n) = 0
    BY <1>1, <2>1 DEF dFwd
  <2> QED
    BY <1>1, <1>4, <2>1, <2>2, <2>3
<1>6. CASE Forward(n)
  <2>1. /\ reader[n] = "hold" /\ reader' = [reader EXCEPT ![n] = "scan"]
        /\ fwd' = [fwd EXCEPT ![n] = @ + 1]
    BY <1>6 DEF Forward, Reading
  <2>2. dReader(n) = 0 /\ dHeld(n) = -1
    BY <1>1, <2>1 DEF ReaderLeft, Held, dReader, dHeld
  <2>3. dFwd(n) = 1
    BY <1>1, <2>1 DEF dFwd
  <2> QED
    BY <1>1, <1>4, <2>1, <2>2, <2>3
<1>7. CASE Quit(n) \/ EndOfPipe(n)
  <2>1. /\ reader[n] \in {"scan", "hold"} /\ reader' = [reader EXCEPT ![n] = "exited"]
        /\ fwd' = fwd
    BY <1>7 DEF Quit, EndOfPipe, Reading
  <2>2. dReader(n) = -2 /\ dHeld(n) \in {0, -1}
    BY <1>1, <2>1 DEF ReaderLeft, Held, dReader, dHeld
  <2>3. dFwd(n) = 0
    BY <1>1, <2>1 DEF dFwd
  <2> QED
    BY <1>1, <1>4, <2>1, <2>2, <2>3
<1> QED
  BY <1>5, <1>6, <1>7 DEF ReaderStep

LEMMA NodeLess ==
  ASSUME TypeOK, TypeOK', NEW n \in Node, NodeAct(n)
  PROVE  Lowers(n)
<1>1. /\ UNCHANGED <<worker, rcv, reader, fwd, sent>>
      /\ got \in [Node -> Nat] /\ strays \in [Node -> Nat]
      /\ proc \in [Node -> {"absent", "dead", "hung"} \cup Running]
      /\ impl[n] \in Impl
  BY NodeFrame, PairsAssumption DEF TypeOK
<1>2. SideOK(n) /\ SideOK(n)'
  BY SideChange
<1>3. /\ dWorker(n) = 0 /\ dReader(n) = 0 /\ dHeld(n) = 0 /\ dRcv(n) = 0
      /\ dFwd(n) = 0 /\ dSent(n) = 0
  <2>1. WorkerLeft(n)' = WorkerLeft(n) /\ ReaderLeft(n)' = ReaderLeft(n) /\ Held(n)' = Held(n)
    BY <1>1 DEF WorkerLeft, ReaderLeft, Held
  <2> QED
    BY <1>1, <1>2, <2>1 DEF SideOK, dWorker, dReader, dHeld, dRcv, dFwd, dSent
<1>4. ASSUME dProc(n) \in Int, dWritten(n) \in Int, dStrays(n) \in Int, dGot(n) \in Int,
             dProc(n) + 3 * dWritten(n) - 4 * dStrays(n) - 5 * dGot(n) < 0,
             \A m \in Node \ {n} : UNCHANGED <<proc[m], stdout[m], strays[m], got[m]>>
      PROVE  Lowers(n)
  <2>1. SideLeft(n)' < SideLeft(n)
    BY <1>3, <1>4, SideChange
  <2> QED
    BY <1>1, <1>4, <2>1, SameSide DEF Lowers
<1>5. /\ UNCHANGED stdout => dWritten(n) = 0
      /\ Len(stdout'[n]) = Len(stdout[n]) => dWritten(n) = 0
      /\ Len(stdout'[n]) = Len(stdout[n]) + 1 => dWritten(n) = 1
  BY <1>2 DEF SideOK, dWritten
<1>6. /\ UNCHANGED strays => dStrays(n) = 0
      /\ UNCHANGED got => dGot(n) = 0
      /\ got' = [got EXCEPT ![n] = @ + 1] => dGot(n) = 1
      /\ strays' = [strays EXCEPT ![n] = @ + 1] => dStrays(n) = 1
  BY <1>1 DEF dStrays, dGot
<1>7. ASSUME NEW line \in Line, NEW next \in {"loop", "dead"}, Emit(n, line, next),
             proc[n] \in {"init", "test"}, UNCHANGED <<got, strays>>
      PROVE  Lowers(n)
  <2>1. /\ \/ proc'[n] = next /\ Len(stdout'[n]) = Len(stdout[n]) + 1
           \/ proc'[n] = "dead" /\ Len(stdout'[n]) = Len(stdout[n])
        /\ \A m \in Node \ {n} : proc'[m] = proc[m] /\ stdout'[m] = stdout[m]
    BY <1>7, EmitCount
  <2>2. dProc(n) \in {-4, -5}
    BY <1>7, <2>1 DEF ProcLeft, dProc
  <2> QED
    BY <1>4, <1>5, <1>6, <1>7, <2>1, <2>2
<1>8. CASE NodeReady(n) \/ NodeInitFails(n) \/ NodeResult(n)
  <2>1. /\ proc[n] \in {"init", "test"} /\ UNCHANGED <<got, strays>>
        /\ \E line \in Line, next \in {"loop", "dead"} : Emit(n, line, next)
    BY <1>1, <1>8, ImplTypes, LineTypes DEF NodeReady, NodeInitFails, NodeResult
  <2> QED
    BY <1>7, <2>1
<1>9. CASE NodeBootstrap(n)
  <2>1. /\ proc[n] = "loop" /\ got' = [got EXCEPT ![n] = @ + 1] /\ UNCHANGED strays
        /\ Emit(n, ErrorLine, "loop") \/ UNCHANGED <<proc, stdout>>
    BY <1>9 DEF NodeBootstrap, Reads
  <2>2. /\ Len(stdout'[n]) = Len(stdout[n]) \/ Len(stdout'[n]) = Len(stdout[n]) + 1
        /\ proc'[n] \in {"loop", "dead"}
        /\ \A m \in Node \ {n} : proc'[m] = proc[m] /\ stdout'[m] = stdout[m]
    BY <2>1, LineTypes, EmitCount
  <2>3. \A m \in Node \ {n} : got'[m] = got[m]
    BY <1>1, <2>1
  <2>4. dProc(n) \in {0, -1}
    BY <2>1, <2>2 DEF ProcLeft, dProc
  <2> QED
    BY <1>4, <1>5, <1>6, <2>1, <2>2, <2>3, <2>4
<1>10. CASE NodeRunTest(n) \/ NodeShutdown(n)
  <2>1. /\ proc[n] = "loop" /\ got' = [got EXCEPT ![n] = @ + 1]
        /\ \E next \in {"test", "dead"} : proc' = [proc EXCEPT ![n] = next]
        /\ UNCHANGED <<strays, stdout>>
    BY <1>10 DEF NodeRunTest, NodeShutdown, Reads
  <2>2. /\ proc'[n] \in {"test", "dead"}
        /\ \A m \in Node \ {n} : got'[m] = got[m] /\ proc'[m] = proc[m]
    BY <1>1, <2>1
  <2>3. dProc(n) \in {4, -1}
    BY <2>1, <2>2 DEF ProcLeft, dProc
  <2> QED
    BY <1>4, <1>5, <1>6, <2>1, <2>2, <2>3
<1>11. CASE NodeEOF(n) \/ NodeFails(n)
  <2>1. /\ proc[n] \in Running /\ UNCHANGED <<got, strays, stdout>>
        /\ \E end \in {"dead", "hung"} : proc' = [proc EXCEPT ![n] = end]
    BY <1>11 DEF NodeEOF, NodeFails, Running
  <2>2. proc'[n] \in {"dead", "hung"} /\ \A m \in Node \ {n} : proc'[m] = proc[m]
    BY <1>1, <2>1
  <2>3. dProc(n) \in {-1, -5}
    BY <2>1, <2>2 DEF ProcLeft, Running, dProc
  <2> QED
    BY <1>4, <1>5, <1>6, <2>1, <2>2, <2>3
<1>12. CASE NodeStray(n)
  <2>1. /\ proc[n] \in Running /\ strays' = [strays EXCEPT ![n] = @ + 1]
        /\ UNCHANGED got /\ Emit(n, NoiseLine, proc[n])
    BY <1>12 DEF NodeStray, HarnessVars
  <2>2. /\ \/ proc'[n] = proc[n] /\ Len(stdout'[n]) = Len(stdout[n]) + 1
           \/ proc'[n] = "dead" /\ Len(stdout'[n]) = Len(stdout[n])
        /\ \A m \in Node \ {n} : proc'[m] = proc[m] /\ stdout'[m] = stdout[m]
    BY <2>1, LineTypes, EmitCount
  <2>3. \A m \in Node \ {n} : strays'[m] = strays[m]
    BY <1>1, <2>1
  <2>4. dProc(n) \in {0, -1, -5}
    BY <2>1, <2>2 DEF ProcLeft, Running, dProc
  <2> QED
    BY <1>4, <1>5, <1>6, <2>1, <2>2, <2>3, <2>4
<1> QED
  BY <1>8, <1>9, <1>10, <1>11, <1>12 DEF NodeAct, NodeStep

\* The main thread comes closer to its return.
LEMMA MainDrops ==
  ASSUME TypeOK, TypeOK', MainStep
  PROVE  MainLeft' <= MainLeft - 1 /\ MainLeft \in Nat /\ MainLeft' \in Nat
<1>1. MainLeft \in Nat
  BY MainLeftType
<1>2. pc' \in Step /\ at' \in Node /\ pc \in Step /\ at \in Node
  BY DEF TypeOK
<1>3. MainLeft' \in Nat
  BY MainTypeNext
<1>4. ASSUME NEW v, Return(v) PROVE MainLeft' <= 4
  <2>1. (pc' = "close" /\ at' \in Node) \/ pc' = "return"
    BY <1>4 DEF Return, Unwind, GoTo, Node
  <2> QED
    BY <1>2, <2>1 DEF MainLeft, Node
<1>5. pc \in {"start", "await", "check", "bootstrap", "collect"} => MainLeft >= 5
  BY <1>2 DEF MainLeft, Node
<1>6. CASE /\ pc \in {"start", "await", "check", "bootstrap", "collect"}
           /\ \E v : Return(v)
  BY <1>1, <1>3, <1>4, <1>5, <1>6
<1>7. CASE Spawn
  BY <1>2, <1>7 DEF Spawn, Main, GoTo, MainLeft, Node
<1>8. CASE SpawnFails
  BY <1>6, <1>8 DEF SpawnFails, Main
<1>9. CASE AwaitLine
  <2>1. pc = "await" /\ \/ \E v : Return(v)
                        \/ IF at = "A" THEN GoTo("start", "B") ELSE GoTo("check", "A")
    BY <1>9 DEF AwaitLine, Main
  <2>2. CASE IF at = "A" THEN GoTo("start", "B") ELSE GoTo("check", "A")
    BY <1>2, <2>1, <2>2 DEF GoTo, MainLeft, Node
  <2> QED
    BY <1>6, <2>1, <2>2
<1>10. CASE AwaitClosed \/ AwaitTimeout \/ Collect
  BY <1>6, <1>10 DEF AwaitClosed, AwaitTimeout, Collect, Main
<1>11. CASE CheckStub
  <2>1. pc = "check" /\ ((\E v : Return(v)) \/ GoTo("bootstrap", "B"))
    BY <1>11 DEF CheckStub, Main
  <2>2. CASE GoTo("bootstrap", "B")
    BY <1>2, <2>1, <2>2 DEF GoTo, MainLeft
  <2> QED
    BY <1>6, <2>1, <2>2
<1>12. CASE Bootstrap
  <2>1. pc = "bootstrap" /\ \/ \E v : Return(v)
                            \/ at = "B" /\ GoTo("bootstrap", "A")
                            \/ at = "A" /\ GoTo("collect", "A")
    BY <1>2, <1>12 DEF Bootstrap, Main, Node
  <2>2. CASE \/ at = "B" /\ GoTo("bootstrap", "A")
             \/ at = "A" /\ GoTo("collect", "A")
    BY <1>2, <2>1, <2>2 DEF GoTo, MainLeft
  <2>3. CASE \E v : Return(v)
    BY <1>6, <2>1, <2>3
  <2> QED
    BY <2>1, <2>2, <2>3
<1>13. CASE CloseSend
  BY <1>2, <1>13 DEF CloseSend, Main, GoTo, MainLeft, Node
<1>14. CASE CloseWait
  BY <1>2, <1>14 DEF CloseWait, Main, GoTo, MainLeft, Node
<1> QED
  BY <1>1, <1>3, <1>7, <1>8, <1>9, <1>10, <1>11, <1>12, <1>13, <1>14 DEF MainStep

\* What it hands to the sides: a started process or one command, to one side.
LEMMA MainSides ==
  ASSUME TypeOK, TypeOK', PhaseInv, CloseInv, MainStep, NEW n \in Node
  PROVE  SideLeft(n)' <= SideLeft(n) + IF n = at THEN 5 ELSE 0
<1>1. /\ UNCHANGED <<fwd, got, stdout, strays>>
      /\ worker \in [Node -> {"idle", "send", "wait", "done"}]
      /\ reader \in [Node -> {"off", "scan", "hold", "exited"}]
      /\ proc \in [Node -> {"absent", "dead", "hung"} \cup Running]
      /\ rcv \in [Node -> Nat] /\ sent \in [Node -> Seq(Command)] /\ at \in Node
  BY MainFrame DEF TypeOK
<1>2. SideOK(n) /\ SideOK(n)'
  BY SideChange
<1>3. /\ dWritten(n) = 0 /\ dFwd(n) = 0 /\ dStrays(n) = 0 /\ dGot(n) = 0
  <2>1. dWritten(n) = 0
    BY <1>1, <1>2 DEF SideOK, dWritten
  <2>2. dFwd(n) = 0
    BY <1>1, <1>2 DEF SideOK, dFwd
  <2>3. dStrays(n) = 0
    BY <1>1, <1>2 DEF SideOK, dStrays
  <2>4. dGot(n) = 0
    BY <1>1, <1>2 DEF SideOK, dGot
  <2> QED
    BY <2>1, <2>2, <2>3, <2>4
<1>4. ASSUME dWorker(n) \in Int, dReader(n) \in Int, dProc(n) \in Int, dRcv(n) \in Int,
             dHeld(n) \in Int, dSent(n) \in Int,
             dWorker(n) + dReader(n) + dProc(n) - dRcv(n) - dHeld(n) + 5 * dSent(n) <= 5,
             n # at => dWorker(n) + dReader(n) + dProc(n) - dRcv(n) - dHeld(n)
                         + 5 * dSent(n) <= 0
      PROVE  SideLeft(n)' <= SideLeft(n) + IF n = at THEN 5 ELSE 0
  BY <1>3, <1>4, SideChange
<1>5. /\ UNCHANGED worker => dWorker(n) = 0
      /\ UNCHANGED reader => dReader(n) = 0 /\ dHeld(n) = 0
      /\ UNCHANGED proc => dProc(n) = 0
      /\ UNCHANGED rcv => dRcv(n) = 0
      /\ UNCHANGED sent => dSent(n) = 0
  <2>1. /\ UNCHANGED worker => WorkerLeft(n)' = WorkerLeft(n)
        /\ UNCHANGED reader => ReaderLeft(n)' = ReaderLeft(n) /\ Held(n)' = Held(n)
        /\ UNCHANGED proc => ProcLeft(n)' = ProcLeft(n)
    BY DEF WorkerLeft, ReaderLeft, Held, ProcLeft
  <2>2. /\ UNCHANGED worker => dWorker(n) = 0
        /\ UNCHANGED reader => dReader(n) = 0 /\ dHeld(n) = 0
        /\ UNCHANGED proc => dProc(n) = 0
    BY <1>2, <2>1 DEF SideOK, dWorker, dReader, dHeld, dProc
  <2>3. UNCHANGED rcv => dRcv(n) = 0
    BY <1>2 DEF SideOK, dRcv
  <2>4. UNCHANGED sent => dSent(n) = 0
    BY <1>2 DEF SideOK, dSent
  <2> QED
    BY <2>2, <2>3, <2>4
<1>6. ASSUME NEW cmd \in Command, Write(at, cmd)
      PROVE  dSent(n) = IF n = at THEN 1 ELSE 0
  <2>1. Len(sent'[n]) = Len(sent[n]) + IF n = at THEN 1 ELSE 0
    BY <1>1, <1>2, <1>6, GrowFacts DEF Write, SideOK
  <2> QED
    BY <1>2, <2>1 DEF SideOK, dSent
<1>7. CASE Spawn
  <2>1. /\ proc' = [proc EXCEPT ![at] = "init"] /\ reader' = [reader EXCEPT ![at] = "scan"]
        /\ proc[at] = "absent" /\ UNCHANGED <<worker, rcv, sent>>
    BY <1>7 DEF Spawn, Main, CloseInv, channelVars
  <2>2. dProc(n) = IF n = at THEN -1 ELSE 0
    BY <1>1, <2>1 DEF dProc, ProcLeft
  <2>3. dReader(n) \in {-1, 0, 2} /\ (n # at => dReader(n) = 0)
    BY <1>1, <2>1 DEF dReader, ReaderLeft
  <2>4. dHeld(n) \in {-1, 0} /\ (n # at => dHeld(n) = 0)
    BY <1>1, <2>1 DEF dHeld, Held
  <2> QED
    BY <1>4, <1>5, <2>1, <2>2, <2>3, <2>4
<1>8. CASE SpawnFails \/ AwaitClosed \/ CheckStub \/ Collect \/ CloseWait
  <2>1. UNCHANGED <<worker, reader, proc, rcv, sent>>
    BY <1>8 DEF SpawnFails, AwaitClosed, CheckStub, Collect, CloseWait, channelVars,
                readerVars, nodeVars
  <2> QED
    BY <1>4, <1>5, <2>1
<1>9. CASE AwaitLine
  <2>1. rcv' = [rcv EXCEPT ![at] = @ + 1] /\ UNCHANGED <<worker, reader, proc, sent>>
    BY <1>9 DEF AwaitLine, readerVars, nodeVars
  <2>2. dRcv(n) \in {0, 1}
    BY <1>1, <2>1 DEF dRcv
  <2> QED
    BY <1>4, <1>5, <2>1, <2>2
<1>10. CASE AwaitTimeout
  <2>1. proc' = [proc EXCEPT ![at] = "dead"] /\ UNCHANGED <<worker, reader, rcv, sent>>
    BY <1>10 DEF AwaitTimeout, channelVars, readerVars
  <2>2. dProc(n) \in {0, -1, -5, -6}
    BY <1>1, <2>1 DEF dProc, ProcLeft, Running
  <2> QED
    BY <1>4, <1>5, <2>1, <2>2
<1>11. CASE Bootstrap
  <2>1. /\ UNCHANGED <<reader, proc, rcv>>
        /\ UNCHANGED sent \/ Write(at, "bootstrap")
        /\ \/ UNCHANGED worker
           \/ worker' = [m \in Node |-> "send"] /\ \A m \in Node : worker[m] = "idle"
    BY <1>11 DEF Bootstrap, Main, PhaseInv, readerVars, nodeVars
  <2>2. dWorker(n) \in {0, -1}
    <3>1. CASE worker' = [m \in Node |-> "send"] /\ \A m \in Node : worker[m] = "idle"
      BY <1>1, <3>1 DEF dWorker, WorkerLeft
    <3> QED
      BY <1>5, <2>1, <3>1
  <2>3. dSent(n) \in {0, 1} /\ (n # at => dSent(n) = 0)
    BY <1>5, <1>6, <2>1 DEF Command
  <2> QED
    BY <1>4, <1>5, <2>1, <2>2, <2>3
<1>12. CASE CloseSend
  <2>1. /\ UNCHANGED <<worker, reader, proc, rcv>>
        /\ UNCHANGED sent \/ Write(at, "shutdown")
    BY <1>12 DEF CloseSend, channelVars, readerVars, nodeVars
  <2>2. dSent(n) \in {0, 1} /\ (n # at => dSent(n) = 0)
    BY <1>5, <1>6, <2>1 DEF Command
  <2> QED
    BY <1>4, <1>5, <2>1, <2>2
<1> QED
  BY <1>7, <1>8, <1>9, <1>10, <1>11, <1>12 DEF MainStep

LEMMA EndsLess ==
  ASSUME TypeOK, TypeOK', HarnessEnds
  PROVE  MainLeft' = MainLeft /\ \A n \in Node : SideLeft(n)' = SideLeft(n)
<1>1. UNCHANGED <<pc, at, worker, reader, proc, stdout, fwd, rcv, strays, sent, got>>
  BY DEF HarnessEnds, mainVars, channelVars, readerVars, nodeVars
<1> QED
  BY <1>1, SameSide DEF MainLeft

\* Nothing is ever left below zero.
LEMMA LeftNat == TypeOK /\ BudgetInv => Left \in Nat
<1> SUFFICES ASSUME TypeOK, BudgetInv PROVE Left \in Nat
  OBVIOUS
<1>1. ASSUME NEW n \in Node PROVE SideLeft(n) \in Nat
  <2>1. SideOK(n) /\ strays[n] <= MaxStray
    BY SideTypes DEF BudgetInv, PrintBound
  <2> DEFINE w == WorkerLeft(n)   r == ReaderLeft(n)   p == ProcLeft(n)  h == Held(n)
             l == Len(stdout[n])  e == Len(sent[n])    f == fwd[n]       c == rcv[n]
             s == strays[n]       g == got[n]
  <2>2. /\ w \in Nat /\ r \in Nat /\ p \in Nat /\ h \in Nat /\ l \in Nat
        /\ e \in Nat /\ f \in Nat /\ c \in Nat /\ s \in Nat /\ g \in Nat
        /\ c <= f /\ f + h <= l /\ s <= MaxStray /\ g <= e
    BY <2>1 DEF SideOK
  <2>3. SideLeft(n) = Sum(w, r, p, l, f, c, h, s, e, g)
    BY SideIsSum
  <2> HIDE DEF w, r, p, l, f, c, h, s, e, g
  <2> QED
    BY <2>2, <2>3, BoundsAssumption DEF Sum
<1>2. MainLeft \in Nat
  BY MainLeftType
<1> QED
  BY <1>1, <1>2 DEF Left, Node

LEMMA LeftNatNext == (TypeOK /\ BudgetInv => Left \in Nat)'
  BY LeftNat, PTL

LEMMA LessStep ==
  ASSUME IInv, CloseInv, BudgetInv, IInv', BudgetInv', Next, ~UNCHANGED vars
  PROVE  Left' < Left
<1>1. TypeOK /\ TypeOK' /\ PhaseInv
  BY DEF IInv
<1>2. /\ SideLeft("A") \in Int /\ SideLeft("A")' \in Int
      /\ SideLeft("B") \in Int /\ SideLeft("B")' \in Int
  BY <1>1, SideChange DEF Node
<1>3. MainLeft \in Nat /\ MainLeft' \in Nat /\ alive \in BOOLEAN /\ alive' \in BOOLEAN
  BY <1>1, MainLeftType, MainTypeNext DEF TypeOK
<1>4. Left = 6 * MainLeft + (IF alive THEN 1 ELSE 0) + SideLeft("A") + SideLeft("B")
  BY DEF Left
<1>5. Left' = 6 * MainLeft' + (IF alive' THEN 1 ELSE 0) + SideLeft("A")' + SideLeft("B")'
  BY DEF Left
<1>6. ASSUME NEW n \in Node, Lowers(n), UNCHANGED <<alive, pc, at>>
      PROVE  Left' < Left
  <2>1. MainLeft' = MainLeft
    BY <1>6 DEF MainLeft
  <2>2. \/ SideLeft("A")' < SideLeft("A") /\ SideLeft("B")' = SideLeft("B")
        \/ SideLeft("B")' < SideLeft("B") /\ SideLeft("A")' = SideLeft("A")
    BY <1>6 DEF Lowers, Node
  <2> QED
    BY <1>2, <1>3, <1>4, <1>5, <1>6, <2>1, <2>2
<1>7. CASE MainStep
  <2>1. MainLeft' <= MainLeft - 1 /\ alive' = alive
    BY <1>1, <1>7, MainDrops, MainFrame
  <2>2. /\ SideLeft("A")' <= SideLeft("A") + IF "A" = at THEN 5 ELSE 0
        /\ SideLeft("B")' <= SideLeft("B") + IF "B" = at THEN 5 ELSE 0
    BY <1>1, <1>7, MainSides DEF Node
  <2>3. SideLeft("A")' + SideLeft("B")' <= SideLeft("A") + SideLeft("B") + 5
    BY <1>2, <2>2
  <2> QED
    BY <1>2, <1>3, <1>4, <1>5, <2>1, <2>3
<1>8. ASSUME NEW n \in Node, WorkerStep(n) PROVE Left' < Left
  BY <1>1, <1>6, <1>8, WorkerLess, WorkerFrame
<1>9. ASSUME NEW n \in Node, ReaderStep(n) PROVE Left' < Left
  BY <1>1, <1>6, <1>9, ReaderLess, ReaderFrame
<1>10. ASSUME NEW n \in Node, NodeAct(n) PROVE Left' < Left
  BY <1>1, <1>6, <1>10, NodeLess, NodeFrame
<1>11. CASE HarnessEnds
  <2>1. /\ MainLeft' = MainLeft /\ alive /\ ~alive'
        /\ SideLeft("A")' = SideLeft("A") /\ SideLeft("B")' = SideLeft("B")
    BY <1>1, <1>11, EndsLess DEF HarnessEnds, Node
  <2> QED
    BY <1>2, <1>3, <1>4, <1>5, <2>1
<1> QED
  BY <1>7, <1>8, <1>9, <1>10, <1>11 DEF Next, NodeAct, Terminated

(***************************************************************************)
(* Every run is finite, without any fairness: whatever the implementations *)
(* are, whatever is scheduled and whatever fails, and however long the     *)
(* channels and pipes, each step of each thread and process uses up some   *)
(* of what was left (runCompatTest and everything it starts).              *)
(***************************************************************************)
THEOREM RunsAreFinite == Spec => RunIsFinite
<1>1. /\ IInv /\ CloseInv /\ BudgetInv /\ [Next]_vars
      /\ IInv' /\ CloseInv' /\ BudgetInv'
      => [Left' < Left /\ Left' >= 0]_vars
  <2> SUFFICES ASSUME IInv, CloseInv, BudgetInv, IInv', BudgetInv', Next, ~UNCHANGED vars
               PROVE  Left' < Left /\ Left' >= 0
    OBVIOUS
  <2>1. Left' < Left
    BY LessStep
  <2>2. Left' \in Nat
    BY LeftNatNext DEF IInv
  <2> QED
    BY <2>1, <2>2
<1> QED
  BY <1>1, BudgetAlways, PTL DEF Spec, RunIsFinite
=============================================================================
