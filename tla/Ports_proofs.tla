---------------------------- MODULE Ports_proofs -----------------------------
(***************************************************************************)
(* Proofs about the ports of the nodes, for every number of runs, every    *)
(* pair of implementations and every inherited environment.                *)
(***************************************************************************)
EXTENDS Ports, TLAPS

LEMMA PeerType == \A n \in Node : Peer(n) \in Node
  BY DEF Node, Peer

\* Whatever environment the harness inherits, a node that was given a port
\* reads a range of that one port.
LEMMA OneRange ==
  ASSUME NEW n \in Node, port[n] \in Port
  PROVE  Ranges(n) = {[start |-> port[n], end |-> port[n]]}
<1> DEFINE p   == port[n]
           env == buildNodeEnv(Overrides(p))
<1>1. ASSUME NEW k \in Key PROVE getenv(env, k) = {p}
  <2>1. [key |-> k, val |-> p] \in Overrides(p)
    BY DEF Overrides
  <2>2. \A d \in env : d.key = k => d.val = p
    BY <2>1 DEF buildNodeEnv, Overrides
  <2>3. [key |-> k, val |-> p] \in env
    BY <2>1 DEF buildNodeEnv
  <2> QED
    BY <2>2, <2>3 DEF getenv
<1>2. portRange(p, p) = [start |-> p, end |-> p]
  BY DEF portRange, Port
<1>3. getenv(env, "TOX_PORT_START") = {p} /\ getenv(env, "TOX_PORT_END") = {p}
  BY <1>1 DEF Key
<1> HIDE DEF p, env
<1>4. {portRange(s, e) : s \in {p}, e \in {p}} = {[start |-> p, end |-> p]}
  BY <1>2
<1> QED
  BY <1>3, <1>4 DEF Ranges, p, env

\* A range never leaves the ports that exist.
LEMMA RangeInPorts ==
  ASSUME NEW s, NEW e
  PROVE  /\ portRange(s, e).start \in Port /\ portRange(s, e).end \in Port
         /\ \A p \in portRange(s, e).start..portRange(s, e).end : p \in Port
<1>1. DefaultStart \in Port /\ DefaultEnd \in Port
  BY PortAssumption DEF Port
<1>2. portRange(s, e).start \in Port /\ portRange(s, e).end \in Port
  BY <1>1 DEF portRange
<1> QED
  BY <1>2, PortAssumption DEF Port

-----------------------------------------------------------------------------
LEMMA InitType == Init => TypeOK
  BY PortAssumption, NodeAssumption DEF Init, TypeOK, Stage

LEMMA NextType == TypeOK /\ [Next]_vars => TypeOK'
<1> SUFFICES ASSUME TypeOK, [Next]_vars PROVE TypeOK'
  OBVIOUS
<1> USE DEF TypeOK, Stage
<1>1. ASSUME NEW n \in Node, NodeBinds(n) PROVE TypeOK'
  <2>1. PICK r \in Ranges(n) : \E p \in r.start..r.end :
          /\ bound'     = [bound EXCEPT ![n] = p]
          /\ announced' = [announced EXCEPT ![n] = IF impl[n] = "go" THEN r.start ELSE p]
    BY <1>1 DEF NodeBinds
  <2>2. r.start \in Port /\ \A p \in r.start..r.end : p \in Port
    BY <2>1, RangeInPorts DEF Ranges
  <2>3. bound' \in [Node -> 0..MaxPort] /\ announced' \in [Node -> 0..MaxPort]
    BY <2>1, <2>2 DEF Port
  <2> QED
    BY <1>1, <2>3 DEF NodeBinds
<1>2. ASSUME NEW n \in Node, TakePort(n) PROVE TypeOK'
  BY <1>2, PortAssumption DEF TakePort
<1>3. ASSUME NEW n \in Node, SpawnFails(n) \/ NodeRefused(n) \/ NodeStub(n) PROVE TypeOK'
  BY <1>3 DEF SpawnFails, NodeRefused, NodeStub
<1>4. ASSUME NEW n \in Node, NodeGone(n) PROVE TypeOK'
  BY <1>4, PortAssumption DEF NodeGone
<1>5. ASSUME NEW n \in Node, Bootstrap(n) PROVE TypeOK'
  BY <1>5, PeerType DEF Bootstrap
<1>6. ASSUME NEW p \in Port, Occupy(p) \/ Vacate(p) PROVE TypeOK'
  BY <1>6 DEF Occupy, Vacate
<1>7. CASE UNCHANGED vars
  BY <1>7 DEF vars
<1> QED
  BY <1>1, <1>2, <1>3, <1>4, <1>5, <1>6, <1>7 DEF Next, StartNode

\* The variables keep their types, and no node holds or announces a port
\* that does not exist.
THEOREM TypeCorrect == Spec => []TypeOK
  BY InitType, NextType, PTL DEF Spec

-----------------------------------------------------------------------------
(***************************************************************************)
(* Ports are taken once; what a node holds and announces is the port taken *)
(* for it, as long as there are ports.                                     *)
(***************************************************************************)
TakenOnce ==
  /\ \A n \in Node : /\ port[n] < BasePort + portBlock
                     /\ port[n] = 0 <=> stage[n] = "new"
  /\ \A m, n \in Node : port[m] = port[n] /\ port[m] # 0 => m = n

OwnPort ==
  /\ \A n \in Node :
       /\ stage[n] # "up" => bound[n] = 0
       /\ stage[n] \notin {"up", "gone"} \/ impl[n] = "rust" =>
            bound[n] = 0 /\ announced[n] = 0
       /\ dialed[n] # 0 => dialed[n] = announced[Peer(n)]
  /\ ~RanOut => \A n \in Node :
       /\ stage[n] = "up" /\ impl[n] # "rust" => bound[n] = port[n]
       /\ announced[n] \in {0, port[n]}

PortInv == TypeOK /\ TakenOnce /\ OwnPort

LEMMA TakenInRange ==
  ASSUME PortInv, ~RanOut, NEW n \in Node, stage[n] = "taken"
  PROVE  port[n] \in Port
  BY PortAssumption DEF PortInv, TypeOK, TakenOnce, RanOut, Port

LEMMA TakenOnceStep == TypeOK /\ TakenOnce /\ [Next]_vars => TakenOnce'
<1> SUFFICES ASSUME TypeOK, TakenOnce, [Next]_vars PROVE TakenOnce'
  OBVIOUS
<1> USE DEF TypeOK, TakenOnce
<1>1. ASSUME NEW n \in Node, TakePort(n) PROVE TakenOnce'
  <2>1. /\ port' = [port EXCEPT ![n] = BasePort + portBlock] /\ portBlock' = portBlock + 1
        /\ stage' = [stage EXCEPT ![n] = "taken"]
    BY <1>1 DEF TakePort
  <2>2. \A m \in Node : m # n => port'[m] = port[m] /\ stage'[m] = stage[m]
    BY <2>1
  <2>3. port'[n] = BasePort + portBlock /\ stage'[n] = "taken"
    BY <2>1
  <2>4. \A m \in Node : /\ port'[m] < BasePort + portBlock'
                        /\ port'[m] = 0 <=> stage'[m] = "new"
    BY <2>1, <2>2, <2>3, PortAssumption
  <2>5. \A m \in Node : m # n => port'[m] # port'[n]
    BY <2>2, <2>3, PortAssumption
  <2> QED
    BY <2>2, <2>4, <2>5
<1>2. ASSUME NEW n \in Node,
             \/ SpawnFails(n) \/ NodeBinds(n) \/ NodeRefused(n) \/ NodeStub(n) \/ NodeGone(n)
      PROVE  TakenOnce'
  BY <1>2 DEF SpawnFails, NodeBinds, NodeRefused, NodeStub, NodeGone
<1>3. ASSUME UNCHANGED <<port, portBlock, stage>> PROVE TakenOnce'
  BY <1>3
<1> QED
  BY <1>1, <1>2, <1>3 DEF Next, StartNode, Bootstrap, Occupy, Vacate, vars

LEMMA OwnPortStep == PortInv /\ [Next]_vars => OwnPort'
<1> SUFFICES ASSUME PortInv, [Next]_vars PROVE OwnPort'
  OBVIOUS
<1> USE PeerType DEF PortInv, TypeOK, OwnPort
<1>1. ASSUME NEW n \in Node, TakePort(n) PROVE OwnPort'
  <2>1. /\ stage[n] = "new" /\ stage' = [stage EXCEPT ![n] = "taken"]
        /\ port' = [port EXCEPT ![n] = BasePort + portBlock]
        /\ portBlock' = portBlock + 1 /\ UNCHANGED <<impl, bound, announced, dialed>>
    BY <1>1 DEF TakePort
  <2>2. ~RanOut' => ~RanOut
    BY <2>1, PortAssumption DEF RanOut
  <2> QED
    BY <2>1, <2>2
<1>2. ASSUME NEW n \in Node, SpawnFails(n) \/ NodeRefused(n) \/ NodeStub(n) PROVE OwnPort'
  BY <1>2 DEF SpawnFails, NodeRefused, NodeStub, RanOut
<1>3. ASSUME NEW n \in Node, NodeGone(n) PROVE OwnPort'
  BY <1>3 DEF NodeGone, RanOut
<1>4. ASSUME NEW n \in Node, NodeBinds(n) PROVE OwnPort'
  <2>0. PICK r \in Ranges(n) : \E q \in r.start..r.end :
          /\ bound'     = [bound EXCEPT ![n] = q]
          /\ announced' = [announced EXCEPT ![n] = IF impl[n] = "go" THEN r.start ELSE q]
    BY <1>4 DEF NodeBinds
  <2>1. PICK p \in r.start..r.end :
          /\ bound'     = [bound EXCEPT ![n] = p]
          /\ announced' = [announced EXCEPT ![n] = IF impl[n] = "go" THEN r.start ELSE p]
    BY <2>0
  <2>2. /\ stage[n] = "taken" /\ impl[n] # "rust" /\ stage' = [stage EXCEPT ![n] = "up"]
        /\ UNCHANGED <<impl, portBlock, port, dialed>>
    BY <1>4 DEF NodeBinds
  <2>3. ASSUME ~RanOut PROVE p = port[n] /\ r.start = port[n]
    <3>1. port[n] \in Port
      BY <2>2, <2>3, TakenInRange
    <3>2. r = [start |-> port[n], end |-> port[n]]
      BY <2>1, <3>1, OneRange
    <3> QED
      BY <2>1, <3>1, <3>2 DEF Port
  <2>4. \A m \in Node : m # n => /\ bound'[m] = bound[m] /\ announced'[m] = announced[m]
                                 /\ stage'[m] = stage[m]
    BY <2>1, <2>2
  <2>5. announced[n] = 0
    BY <2>2
  <2>6. \A m \in Node : dialed'[m] # 0 => dialed'[m] = announced'[Peer(m)]
    BY <2>2, <2>4, <2>5
  <2>7. ~RanOut => bound'[n] = port[n] /\ announced'[n] = port[n]
    BY <2>1, <2>3
  <2>8. (~RanOut)' => ~RanOut
    BY <2>2 DEF RanOut
  <2> QED
    BY <2>2, <2>4, <2>6, <2>7, <2>8
<1>5. ASSUME NEW n \in Node, Bootstrap(n) PROVE OwnPort'
  BY <1>5 DEF Bootstrap, RanOut
<1>6. ASSUME UNCHANGED <<impl, portBlock, stage, port, bound, announced, dialed>> PROVE OwnPort'
  BY <1>6 DEF RanOut
<1> QED
  BY <1>1, <1>2, <1>3, <1>4, <1>5, <1>6 DEF Next, StartNode, Occupy, Vacate, vars

LEMMA PortInvAlways == Spec => []PortInv
<1>1. Init => PortInv
  BY InitType, PortAssumption DEF Init, PortInv, TakenOnce, OwnPort, TypeOK
<1>2. PortInv /\ [Next]_vars => PortInv'
  BY NextType, TakenOnceStep, OwnPortStep DEF PortInv
<1> QED
  BY <1>1, <1>2, PTL DEF Spec

-----------------------------------------------------------------------------
\* A bootstrap command names the port at which the peer, and no other node,
\* listens while it lives.
THEOREM PeerIsReached == Spec => []BootstrapReachesPeer
<1>1. PortInv => BootstrapReachesPeer
  <2> SUFFICES ASSUME PortInv, ~RanOut, NEW m \in Node, NEW n \in Node, dialed[n] # 0
               PROVE  bound[m] = dialed[n] <=> m = Peer(n) /\ stage[m] = "up"
    BY DEF BootstrapReachesPeer
  <2>1. /\ Peer(n) \in Node /\ dialed[n] = port[Peer(n)] /\ port[Peer(n)] # 0
        /\ impl[Peer(n)] # "rust"
    BY PeerType DEF PortInv, OwnPort, TypeOK
  <2>2. bound[m] \in {0, port[m]}
    BY DEF PortInv, OwnPort, TypeOK
  <2>3. ASSUME bound[m] = dialed[n] PROVE m = Peer(n) /\ stage[m] = "up"
    BY <2>1, <2>2, <2>3 DEF PortInv, OwnPort, TakenOnce
  <2>4. ASSUME m = Peer(n), stage[m] = "up" PROVE bound[m] = dialed[n]
    BY <2>1, <2>4 DEF PortInv, OwnPort
  <2> QED
    BY <2>3, <2>4
<1> QED
  BY <1>1, PortInvAlways, PTL

\* A node is refused its port only for a program outside the harness.
THEOREM PortsNotContended == Spec => NoContention
<1>1. ASSUME PortInv, [Next]_vars, NEW n \in Node, ~RanOut, stage[n] # "refused",
             stage'[n] = "refused"
      PROVE  port[n] \in foreign
  <2>1. NodeRefused(n)
    BY <1>1 DEF Next, StartNode, TakePort, SpawnFails, NodeBinds, NodeRefused, NodeStub,
                NodeGone, Bootstrap, Occupy, Vacate, vars, PortInv, TypeOK
  <2>2. stage[n] = "taken" /\ port[n] \in Port
    BY <1>1, <2>1, TakenInRange DEF NodeRefused
  <2>3. ~Free(port[n])
    <3>1. Ranges(n) = {[start |-> port[n], end |-> port[n]]}
      BY <2>2, OneRange
    <3>2. PICK r \in Ranges(n) : \A p \in r.start..r.end : ~Free(p)
      BY <2>1 DEF NodeRefused
    <3>3. r.start = port[n] /\ r.end = port[n]
      BY <3>1, <3>2
    <3>4. port[n] \in r.start..r.end
      BY <2>2, <3>3 DEF Port
    <3> QED
      BY <3>2, <3>4
  <2>4. ASSUME NEW m \in Node, bound[m] = port[n] PROVE FALSE
    <3>1. port[n] # 0 /\ bound[n] = 0
      BY <1>1, <2>2, PortAssumption DEF Port, PortInv, OwnPort
    <3>2. port[m] = port[n]
      BY <1>1, <2>4, <3>1 DEF PortInv, OwnPort, TypeOK
    <3> QED
      BY <1>1, <2>4, <3>1, <3>2 DEF PortInv, TakenOnce
  <2> QED
    BY <2>3, <2>4 DEF Free
<1>2. PortInv /\ [Next]_vars =>
        [\A n \in Node : ~RanOut /\ stage[n] # "refused" /\ stage'[n] = "refused"
                           => port[n] \in foreign]_vars
  BY <1>1
<1> QED
  BY <1>2, PortInvAlways, PTL DEF Spec, NoContention
=============================================================================
