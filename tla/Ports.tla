-------------------------------- MODULE Ports --------------------------------
(***************************************************************************)
(* The UDP ports of the test nodes: StartNode's counter, the environment   *)
(* it hands to the node, the range the node reads from it, the bind, the   *)
(* announced port and the bootstrap commands that use it. Many runs are    *)
(* under way at once, and other programs take and free ports as they like. *)
(* Port 0 stands for no port, and for a text that is none.                 *)
(***************************************************************************)
EXTENDS Integers

CONSTANTS
  Run,            \* the (feature, pair) runs, all parallel
  Impls,          \* the implementations of all nodes, functions on Node
  Parents,        \* the environments the harness may inherit
  BasePort,       \* baseUDPPort
  DefaultStart,   \* defaultUDPPortStart
  DefaultEnd,     \* defaultUDPPortEnd
  MaxPort         \* 65535

Node    == Run \X {"A", "B"}
Peer(n) == <<n[1], IF n[2] = "A" THEN "B" ELSE "A">>
Port    == 1..MaxPort
Key     == {"TOX_PORT_START", "TOX_PORT_END"}
Entry   == [key : Key, val : Nat]

ASSUME PortAssumption ==
  /\ BasePort \in Nat /\ DefaultStart \in Nat /\ DefaultEnd \in Nat /\ MaxPort \in Nat
  /\ 1 <= BasePort
  /\ 1 <= DefaultStart /\ DefaultStart <= DefaultEnd /\ DefaultEnd <= MaxPort
ASSUME NodeAssumption ==
  Impls \subseteq [Node -> {"go", "c", "rust"}] /\ Parents \subseteq SUBSET Entry

VARIABLES
  impl,        \* impl[n]; fixed
  parent,      \* os.Environ(), as far as it concerns the nodes; fixed
  portBlock,   \* the counter
  stage,       \* how far StartNode is with n, and what became of n
  port,        \* the port StartNode took for n
  bound,       \* the port n's library holds
  announced,   \* tox_port of n's ready line
  dialed,      \* the port of the bootstrap command sent to n
  foreign      \* the ports other programs hold

vars == <<impl, parent, portBlock, stage, port, bound, announced, dialed, foreign>>

Stage == {"new", "taken", "absent", "refused", "up", "gone"}

Init ==
  /\ impl \in Impls /\ parent \in Parents
  /\ portBlock = 0
  /\ stage     = [n \in Node |-> "new"]
  /\ port      = [n \in Node |-> 0]
  /\ bound     = [n \in Node |-> 0]
  /\ announced = [n \in Node |-> 0]
  /\ dialed    = [n \in Node |-> 0]
  /\ foreign   = {}

-----------------------------------------------------------------------------
(***************************************************************************)
(* StartNode.                                                              *)
(***************************************************************************)
\* Mutant: the counter is read and then written, and another call may come
\* between the two.
TakePortInTwoSteps(n) ==
  /\ stage[n] = "new"
  /\ n[2] = "B" => stage[Peer(n)] \in {"up", "gone"}
  /\ \E seen \in {portBlock, portBlock - 1} \cap Nat :
       /\ port'      = [port EXCEPT ![n] = BasePort + seen]
       /\ portBlock' = seen + 1
  /\ stage' = [stage EXCEPT ![n] = "taken"]
  /\ UNCHANGED <<impl, parent, bound, announced, dialed, foreign>>

\* The responder is started when the initiator is ready.
TakePort(n) ==
  /\ stage[n] = "new"
  /\ n[2] = "B" => stage[Peer(n)] \in {"up", "gone"}
  /\ port'      = [port EXCEPT ![n] = BasePort + portBlock]
  /\ portBlock' = portBlock + 1
  /\ stage'     = [stage EXCEPT ![n] = "taken"]
  /\ UNCHANGED <<impl, parent, bound, announced, dialed, foreign>>

\* The pipes or the process cannot be had, or the node is killed because it
\* says nothing for 5 seconds; the port is not given back.
SpawnFails(n) ==
  /\ stage[n] = "taken"
  /\ stage' = [stage EXCEPT ![n] = "absent"]
  /\ UNCHANGED <<impl, parent, portBlock, port, bound, announced, dialed, foreign>>

Overrides(p) == {[key |-> k, val |-> p] : k \in Key}

\* Mutant: the overrides are appended to whatever is inherited.
buildNodeEnvAppends(overrides) == parent \cup overrides

buildNodeEnv(overrides) ==
  {e \in parent : \A o \in overrides : e.key # o.key} \cup overrides

-----------------------------------------------------------------------------
(***************************************************************************)
(* The node. A name that occurs twice in its environment has no definite   *)
(* value: one of the entries is found.                                     *)
(***************************************************************************)
getenv(env, k) == {e.val : e \in {d \in env : d.key = k}}

\* Mutant: the bounds of a port are not looked at.
portRangeUnchecked(s, e) == [start |-> s, end |-> e]

\* getEnvInt and the checks in main; parse_port_env.
portRange(s, e) ==
  LET start == IF s \in Port THEN s ELSE DefaultStart
      end   == IF e \in Port THEN e ELSE DefaultEnd
  IN  IF end < start THEN [start |-> DefaultStart, end |-> DefaultEnd]
                     ELSE [start |-> start, end |-> end]

Ranges(n) ==
  LET env == buildNodeEnv(Overrides(port[n]))
  IN  {portRange(s, e) : s \in getenv(env, "TOX_PORT_START"),
                         e \in getenv(env, "TOX_PORT_END")}

Free(p) == p \notin foreign /\ \A m \in Node : bound[m] # p

\* The Go node announces the start of its range, the C node asks its library.
NodeBinds(n) ==
  /\ stage[n] = "taken" /\ impl[n] # "rust"
  /\ \E r \in Ranges(n) : \E p \in r.start..r.end :
       /\ Free(p)
       /\ bound'     = [bound EXCEPT ![n] = p]
       /\ announced' = [announced EXCEPT ![n] = IF impl[n] = "go" THEN r.start ELSE p]
  /\ stage' = [stage EXCEPT ![n] = "up"]
  /\ UNCHANGED <<impl, parent, portBlock, port, dialed, foreign>>

\* An error line instead of the ready line, and exit 1.
NodeRefused(n) ==
  /\ stage[n] = "taken" /\ impl[n] # "rust"
  /\ \E r \in Ranges(n) : \A p \in r.start..r.end : ~Free(p)
  /\ stage' = [stage EXCEPT ![n] = "refused"]
  /\ UNCHANGED <<impl, parent, portBlock, port, bound, announced, dialed, foreign>>

\* The stub has no Tox instance and announces port 0.
NodeStub(n) ==
  /\ stage[n] = "taken" /\ impl[n] = "rust"
  /\ stage' = [stage EXCEPT ![n] = "up"]
  /\ UNCHANGED <<impl, parent, portBlock, port, bound, announced, dialed, foreign>>

NodeGone(n) ==
  /\ stage[n] = "up"
  /\ stage' = [stage EXCEPT ![n] = "gone"]
  /\ bound' = [bound EXCEPT ![n] = 0]
  /\ UNCHANGED <<impl, parent, portBlock, port, announced, dialed, foreign>>

\* runCompatTest bootstraps each off the other, if both have a port.
Bootstrap(n) ==
  /\ announced[n] # 0 /\ announced[Peer(n)] # 0 /\ dialed[n] = 0
  /\ dialed' = [dialed EXCEPT ![n] = announced[Peer(n)]]
  /\ UNCHANGED <<impl, parent, portBlock, stage, port, bound, announced, foreign>>

-----------------------------------------------------------------------------
Occupy(p) ==
  /\ Free(p)
  /\ foreign' = foreign \cup {p}
  /\ UNCHANGED <<impl, parent, portBlock, stage, port, bound, announced, dialed>>

Vacate(p) ==
  /\ p \in foreign
  /\ foreign' = foreign \ {p}
  /\ UNCHANGED <<impl, parent, portBlock, stage, port, bound, announced, dialed>>

StartNode(n) ==
  \/ TakePort(n) \/ SpawnFails(n)
  \/ NodeBinds(n) \/ NodeRefused(n) \/ NodeStub(n)

Next ==
  \/ \E n \in Node : StartNode(n) \/ Bootstrap(n) \/ NodeGone(n)
  \/ \E p \in Port : Occupy(p) \/ Vacate(p)

Spec == Init /\ [][Next]_vars

-----------------------------------------------------------------------------
(***************************************************************************)
(* Properties. They hold until the counter has passed the last port, after *)
(* 32091 nodes of one `go test' process; a matrix starts 36.               *)
(***************************************************************************)
RanOut == BasePort + portBlock > MaxPort + 1

\* Types; a node never holds or announces a port that does not exist.
TypeOK ==
  /\ impl \in [Node -> {"go", "c", "rust"}] /\ parent \in SUBSET Entry
  /\ portBlock \in Nat
  /\ stage \in [Node -> Stage]
  /\ port  \in [Node -> Nat]
  /\ bound \in [Node -> 0..MaxPort] /\ announced \in [Node -> 0..MaxPort]
  /\ dialed \in [Node -> 0..MaxPort]
  /\ foreign \subseteq Port

(***************************************************************************)
(* The port a node is told to bootstrap off is one its own peer listens at *)
(* for as long as it lives, and at which no node of another run ever       *)
(* listens, before or after: "tox_port is always accurate" (node.go:20-22, *)
(* StartNode, and the comment at cmd/go-testnode/main.go:406). A node that *)
(* met another run's node would test the wrong implementation.             *)
(***************************************************************************)
BootstrapReachesPeer ==
  ~RanOut => \A m, n \in Node :
    dialed[n] # 0 => (bound[m] = dialed[n] <=> m = Peer(n) /\ stage[m] = "up")

(***************************************************************************)
(* Parallel runs do not contend for ports: the library of a node finds     *)
(* its port taken only by a program that is no node of this harness        *)
(* (StartNode, buildNodeEnv). Otherwise the case would be recorded as      *)
(* not_implemented by the harness's own doing.                             *)
(***************************************************************************)
NoContention ==
  [][\A n \in Node : ~RanOut /\ stage[n] # "refused" /\ stage'[n] = "refused"
                       => port[n] \in foreign]_vars
=============================================================================
