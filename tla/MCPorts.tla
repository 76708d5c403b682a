------------------------------- MODULE MCPorts -------------------------------
(***************************************************************************)
(* An instance of Ports for TLC: two runs and three ports, so that the     *)
(* fourth node falls back to the default range.                            *)
(***************************************************************************)
EXTENDS Ports

MCRun == {"r1", "r2"}

Only(i, j, k, l) == [n \in Node |-> CASE n = <<"r1", "A">> -> i [] n = <<"r1", "B">> -> j
                                      [] n = <<"r2", "A">> -> k [] n = <<"r2", "B">> -> l]
MCImpls == {Only("go", "c", "go", "c"), Only("go", "c", "c", "rust")}

\* Nothing inherited, a proper range, a start that is no number, and a range
\* that is inverted and reaches beyond the last port.
Inherits(s, e) == {[key |-> "TOX_PORT_START", val |-> s], [key |-> "TOX_PORT_END", val |-> e]}
MCParents == {{}, Inherits(1, 4), {[key |-> "TOX_PORT_START", val |-> 0]}, Inherits(5, 1)}
=============================================================================
