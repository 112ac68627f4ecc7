--------------------------- MODULE MCActiveRouting --------------------------
(***************************************************************************)
(* ActiveRouting on corners of the 16-cube dragonfly, wired and routed by  *)
(* Topology.  A link to a cube outside the corner is left unconnected.     *)
(***************************************************************************)
EXTENDS ActiveRouting

CONSTANTS f1, f2

(* Operand buffers are interchangeable.                                    *)
MCSymmetry == Permutations(Bufs)

T == INSTANCE Topology

(* 0 is joined to 1 and 2, 1 to 2 and, by the link between the quads, to 4.*)
(* Cube 0 has the host.                                                    *)
MCCubes == {0, 1, 2, 4}

MCRoot == [x \in Flows \cup Reads |-> 0]
MCFlowAdd == [f \in Flows |-> "ADD"]
MCFlowMac == [f \in Flows |-> "MAC"]

(* The path between the hosts of cubes 0 and 5.                            *)
MCPath == {0, 1, 4, 5}
MCPair == {0, 1}
MCChain == {0, 1, 4}
MCFar == {2, 4}
MCLeaves == {1, 2, 4}
MCEnds == {0, 5}
MCRoots == [x \in Flows \cup Reads |-> IF x = f2 THEN 5 ELSE 0]
MCFlowBoth == [f \in Flows |-> IF f = f2 THEN "ADD" ELSE "MAC"]

MCNextLink == [c \in Cubes |-> [d \in Cubes |-> T!dFlyNextLink(2, c, d)]]

MCPeer(c, l) ==
  LET far == T!dFlyPeer(2, c, l)
  IN  IF far.cube \in Cubes THEN far ELSE [cube |-> c, link |-> l]

MCneighborCubeID == [c \in Cubes |-> [l \in Links |-> MCPeer(c, l).cube]]
MCPeerLink == [c \in Cubes |-> [l \in Links |-> MCPeer(c, l).link]]
=============================================================================
