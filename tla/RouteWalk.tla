----------------------------- MODULE RouteWalk ------------------------------
(***************************************************************************)
(* One packet walking the memory network, hop by hop: at each cube the     *)
(* crossbar asks findNextLink for the link towards the destination and the *)
(* link takes the packet to its peer.  An update starts at a host's root   *)
(* cube; an operand request of a split MULT, and every response, may start *)
(* at any cube.                                                            *)
(***************************************************************************)
EXTENDS Topology

CONSTANT Networks    \* pairs of gTopology and levels of the dragonfly or side of the mesh

ASSUME RouteAssumption == Networks \subseteq ({"DFLY"} \X (1..3)) \cup {<<"MESH", 4>>}

VARIABLES
  net,        \* the network the program was started with
  src, dst,   \* SRCCUB and DESTCUB of the packet
  at,         \* the cube it is in
  via,        \* the link of cube at by which it came in
  hops        \* links crossed, counted up to MaxHops + 1

vars == <<net, src, dst, at, via, hops>>

Topo == net[1]
Size == net[2]

Cubes == IF Topo = "DFLY" THEN 0..(4^Size - 1) ELSE 0..(Size * Size - 1)
Roots == IF Topo = "DFLY" THEN dFlyRoots(Size) ELSE meshRoots

findNextLink(c, d, req) ==
  IF Topo = "DFLY" THEN dFlyNextLink(Size, c, d) ELSE meshNextLink(Size, c, d, req)

Peer(c, l) == IF Topo = "DFLY" THEN dFlyPeer(Size, c, l) ELSE meshPeer(Size, c, l)

neighborCubeID(c, l) == Peer(c, l).cube

(* A shortest path crosses at most 2^Size - 1 links of the dragonfly and   *)
(* 2*(Size-1) of the mesh.                                                 *)
MaxHops == IF Topo = "DFLY" THEN 2^Size - 1 ELSE 2 * (Size - 1)

(* A packet enters its first cube by the link findNextLink names for that  *)
(* cube itself, which at a root is the link of the host controller.        *)
Init ==
  /\ net \in Networks
  /\ src \in Cubes /\ dst \in Cubes
  /\ at = src
  /\ via = findNextLink(src, src, TRUE)
  /\ hops = 0

Hop ==
  /\ at # dst
  /\ LET far == Peer(at, findNextLink(at, dst, FALSE))
     IN  at' = far.cube /\ via' = far.link
  /\ hops' = IF hops > MaxHops THEN hops ELSE hops + 1
  /\ UNCHANGED <<net, src, dst>>

Arrived == at = dst /\ UNCHANGED vars

Next == Hop \/ Arrived

Spec == Init /\ [][Next]_vars

-----------------------------------------------------------------------------
(* Every cube computes the parent of an update from the packet's SRCCUB    *)
(* with req = TRUE (CrossbarSwitch.cpp:332-333).  For an update of a host  *)
(* that is the link by which the update came in, so all updates of a flow  *)
(* agree on the parent, whatever operands they are for, and the gather     *)
(* response goes back to the cube that counted the update.                 *)
ParentIsSender ==
  src \in Roots => findNextLink(at, src, TRUE) = via

(* A gather is sent to the neighbour behind each child link, and the       *)
(* crossbar asserts that routing to that neighbour picks the child link    *)
(* itself (CrossbarSwitch.cpp:580); the response of the child is credited  *)
(* to the link that routing to the child picks.                            *)
NeighbourIsDirect ==
  \A l \in Links : LET n == neighborCubeID(at, l)
                   IN  n # at => findNextLink(at, n, FALSE) = l

(* The two directions of a link join the same two ports: the link master   *)
(* of port l and the link slave of port l talk to the same neighbour.      *)
LinksArePaired ==
  \A l \in Links : neighborCubeID(at, l) # at =>
     Peer(neighborCubeID(at, l), Peer(at, l).link) = [cube |-> at, link |-> l]

(* Routing never sends a packet to a host controller on its way, nor round *)
(* in circles: it is at its destination after MaxHops hops at most.        *)
Minimal == hops <= MaxHops
=============================================================================
