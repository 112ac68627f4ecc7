------------------------------ MODULE Topology ------------------------------
(***************************************************************************)
(* The two memory-network topologies that Active-Routing runs on, as pure  *)
(* operators: which link the routing function picks at a cube              *)
(* (RoutingFunction.cpp), and where that link leads (the constructors of   *)
(* DFly and MeshNet in Network.cpp, HMC::RegisterNeighbors).               *)
(*                                                                         *)
(* A cube has the four links 0..3.  Peer operators return the cube and the *)
(* link at the other end; a link to a host controller returns the cube     *)
(* itself, as RegisterNeighbors does.                                      *)
(***************************************************************************)
EXTENDS Integers, FiniteSetsExt

Links == 0..3     \* NUM_LINKS = 4

-----------------------------------------------------------------------------
(***************************************************************************)
(* Dragonfly: the cube number is read in base 4, one digit per level of    *)
(* the hierarchy, the least significant digit being the place in the quad. *)
(* levels is 2 for the 4x4 network and 3 for the 8x8 one.                  *)
(***************************************************************************)
Digit(n, k) == (n \div 4^k) % 4

(* Digits on which two cubes differ: the while loop of findNextLink walks  *)
(* the levels from the top and stops at the first one.                     *)
DiffLevels(levels, c, d) == {k \in 0..levels-1 : Digit(c, k) # Digit(d, k)}

dFlyNextLink(levels, c, d) ==
  IF c = d THEN Digit(c, 0) ELSE Digit(d, Max(DiffLevels(levels, c, d)))

(* Mutants: the far end has the number of the near end; a link leads to    *)
(* the neighbour after the one of its number.                              *)
dFlyPeerSame(levels, c, l) ==
  LET other == {k \in 0..levels-1 : Digit(c, k) # l}
      k     == Min(other)
      port  == Digit(c, k)
  IN  IF other = {} THEN [cube |-> c, link |-> l]
      ELSE [cube |-> (c \div 4^(k+1)) * 4^(k+1) + l * 4^k + port * ((4^k - 1) \div 3),
            link |-> l]

dFlyPeerNext(levels, c, l) ==
  LET other == {k \in 0..levels-1 : Digit(c, k) # l}
      k     == Min(other)
      port  == Digit(c, k)
  IN  IF other = {} THEN [cube |-> c, link |-> l]
      ELSE [cube |-> (c \div 4^(k+1)) * 4^(k+1) + ((l + 1) % 4) * 4^k + port * ((4^k - 1) \div 3),
            link |-> port]

(* Link l of cube c joins, at the lowest level where c's digit is not l,   *)
(* the virtual routers that differ in that digit; inside a virtual router  *)
(* the port is the cube all of whose lower digits are the port's number.   *)
dFlyPeer(levels, c, l) ==
  LET other == {k \in 0..levels-1 : Digit(c, k) # l}
      k     == Min(other)
      port  == Digit(c, k)
  IN  IF other = {} THEN [cube |-> c, link |-> l]
      ELSE [cube |-> (c \div 4^(k+1)) * 4^(k+1) + l * 4^k + port * ((4^k - 1) \div 3),
            link |-> port]

(* The cubes that carry a host controller, PTSHMCController::get_src_cubeID. *)
dFlyRoots(levels) == {n * ((4^levels - 1) \div 3) : n \in 0..3}

-----------------------------------------------------------------------------
(***************************************************************************)
(* Mesh of dim x dim cubes.  Requests are routed X first; req = TRUE asks  *)
(* for the Y-first link, which the crossbar uses to find the parent of an  *)
(* update.                                                                 *)
(***************************************************************************)
LEFT_LINK  == 0
TOP_LINK   == 1
RIGHT_LINK == 2
BOT_LINK   == 3

findX(dim, c) == c % dim
findY(dim, c) == c \div dim

StepX(x, dx) == IF x > dx THEN LEFT_LINK ELSE RIGHT_LINK
StepY(y, dy) == IF y > dy THEN TOP_LINK ELSE BOT_LINK

(* Mutant: req is ignored, the route back is X first too.                  *)
meshNextLinkXFirst(dim, c, d, req) ==
  LET x == findX(dim, c)  dx == findX(dim, d)
      y == findY(dim, c)  dy == findY(dim, d)
  IN  CASE x = dx /\ y = dy -> IF x = 0 THEN LEFT_LINK ELSE RIGHT_LINK
        [] x = dx /\ y # dy -> StepY(y, dy)
        [] OTHER            -> StepX(x, dx)

(* Mutant: left and right are exchanged where the X direction is chosen.   *)
meshNextLinkAway(dim, c, d, req) ==
  LET x == findX(dim, c)  dx == findX(dim, d)
      y == findY(dim, c)  dy == findY(dim, d)
  IN  CASE x = dx /\ y = dy -> IF x = 0 THEN LEFT_LINK ELSE RIGHT_LINK
        [] x = dx /\ y # dy -> StepY(y, dy)
        [] x # dx /\ y = dy -> StepX(x, dx)
        [] OTHER            -> IF req THEN StepY(y, dy) ELSE StepX(dx, x)

meshNextLink(dim, c, d, req) ==
  LET x == findX(dim, c)  dx == findX(dim, d)
      y == findY(dim, c)  dy == findY(dim, d)
  IN  CASE x = dx /\ y = dy -> IF x = 0 THEN LEFT_LINK ELSE RIGHT_LINK
        [] x = dx /\ y # dy -> StepY(y, dy)
        [] x # dx /\ y = dy -> StepX(x, dx)
        [] OTHER            -> IF req THEN StepY(y, dy) ELSE StepX(x, dx)

meshPeer(dim, c, l) ==
  LET x == findX(dim, c)  y == findY(dim, c)
  IN  CASE l = LEFT_LINK  /\ x > 0       -> [cube |-> c - 1,   link |-> RIGHT_LINK]
        [] l = RIGHT_LINK /\ x < dim - 1 -> [cube |-> c + 1,   link |-> LEFT_LINK]
        [] l = TOP_LINK   /\ y > 0       -> [cube |-> c - dim, link |-> BOT_LINK]
        [] l = BOT_LINK   /\ y < dim - 1 -> [cube |-> c + dim, link |-> TOP_LINK]
        [] OTHER                         -> [cube |-> c, link |-> l]

meshRoots == {0, 3, 12, 15}     \* "Works only for 4x4"
=============================================================================
