---------------------------- MODULE MCRouteWalk -----------------------------
(***************************************************************************)
(* RouteWalk over the networks the program can be configured with: the     *)
(* dragonflies of 16 and 64 cubes and the mesh of 16.                      *)
(***************************************************************************)
EXTENDS RouteWalk

MCNetworks == {<<"DFLY", 2>>, <<"DFLY", 3>>, <<"MESH", 4>>}
=============================================================================
