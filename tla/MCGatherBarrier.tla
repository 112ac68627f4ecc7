--------------------------- MODULE MCGatherBarrier --------------------------
(***************************************************************************)
(* GatherBarrier with two threads and two ports.                           *)
(***************************************************************************)
EXTENDS GatherBarrier

CONSTANTS t1, t2

(* Each thread gathers at a port of its own.                               *)
MCPortOf == (t1 :> 0) @@ (t2 :> 1)

(* Both threads gather at the first port.                                  *)
MCPortShared == (t1 :> 0) @@ (t2 :> 0)
=============================================================================
