----------------------------- MODULE Reduction ------------------------------
(***************************************************************************)
(* What Active-Routing promises a program: the updates of a flow, however  *)
(* many cubes share the work and in whatever order they finish, are one    *)
(* sum, and a gather is answered when that sum has reached the target.     *)
(***************************************************************************)
EXTENDS Naturals

CONSTANTS
  Flows,      \* flow IDs
  MaxLines    \* cache lines of the largest update

VARIABLES
  phase,    \* phase[f]: sending updates, waiting for the gather, or answered
  issued,   \* issued[f]: lines the updates of this round cover
  total     \* total[f]: lines the target has received when it is answered

vars == <<phase, issued, total>>

Init ==
  /\ phase = [f \in Flows |-> "update"]
  /\ issued = [f \in Flows |-> 0]
  /\ total = [f \in Flows |-> 0]

Update(f) ==
  /\ phase[f] = "update"
  /\ \E n \in 1..MaxLines : issued' = [issued EXCEPT ![f] = @ + n]
  /\ UNCHANGED <<phase, total>>

Gather(f) ==
  /\ phase[f] = "update" /\ issued[f] > 0
  /\ phase' = [phase EXCEPT ![f] = "gather"]
  /\ UNCHANGED <<issued, total>>

(* Nothing missing, nothing twice.                                         *)
Answer(f) ==
  /\ phase[f] = "gather"
  /\ phase' = [phase EXCEPT ![f] = "answered"]
  /\ total' = [total EXCEPT ![f] = issued[f]]
  /\ UNCHANGED issued

Finish(f) ==
  /\ phase[f] = "answered"
  /\ phase' = [phase EXCEPT ![f] = "update"]
  /\ issued' = [issued EXCEPT ![f] = 0]
  /\ total' = [total EXCEPT ![f] = 0]

Next == \E f \in Flows : Update(f) \/ Gather(f) \/ Answer(f) \/ Finish(f)

Spec == Init /\ [][Next]_vars
=============================================================================
