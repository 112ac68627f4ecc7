------------------------------- MODULE MCLink -------------------------------
(* Instances of LinkFlowControl for TLC.                                   *)
EXTENDS LinkFlowControl

CONSTANTS
  From0, From1,   \* packets of the two ends
  Long            \* packets of two flits, the others have one

MCSends == [e \in Ends |-> IF e = 0 THEN From0 ELSE From1]
MCLNG == [d \in Data |-> IF d \in Long THEN 2 ELSE 1]
=============================================================================
