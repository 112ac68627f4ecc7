---------------------------- MODULE LinkChannel -----------------------------
(***************************************************************************)
(* What a pair of links promises the switches and controllers at its ends: *)
(* requests and responses travel in channels of their own, in each         *)
(* direction, and every channel is a FIFO that loses and repeats nothing.  *)
(* ActiveRouting uses its links as such channels.                          *)
(***************************************************************************)
EXTENDS Sequences

CONSTANTS
  Channels,   \* one per direction and kind of packet
  Packets     \* packets, told apart by their tags

VARIABLE chan   \* chan[k]: packets handed over at one end and not yet taken at the other

Init == chan = [k \in Channels |-> <<>>]

Send(k, d) == chan' = [chan EXCEPT ![k] = Append(@, d)]

Take(k) ==
  /\ chan[k] # <<>>
  /\ chan' = [chan EXCEPT ![k] = Tail(@)]

(* A step that leaves every channel alone is a stuttering step.            *)
Next == \E k \in Channels :
  /\ chan'[k] # chan[k]
  /\ Take(k) \/ \E d \in Packets : Send(k, d)

Spec == Init /\ [][Next]_chan
=============================================================================
