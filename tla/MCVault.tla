------------------------------- MODULE MCVault ------------------------------
(* Instances of Vault for TLC: two banks; w has the bank of a.             *)
EXTENDS Vault

CONSTANTS a, d, w, x   \* requests

MCCMD == [r \in Requests |->
  CASE r = a -> "ADD16" [] r = d -> "RD" [] r = w -> "WR" [] r = x -> "PEI_DOT"]
MCBank == [r \in Requests |-> IF r \in {a, w} THEN 0 ELSE 1]
MCRow == [r \in Requests |-> IF r = w THEN 1 ELSE 0]
MCLNG == [r \in Requests |-> IF r = d THEN 1 ELSE 2]
MCreqDataSize == [r \in Requests |-> IF r = d THEN 64 ELSE 16]
=============================================================================
