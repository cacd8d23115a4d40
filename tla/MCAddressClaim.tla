---------------------------- MODULE MCAddressClaim ----------------------------
(* AddressClaim on a small instance: three nodes, two of which prefer one      *)
(* address, and two addresses, so that all three on at once meet at the last.   *)
EXTENDS AddressClaim

MCName      == [n \in Nodes |-> n]
MCPreferred == [n \in Nodes |-> IF n = 3 THEN 1 ELSE 0]
=============================================================================
