--------------------------- MODULE MCZcfArbitration ---------------------------
(* ZcfArbitration with the times of the code, in units of 10 ms, but for the    *)
(* claim window, which only has to be open for a while.                         *)
EXTENDS ZcfArbitration

MCVersion == [b \in Boards |-> IF b = 80 THEN 1 ELSE 0]
=============================================================================
