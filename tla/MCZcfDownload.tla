---------------------------- MODULE MCZcfDownload ----------------------------
(* ZcfDownload on a small instance: chunks of two units, files of two blocks *)
(* (3 units), of two full blocks (4) and of one (1), and the terminator.     *)
EXTENDS ZcfDownload

CONSTANTS short, exact, tiny,  \* the files
          m1                   \* another module

MCSize == [c \in Configs |-> CASE c = short -> 3 [] c = exact -> 4 [] OTHER -> 1]
=============================================================================
