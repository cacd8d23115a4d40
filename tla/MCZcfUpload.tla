----------------------------- MODULE MCZcfUpload -----------------------------
(* ZcfUpload on a small instance: chunks of two units. *)
EXTENDS ZcfUpload

CONSTANTS short,  \* the last block is a short one: 3 units, blocks 2 + 1 + 0
          exact,  \* a multiple of the chunk: 4 units, blocks 2 + 2 + 0
          tiny,   \* one short block: 1 unit, blocks 1 + 0
          long,   \* 5 units, blocks 2 + 2 + 1 + 0
          t1, t2  \* the configuration tools

MCSize     == [c \in Configs |-> CASE c = short -> 3 [] c = exact -> 4 [] c = long -> 5 [] OTHER -> 1]
MCFile(c)  == [i \in 1 .. MCSize[c] |-> <<c, i>>]
MCCrcValid == {MCFile(c) : c \in Configs}
=============================================================================
