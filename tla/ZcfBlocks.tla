------------------------------ MODULE ZcfBlocks ------------------------------
(***************************************************************************)
(* A ZCF configuration as it travels over the bus.  The data is abstracted *)
(* to cells <<c, i>>, "the i-th unit of configuration c", so that a file   *)
(* shows which configuration and which offset every part of it came from.  *)
(***************************************************************************)
EXTENDS Naturals, Sequences

CONSTANTS
  Configs,      \* the configuration files
  Size,         \* Size[c]: the length of configuration c
  Chunk         \* ZCF_DATABLOCK_CHUNK_MAX

Cells == Configs \X (Nat \ {0})
File(c) == [i \in 1 .. Size[c] |-> <<c, i>>]

\* Block k of configuration c: full chunks, then what is left, then nothing.
Chunks(c) == (Size[c] + Chunk - 1) \div Chunk
Left(c, k) == IF k * Chunk < Size[c] THEN Size[c] - k * Chunk ELSE 0
Block(c, k) ==
  [subcode |-> k,
   chunk   |-> [i \in 1 .. (IF Left(c, k) < Chunk THEN Left(c, k) ELSE Chunk)
                  |-> <<c, k * Chunk + i>>]]
=============================================================================
