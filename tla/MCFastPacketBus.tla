---------------------------- MODULE MCFastPacketBus ----------------------------
(* FastPacketBus on a small instance: two senders of the same message of two   *)
(* frames with two sequence numbers, and arbitrary frames of a stranger,       *)
(* compete for two sessions.                                                   *)
EXTENDS FastPacketBus, TLC

CONSTANTS f1, k1,  \* the flow; a stranger
          s1, s2

MCSlots  == 1 .. 2
MCFlow   == [s \in Senders |-> f1]
MCKeys   == FlowKeys \cup Strangers
MCMsgs   == (Senders \X Counts) \cup {<<k1, 0>>}
Symmetry == Permutations(Senders)
MCLength == [s \in Senders |-> 8]
=============================================================================
