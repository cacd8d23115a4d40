------------------------------ MODULE LossyFifo ------------------------------
(***************************************************************************)
(* What the protocol layer may rely on when it receives frames: they come  *)
(* in the order in which they were on the bus, each at most once; some may *)
(* be missing; what is not lost is delivered in the end.  Frames are       *)
(* numbered in the order of the bus.                                       *)
(***************************************************************************)
EXTENDS Naturals

VARIABLES
  arrived,  \* how many frames have been on the bus
  pending,  \* those that are under way
  last      \* the last one that was delivered

fifo == <<arrived, pending, last>>

Init == arrived = 0 /\ pending = {} /\ last = 0

\* A frame may be lost as soon as it arrives.
Arrive ==
  /\ arrived' = arrived + 1
  /\ pending' \in {pending, pending \cup {arrived + 1}}
  /\ UNCHANGED last

Deliver ==
  /\ \E i \in pending : /\ \A j \in pending : i <= j
                        /\ last' = i
                        /\ pending' = pending \ {i}
  /\ UNCHANGED arrived

Lose ==
  /\ pending' \in SUBSET pending
  /\ UNCHANGED <<arrived, last>>

Next == Arrive \/ Deliver \/ Lose

Spec == Init /\ [][Next]_fifo /\ WF_fifo(Deliver)

Safety == Init /\ [][Next]_fifo
=============================================================================
