----------------------- MODULE MCZcfArbitrationTangled -----------------------
(* Five modules whose back-offs are 30 ms apart and five requests, each made at *)
(* a given time and heard by given modules: one course of ZcfArbitration in     *)
(* which modules that have been cancelled in their delay take up later requests *)
(* and win late, two of them at the same time.                                  *)
EXTENDS ZcfArbitration

MCVersion == [b \in Boards |-> 1]

VARIABLE now            \* the ticks so far

\* The n-th request is made at Time[nth] and arrives at Hearers[nth].
Time    == <<0, 83, 85, 135, 229>>
Hearers == <<{96}, {24, 72}, {0, 48}, {0, 24}, {0, 24, 48}>>

nth == MaxRequests - requests + 1

TimelyRequest ==
  /\ ReadRequest
  /\ now = Time[nth] /\ now' = now
  /\ \A b \in Boards : inbox'[b] # inbox[b] <=> b \in Hearers[nth]

NextTick ==
  /\ Tick
  /\ nth \in DOMAIN Time => now < Time[nth]
  /\ now' = now + 1

\* Of all orders in which modules handle what has arrived this course has one.
InTurn(b) == \A c \in Boards : c < b => inbox[c] = <<>>
DataOnly  == \A c \in Boards : inbox[c] # <<>> => Head(inbox[c]).kind = "data"

NextStep ==
  /\ \E b \in Boards : (Handler(b) /\ InTurn(b)) \/ (Task(b) /\ DataOnly)
  /\ now' = now

TangledSpec ==
  Init /\ now = 0 /\ [][TimelyRequest \/ NextTick \/ NextStep]_<<vars, now>>
=============================================================================
