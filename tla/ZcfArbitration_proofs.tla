------------------------ MODULE ZcfArbitration_proofs ------------------------
(***************************************************************************)
(* The election of the module that answers a read request, for any set of  *)
(* modules and holders, and whoever hears the request: the types of its    *)
(* state, and that the lowest holder that heard the request is the one     *)
(* that sends, and that nobody else answers, wherever the back-offs of the *)
(* modules are further apart than a data block takes.                      *)
(***************************************************************************)
EXTENDS ZcfArbitration, FiniteSetTheorems, TLAPS

Message == [kind : Kinds, seq : 0 .. 255]

LEMMA MessageTypes ==
  /\ Request \in Message
  /\ \A b \in Boards : {SizeClaim(b), ModuleClaim(b), DataBlock(b)} \subseteq Message
BY ArbitrationAssumption DEF Message, Kinds, Request, SizeClaim, ModuleClaim, DataBlock

LEMMA BackOffType == \A b \in Boards : BackOff(b) \in 20 .. 51
BY ArbitrationAssumption DEF BackOff

LEMMA AppendType ==
  ASSUME NEW S, NEW q \in Seq(S), NEW e \in S
  PROVE  Append(q, e) \in Seq(S)
OBVIOUS

LEMMA TailType ==
  ASSUME NEW S, NEW q \in Seq(S), q # <<>>
  PROVE  Tail(q) \in Seq(S)
OBVIOUS

Boxes == [Boards -> Seq(Message)]

LEMMA BroadcastType ==
  ASSUME NEW b \in Boards, NEW m \in Message, NEW boxes \in Boxes
  PROVE  Broadcast(b, m, boxes) \in Boxes
<1>1. \A c \in Boards : Append(boxes[c], m) \in Seq(Message)
  BY AppendType DEF Boxes
<1> QED
  BY <1>1 DEF Broadcast, Boxes

LEMMA TakenType ==
  ASSUME inbox \in Boxes, NEW b \in Boards, inbox[b] # <<>>
  PROVE  Taken(b) \in Boxes
BY TailType DEF Taken, Boxes

\* The types but for the boxes.
Flags ==
  /\ s_zcf_arb_pending \in [Boards -> BOOLEAN]
  /\ arb_timer \in [Boards -> Nat]
  /\ s_zcf_send_requested \in [Boards -> BOOLEAN]
  /\ s_zcf_send_active \in [Boards -> BOOLEAN]

Places == [Boards -> {"wait", "won", "delay", "announce", "send"}]

Timers ==
  /\ claim_timer \in [Boards -> 0 .. ClaimWindow]
  /\ delay \in [Boards -> 0 .. TriggerDelay]
  /\ block \in [Boards -> 0 .. BlockTime]

Counts ==
  /\ requests \in Nat
  /\ sends \in Nat
  /\ slipped \in BOOLEAN
  /\ heard \subseteq Holders

LEMMA TypesParts ==
  TypeOK <=> Flags /\ pc \in Places /\ Timers /\ Counts /\ inbox \in Boxes
BY DEF TypeOK, Flags, Places, Timers, Counts, Boxes, Message

LEMMA BoundsAreNat == ClaimWindow \in Nat /\ TriggerDelay \in Nat /\ BlockTime \in Nat /\ MaxRequests \in Nat
BY ArbitrationAssumption

LEMMA TypesStart == Init => TypeOK
<1> SUFFICES ASSUME Init PROVE TypeOK
  OBVIOUS
<1>1. Flags /\ pc \in Places
  BY DEF Init, Flags, Places
<1>2. Timers
  BY BoundsAreNat DEF Init, Timers
<1>3. inbox \in Boxes
  BY DEF Init, Boxes
<1>4. Counts
  BY BoundsAreNat DEF Init, Counts
<1> QED
  BY <1>1, <1>2, <1>3, <1>4, TypesParts

LEMMA HandlerTypes ==
  ASSUME TypeOK, NEW b \in Boards, Handler(b)
  PROVE  TypeOK'
<1>1. Flags /\ pc \in Places /\ Timers /\ Counts /\ inbox \in Boxes
  BY TypesParts
<1>2. Taken(b) \in Boxes
  BY <1>1, TakenType DEF Handler, HandleClaim, HandleRequest, HandleDataBlock, Receive
<1>3. inbox' \in Boxes
  <2>1. inbox' = Taken(b) \/ inbox' = Broadcast(b, ModuleClaim(b), Taken(b))
    BY DEF Handler, HandleClaim, HandleRequest, HandleDataBlock
  <2> QED
    BY <1>2, <2>1, MessageTypes, BroadcastType
<1>4. Flags'
  <2>1. CASE HandleClaim(b)
    <3>1. \E x \in BOOLEAN : s_zcf_arb_pending' = [s_zcf_arb_pending EXCEPT ![b] = x]
      BY <1>1, <2>1 DEF HandleClaim, Flags
    <3> QED
      BY <1>1, <2>1, <3>1 DEF HandleClaim, Flags
  <2>2. CASE HandleRequest(b)
    <3>1. BackOff(b) \in Nat
      BY BackOffType
    <3>2. /\ s_zcf_arb_pending' \in {s_zcf_arb_pending, [s_zcf_arb_pending EXCEPT ![b] = TRUE]}
          /\ arb_timer' \in {arb_timer, [arb_timer EXCEPT ![b] = BackOff(b)]}
          /\ UNCHANGED <<s_zcf_send_requested, s_zcf_send_active>>
      BY <2>2 DEF HandleRequest
    <3> QED
      BY <1>1, <3>1, <3>2 DEF Flags
  <2>3. CASE HandleDataBlock(b)
    BY <1>1, <2>3 DEF HandleDataBlock, Flags
  <2> QED
    BY <2>1, <2>2, <2>3 DEF Handler
<1>5. pc' \in Places
  BY <1>1 DEF Handler, HandleClaim, HandleRequest, HandleDataBlock
<1>6. Timers'
  BY <1>1, BoundsAreNat DEF Handler, HandleClaim, HandleRequest, HandleDataBlock, Timers
<1>7. Counts'
  <2>1. requests' = requests /\ sends' = sends
    BY DEF Handler, HandleClaim, HandleRequest, HandleDataBlock, history
  <2>2. heard' = heard \/ (b \in Holders /\ heard' = heard \cup {b})
    BY DEF Handler, HandleClaim, HandleRequest, HandleDataBlock, history
  <2>3. slipped' = slipped \/ slipped' = (slipped \/ pc[b] = "announce")
    BY DEF Handler, HandleClaim, HandleRequest, HandleDataBlock, history
  <2> QED
    BY <1>1, <2>1, <2>2, <2>3 DEF Counts
<1> QED
  BY <1>3, <1>4, <1>5, <1>6, <1>7, TypesParts DEF TypeOK, Flags, Places, Timers, Counts, Boxes, Message

LEMMA TaskTypes ==
  ASSUME TypeOK, NEW b \in Boards, Task(b)
  PROVE  TypeOK'
<1>1. Flags /\ pc \in Places /\ Timers /\ Counts /\ inbox \in Boxes
  BY TypesParts
<1> USE DEF Task, FindElapsed, Win, Withdraw, StartSend, AnnounceSize, BlockArrives
<1>2. Flags'
  BY <1>1 DEF Flags, flags
<1>3. pc' \in Places
  BY <1>1 DEF Places, Goto
<1>4. Timers'
  BY <1>1, BoundsAreNat DEF Timers
<1>5. Counts'
  BY <1>1 DEF Counts, history
<1>6. inbox' \in Boxes
  <2>1. inbox' = inbox \/ \E m \in Message : inbox' = Broadcast(b, m, inbox)
    BY MessageTypes
  <2> QED
    BY <1>1, <2>1, BroadcastType
<1> QED
  BY <1>2, <1>3, <1>4, <1>5, <1>6 DEF TypeOK, Flags, Places, Timers, Counts, Boxes, Message

LEMMA LessType ==
  ASSUME NEW n \in Nat, NEW timer \in [Boards -> 0 .. n]
  PROVE  Less(timer) \in [Boards -> 0 .. n]
BY DEF Less

LEMMA TypesStep ==
  ASSUME TypeOK, [Next]_vars
  PROVE  TypeOK'
<1>1. CASE ReadRequest
  <2>1. inbox' \in Boxes
    <3>1. inbox \in Boxes /\ \A c \in Boards : inbox[c] \in Seq(Message)
      BY TypesParts DEF Boxes
    <3>2. \A c \in Boards : Append(inbox[c], Request) \in Seq(Message)
      BY <3>1, MessageTypes, AppendType
    <3> QED
      BY <1>1, <3>1, <3>2 DEF ReadRequest, Boxes
  <2>2. requests' \in Nat
    BY <1>1 DEF ReadRequest, TypeOK
  <2> QED
    BY <1>1, <2>1, <2>2 DEF ReadRequest, TypeOK, flags, Boxes, Message
<1>2. CASE Tick
  <2>1. claim_timer' \in [Boards -> 0 .. ClaimWindow] /\ delay' \in [Boards -> 0 .. TriggerDelay]
        /\ block' \in [Boards -> 0 .. BlockTime]
    BY <1>2, LessType, BoundsAreNat DEF Tick, TypeOK
  <2>2. arb_timer' \in [Boards -> Nat]
    BY <1>2 DEF Tick, TypeOK, Less
  <2> QED
    BY <1>2, <2>1, <2>2 DEF Tick, TypeOK, history
<1>3. ASSUME NEW b \in Boards, Advertise(b) PROVE TypeOK'
  <2>1. inbox' \in Boxes
    BY <1>3, MessageTypes, BroadcastType, TypesParts DEF Advertise
  <2> QED
    BY <1>3, <2>1 DEF Advertise, TypeOK, flags, history, Boxes, Message
<1>4. CASE UNCHANGED vars
  BY <1>4 DEF TypeOK, vars, flags, history
<1> QED
  BY <1>1, <1>2, <1>3, <1>4, HandlerTypes, TaskTypes DEF Next

\* The types of the election: timers stay within their limits, and only a module
\* that has a ZCF ever backs off.
THEOREM TypeCorrect == Spec => []TypeOK
BY TypesStart, TypesStep, PTL DEF Spec

-----------------------------------------------------------------------------
(* Who sends *)

\* The back-offs of the holders are further apart than a data block takes, so that
\* the next in line hears the block before it begins itself.
Spaced == \A b, c \in Holders : b < c => BackOff(b) + BlockTime < BackOff(c)

\* No second request has been made.
OneRequest == requests + 1 >= MaxRequests

\* The request is still arriving: no time has passed since.
Asked ==
  \A b \in Boards :
    /\ pc[b] = "wait" /\ ~s_zcf_send_requested[b] /\ claim_timer[b] = 0
    /\ b \in heard => s_zcf_arb_pending[b] /\ arb_timer[b] = BackOff(b)
    /\ b \notin heard => ~s_zcf_arb_pending[b]
    /\ inbox[b] = <<>> \/ (b \notin heard /\ inbox[b] = <<Request>>)

Quiet == Asked /\ heard = {} /\ \A b \in Boards : inbox[b] = <<>>

\* A module that took the request up: it backs off, has found that it is over, or
\* waits to send; and the time until it sends.
Racing(b) ==
  \/ pc[b] = "wait" /\ s_zcf_arb_pending[b] /\ ~s_zcf_send_requested[b]
  \/ pc[b] = "won" /\ ~s_zcf_send_requested[b]
  \/ pc[b] = "delay" /\ ~s_zcf_arb_pending[b] /\ s_zcf_send_requested[b]

Left(b) == IF pc[b] = "wait" THEN arb_timer[b] + TriggerDelay
           ELSE IF pc[b] = "won" THEN TriggerDelay ELSE delay[b]

\* Those that took it up are as far apart as their back-offs, and nobody has sent.
Running ==
  /\ \A b \in Boards :
       /\ inbox[b] = <<>> /\ claim_timer[b] = 0
       /\ b \in heard => Racing(b)
       /\ b \notin heard => /\ pc[b] = "wait"
                            /\ ~s_zcf_arb_pending[b] /\ ~s_zcf_send_requested[b]
  /\ \A b, c \in heard : Left(c) + BackOff(b) = Left(b) + BackOff(c)

Holds(kinds, q) == \E i \in 1 .. Len(q) : q[i].kind \in kinds
Heard(kinds, c) == Holds(kinds, inbox[c])

\* The lowest sends, or has sent.  Whoever still waits to send has heard a data
\* block of it, or will before its own time comes.
Leads(m) ==
  /\ \A c \in heard : m <= c
  /\ \A c \in Boards : ~Heard({"request"}, c)
  /\ pc[m] \in {"announce", "send", "wait"}
  /\ ~s_zcf_arb_pending[m] /\ ~s_zcf_send_requested[m]
  /\ \A c \in Boards \ {m} :
       /\ pc[c] \in {"wait", "delay"} /\ ~s_zcf_arb_pending[c]
       /\ s_zcf_send_requested[c] =>
            \/ delay[c] > 0 /\ Heard({"data"}, c)
            \/ pc[m] = "announce" /\ delay[c] > BlockTime
            \/ pc[m] = "send" /\ delay[c] > block[m]

RaceInv ==
  /\ requests <= MaxRequests
  /\ OneRequest => /\ requests = MaxRequests => Quiet
                   /\ Asked \/ Running \/ \E m \in heard : Leads(m)

\* A back-off is never so long that a module still backs off when one that took up
\* the same request sends.
LEMMA BackOffsClose == \A b, c \in Boards : BackOff(c) <= BackOff(b) + 31
BY BackOffType

LEMMA OneMessage ==
  ASSUME NEW m
  PROVE  /\ <<m>> # <<>> /\ Head(<<m>>) = m /\ Tail(<<m>>) = <<>>
         /\ Append(<<>>, m) = <<m>>
OBVIOUS

LEMMA QuietStart == Init => RaceInv
<1> SUFFICES ASSUME Init PROVE RaceInv
  OBVIOUS
<1>1. Quiet
  BY DEF Init, Quiet, Asked
<1>2. requests = MaxRequests
  BY DEF Init
<1> QED
  BY <1>1, <1>2, BoundsAreNat DEF RaceInv, Quiet

LEMMA AskedTakesUp ==
  ASSUME TypeOK, Asked, NEW b \in Boards, HandleRequest(b)
  PROVE  Asked'
<1>1. /\ b \notin heard /\ inbox[b] = <<Request>>
  BY DEF Asked, HandleRequest, Receive
<1>2. inbox' = [inbox EXCEPT ![b] = <<>>]
  BY <1>1, OneMessage DEF HandleRequest, Taken
<1>3. UNCHANGED <<pc, s_zcf_send_requested, claim_timer>>
  BY DEF HandleRequest
<1>4. CASE /\ s_zcf_arb_pending' = [s_zcf_arb_pending EXCEPT ![b] = TRUE]
           /\ arb_timer' = [arb_timer EXCEPT ![b] = BackOff(b)]
           /\ heard' = heard \cup {b}
  BY <1>1, <1>2, <1>3, <1>4 DEF Asked, TypeOK
<1>5. CASE UNCHANGED <<s_zcf_arb_pending, arb_timer, heard>>
  BY <1>1, <1>2, <1>3, <1>5 DEF Asked, TypeOK
<1> QED
  BY <1>4, <1>5 DEF HandleRequest

\* Nothing else happens while a request is arriving.
LEMMA AskedAlone ==
  ASSUME TypeOK, Asked, NEW b \in Boards, Handler(b) \/ Task(b) \/ Advertise(b)
  PROVE  HandleRequest(b)
<1>1. ~HandleClaim(b) /\ ~HandleDataBlock(b)
  BY OneMessage DEF Asked, HandleClaim, HandleDataBlock, Receive, Request
<1>2. ~Elapsed(b)
  <2>1. BackOff(b) # 0
    BY BackOffType
  <2> QED
    BY <2>1 DEF Asked, Elapsed
<1>3. ~Task(b)
  BY <1>2 DEF Asked, Task, FindElapsed, Win, Withdraw, StartSend, AnnounceSize, BlockArrives
<1>4. ~Advertise(b)
  BY DEF Asked, Advertise
<1> QED
  BY <1>1, <1>3, <1>4 DEF Handler

LEMMA AskedTick ==
  ASSUME TypeOK, Asked, Tick
  PROVE  Running' /\ (Quiet => Quiet')
<1>1. \A b \in Boards : inbox[b] = <<>>
  BY DEF Tick, Due
<1>2. UNCHANGED <<s_zcf_arb_pending, s_zcf_send_requested, pc, inbox, heard>>
  BY DEF Tick, history
<1>3. heard \subseteq Boards
  BY ArbitrationAssumption DEF TypeOK
<1>4. /\ \A b \in Boards : claim_timer'[b] = 0
      /\ \A b \in heard : arb_timer'[b] = BackOff(b) - 1
  <2>1. \A b \in Boards : claim_timer'[b] = 0
    BY DEF Tick, Less, Asked
  <2>2. ASSUME NEW b \in heard PROVE arb_timer'[b] = BackOff(b) - 1
    <3>1. b \in Boards /\ arb_timer[b] = BackOff(b)
      BY <1>3 DEF Asked
    <3>2. BackOff(b) > 0
      BY <3>1, BackOffType
    <3>3. arb_timer'[b] = IF arb_timer[b] > 0 THEN arb_timer[b] - 1 ELSE 0
      BY <3>1 DEF Tick, Less
    <3> QED
      BY <3>1, <3>2, <3>3
  <2> QED
    BY <2>1, <2>2
<1>5. \A b \in heard : Left(b)' = BackOff(b) - 1 + TriggerDelay
  BY <1>2, <1>4, <1>3 DEF Left, Asked
<1>6. \A b, c \in heard : Left(c)' + BackOff(b) = Left(b)' + BackOff(c)
  BY <1>3, <1>5, BackOffType, BoundsAreNat
<1>7. Running'
  BY <1>1, <1>2, <1>4, <1>6 DEF Running, Asked, Racing
<1>8. Quiet => Quiet'
  BY <1>1, <1>2, <1>4 DEF Quiet, Asked
<1> QED
  BY <1>7, <1>8

LEMMA QuietIsAsked ==
  ASSUME TypeOK, Quiet, ReadRequest
  PROVE  Asked'
<1>1. PICK missed \in SUBSET Boards :
        inbox' = [b \in Boards |-> IF b \in missed THEN inbox[b] ELSE Append(inbox[b], Request)]
  BY DEF ReadRequest
<1>2. \A b \in Boards : inbox'[b] = <<>> \/ inbox'[b] = <<Request>>
  BY <1>1, OneMessage DEF Quiet
<1> QED
  BY <1>2 DEF ReadRequest, Quiet, Asked, flags

LEMMA HeardAreBoards == TypeOK => heard \subseteq Boards /\ heard \subseteq Holders
BY ArbitrationAssumption DEF TypeOK

LEMMA RunningTask ==
  ASSUME TypeOK, Running, NEW b \in Boards, FindElapsed(b) \/ Win(b)
  PROVE  Running'
<1>1. UNCHANGED <<inbox, claim_timer, heard, arb_timer>>
  BY DEF FindElapsed, Win, flags, history
<1>2. b \in heard
  BY DEF Running, FindElapsed, Win, Elapsed
<1>3. \A c \in Boards \ {b} :
        /\ pc'[c] = pc[c] /\ delay'[c] = delay[c]
        /\ s_zcf_arb_pending'[c] = s_zcf_arb_pending[c]
        /\ s_zcf_send_requested'[c] = s_zcf_send_requested[c]
  BY DEF FindElapsed, Win, flags, Goto, TypeOK
<1>4. Racing(b)' /\ Left(b)' = Left(b)
  <2>1. CASE FindElapsed(b)
    <3>1. /\ pc[b] = "wait" /\ arb_timer[b] = 0 /\ pc'[b] = "won"
          /\ s_zcf_send_requested' = s_zcf_send_requested
      BY <2>1 DEF FindElapsed, Elapsed, Goto, flags, TypeOK
    <3>2. ~s_zcf_send_requested[b]
      BY <1>2, <3>1 DEF Running, Racing
    <3> QED
      BY <1>1, <3>1, <3>2, BoundsAreNat DEF Racing, Left
  <2>2. CASE Win(b)
    BY <2>2 DEF Win, Goto, TypeOK, Racing, Left
  <2> QED
    BY <2>1, <2>2
<1>5. \A c \in Boards : Left(c)' = Left(c)
  BY <1>1, <1>3, <1>4 DEF Left
<1>6. \A c \in heard : Racing(c)'
  BY <1>3, <1>4, HeardAreBoards DEF Running, Racing
<1>7. \A c, d \in heard : Left(d)' + BackOff(c) = Left(c)' + BackOff(d)
  BY <1>5, HeardAreBoards DEF Running
<1> QED
  BY <1>1, <1>2, <1>3, <1>6, <1>7 DEF Running

LEMMA LeftType == ASSUME TypeOK, NEW b \in Boards PROVE Left(b) \in Nat
BY BoundsAreNat DEF TypeOK, Left

LEMMA RunningTick ==
  ASSUME TypeOK, Running, Tick
  PROVE  Running'
<1>1. UNCHANGED <<inbox, heard, pc, s_zcf_arb_pending, s_zcf_send_requested>>
  BY DEF Tick, history
<1>2. \A b \in Boards : claim_timer'[b] = 0
  BY DEF Tick, Less, Running
<1>3. ASSUME NEW b \in heard PROVE Left(b)' = Left(b) - 1
  <2>1. b \in Boards /\ Racing(b) /\ ~Due(b)
    BY HeardAreBoards DEF Running, Tick
  <2>2. /\ arb_timer'[b] = IF arb_timer[b] > 0 THEN arb_timer[b] - 1 ELSE 0
        /\ delay'[b] = IF delay[b] > 0 THEN delay[b] - 1 ELSE 0
        /\ arb_timer[b] \in Nat /\ delay[b] \in Nat
    BY <2>1, BoundsAreNat DEF Tick, Less, TypeOK
  <2>3. CASE pc[b] = "wait"
    <3>1. arb_timer[b] # 0
      BY <2>1, <2>3 DEF Racing, Due, Elapsed
    <3> QED
      BY <1>1, <2>2, <2>3, <3>1, BoundsAreNat DEF Left
  <2>4. CASE pc[b] = "delay"
    <3>1. delay[b] # 0
      BY <2>1, <2>4 DEF Due
    <3> QED
      BY <1>1, <2>2, <2>4, <3>1 DEF Left
  <2> QED
    BY <2>1, <2>3, <2>4 DEF Racing, Due
<1>4. \A b, c \in heard : Left(c)' + BackOff(b) = Left(b)' + BackOff(c)
  <2>1. \A b \in heard : Left(b) \in Nat /\ BackOff(b) \in Nat
    <3>1. ASSUME NEW b \in Boards PROVE Left(b) \in Nat /\ BackOff(b) \in Nat
      <4>1. BackOff(b) \in Nat
        BY BackOffType
      <4> QED
        BY <4>1, LeftType
    <3> QED
      BY <3>1, HeardAreBoards
  <2>2. \A b, c \in heard : Left(c) + BackOff(b) = Left(b) + BackOff(c)
    BY DEF Running
  <2> QED
    BY <1>3, <2>1, <2>2
<1> QED
  BY <1>1, <1>2, <1>4 DEF Running, Racing

\* Whoever sends first is the lowest, and the others still wait, for longer than
\* its first data block takes.
LEMMA RunningSends ==
  ASSUME TypeOK, Spaced, TriggerDelay >= 32, Running, NEW b \in Boards, StartSend(b)
  PROVE  b \in heard' /\ Leads(b)'
<1>1. /\ pc[b] = "delay" /\ delay[b] = 0
      /\ UNCHANGED <<inbox, heard, delay, s_zcf_arb_pending>>
      /\ pc' = [pc EXCEPT ![b] = "announce"]
      /\ s_zcf_send_requested' = [s_zcf_send_requested EXCEPT ![b] = FALSE]
  BY DEF StartSend, Goto, history
<1>2. b \in heard /\ Racing(b) /\ Left(b) = 0
  BY <1>1 DEF Running, Left
<1>3. ASSUME NEW c \in heard, c # b PROVE Left(c) > BlockTime /\ Left(c) < TriggerDelay /\ b < c
  <2>1. /\ c \in Holders /\ b \in Holders /\ c \in Boards
        /\ c \in Nat /\ b \in Nat
    BY <1>2, HeardAreBoards, ArbitrationAssumption
  <2>2. Left(c) + BackOff(b) = BackOff(c)
    <3>1. Left(c) + BackOff(b) = 0 + BackOff(c)
      BY <1>2 DEF Running
    <3> QED
      BY <2>1, <3>1, BackOffType
  <2>3. Left(c) \in Nat /\ BackOff(b) \in Nat /\ BackOff(c) \in Nat /\ BackOff(c) <= BackOff(b) + 31
    BY <2>1, LeftType, BackOffType, BackOffsClose
  <2>4. ~(c < b)
    <3>1. SUFFICES ASSUME c < b PROVE FALSE
      OBVIOUS
    <3>2. BackOff(c) + BlockTime < BackOff(b)
      BY <2>1, <3>1 DEF Spaced
    <3> QED
      BY <2>2, <2>3, <3>2, BoundsAreNat
  <2>5. b < c
    BY <1>3, <2>1, <2>4
  <2>6. BackOff(b) + BlockTime < BackOff(c)
    BY <2>1, <2>5 DEF Spaced
  <2> QED
    BY <2>2, <2>3, <2>5, <2>6, BoundsAreNat
<1>4. ASSUME NEW c \in heard, c # b
      PROVE  pc[c] = "delay" /\ delay[c] > BlockTime /\ ~s_zcf_arb_pending[c]
  <2>1. c \in Boards /\ Racing(c) /\ Left(c) > BlockTime /\ Left(c) < TriggerDelay
    BY <1>3, <1>4, HeardAreBoards DEF Running
  <2>2. arb_timer[c] + TriggerDelay >= TriggerDelay
    BY <2>1, BoundsAreNat DEF TypeOK
  <2>3. pc[c] # "wait" /\ pc[c] # "won"
    <3>1. Left(c) \in Nat /\ arb_timer[c] + TriggerDelay \in Nat
      <4>1. arb_timer[c] + TriggerDelay \in Nat
        BY <2>1, BoundsAreNat DEF TypeOK
      <4> QED
        BY <2>1, <4>1, LeftType
    <3>2. pc[c] = "wait" => Left(c) = arb_timer[c] + TriggerDelay
      BY DEF Left
    <3>3. pc[c] = "won" => Left(c) = TriggerDelay
      BY DEF Left
    <3> QED
      BY <2>1, <2>2, <3>1, <3>2, <3>3, BoundsAreNat
  <2> QED
    BY <2>1, <2>3 DEF Racing, Left
<1>5. \A c \in heard : b <= c
  <2>1. \A c \in heard : c \in Nat
    <3>1. \A c \in 0 .. 255 : c \in Nat
      OBVIOUS
    <3>2. heard \subseteq 0 .. 255
      BY HeardAreBoards, ArbitrationAssumption
    <3> QED
      BY <3>1, <3>2
  <2>2. \A c \in heard : c = b \/ b < c
    BY <1>3
  <2> QED
    BY <1>2, <2>1, <2>2
<1>6. \A c \in Boards : ~Heard({"request"}, c)'
  <2>1. \A c \in Boards : inbox'[c] = <<>>
    BY <1>1 DEF Running
  <2> QED
    BY <2>1 DEF Heard, Holds
<1>7. ~s_zcf_arb_pending[b]
  BY <1>1, <1>2 DEF Racing
<1>8. \A c \in Boards \ {b} :
        /\ pc'[c] \in {"wait", "delay"} /\ ~s_zcf_arb_pending'[c]
        /\ s_zcf_send_requested'[c] => pc'[b] = "announce" /\ delay'[c] > BlockTime
  <2>1. ASSUME NEW c \in heard, c # b
        PROVE  pc'[c] = "delay" /\ ~s_zcf_arb_pending'[c] /\ delay'[c] > BlockTime
    BY <1>1, <1>4, <2>1, HeardAreBoards DEF TypeOK
  <2>2. ASSUME NEW c \in Boards \ heard, c # b
        PROVE  pc'[c] = "wait" /\ ~s_zcf_arb_pending'[c] /\ ~s_zcf_send_requested'[c]
    BY <1>1, <2>2 DEF Running, TypeOK
  <2>3. pc'[b] = "announce"
    BY <1>1 DEF TypeOK
  <2> QED
    BY <2>1, <2>2, <2>3
<1>9. pc'[b] = "announce" /\ ~s_zcf_send_requested'[b]
  BY <1>1 DEF TypeOK
<1> QED
  BY <1>1, <1>2, <1>5, <1>6, <1>7, <1>8, <1>9 DEF Leads

LEMMA RunningAlone ==
  ASSUME TypeOK, Running, NEW b \in Boards, Handler(b) \/ Task(b) \/ Advertise(b)
  PROVE  FindElapsed(b) \/ Win(b) \/ StartSend(b)
<1>1. ~Handler(b)
  BY DEF Running, Handler, HandleClaim, HandleRequest, HandleDataBlock, Receive
<1>2. ~Advertise(b)
  BY DEF Running, Advertise
<1>3. ~Withdraw(b) /\ ~AnnounceSize(b) /\ \A last \in BOOLEAN : ~BlockArrives(b, last)
  BY DEF Running, Racing, Withdraw, AnnounceSize, BlockArrives
<1> QED
  BY <1>1, <1>2, <1>3 DEF Task

\* What a box holds after a message has come or has been taken.
LEMMA AppendHolds ==
  ASSUME NEW kinds, NEW q \in Seq(Message), NEW m \in Message
  PROVE  Holds(kinds, Append(q, m)) <=> Holds(kinds, q) \/ m.kind \in kinds
<1>1. /\ Len(Append(q, m)) = Len(q) + 1 /\ Len(q) \in Nat
      /\ \A i \in 1 .. Len(q) : Append(q, m)[i] = q[i]
      /\ Append(q, m)[Len(q) + 1] = m
  OBVIOUS
<1> QED
  BY <1>1 DEF Holds

LEMMA TailHolds ==
  ASSUME NEW kinds, NEW q \in Seq(Message), q # <<>>
  PROVE  Holds(kinds, q) <=> Head(q).kind \in kinds \/ Holds(kinds, Tail(q))
<1>1. /\ Len(q) \in Nat /\ Len(q) >= 1 /\ Len(Tail(q)) = Len(q) - 1
      /\ Head(q) = q[1]
      /\ \A i \in 1 .. Len(q) - 1 : Tail(q)[i] = q[i + 1]
  OBVIOUS
<1>2. ASSUME NEW i \in 1 .. Len(q), q[i].kind \in kinds
      PROVE  Head(q).kind \in kinds \/ Holds(kinds, Tail(q))
  <2>1. CASE i = 1
    BY <1>1, <1>2, <2>1
  <2>2. CASE i # 1
    <3>1. i - 1 \in 1 .. Len(Tail(q)) /\ Tail(q)[i - 1] = q[i]
      BY <1>1, <2>2
    <3> QED
      BY <1>2, <3>1 DEF Holds
  <2> QED
    BY <2>1, <2>2
<1>3. ASSUME NEW i \in 1 .. Len(Tail(q)), Tail(q)[i].kind \in kinds
      PROVE  Holds(kinds, q)
  <2>1. i + 1 \in 1 .. Len(q) /\ Tail(q)[i] = q[i + 1]
    BY <1>1
  <2> QED
    BY <1>3, <2>1 DEF Holds
<1>4. Head(q).kind \in kinds => Holds(kinds, q)
  BY <1>1 DEF Holds
<1> QED
  BY <1>2, <1>3, <1>4 DEF Holds

LEMMA BroadcastHolds ==
  ASSUME NEW kinds, NEW b \in Boards, NEW m \in Message, NEW boxes \in Boxes, NEW c \in Boards
  PROVE  Holds(kinds, Broadcast(b, m, boxes)[c]) <=>
           Holds(kinds, boxes[c]) \/ (c # b /\ m.kind \in kinds)
<1>1. boxes[c] \in Seq(Message)
  BY DEF Boxes
<1>2. CASE c = b
  BY <1>2 DEF Broadcast
<1>3. CASE c # b
  BY <1>1, <1>3, AppendHolds DEF Broadcast
<1> QED
  BY <1>2, <1>3

LEMMA TakenHolds ==
  ASSUME inbox \in Boxes, NEW kinds, NEW b \in Boards, inbox[b] # <<>>, NEW c \in Boards
  PROVE  Heard(kinds, c) <=> Holds(kinds, Taken(b)[c]) \/ (c = b /\ Head(inbox[b]).kind \in kinds)
<1>1. inbox[b] \in Seq(Message)
  BY DEF Boxes
<1>2. CASE c = b
  BY <1>1, <1>2, TailHolds DEF Taken, Boxes, Heard
<1>3. CASE c # b
  BY <1>3 DEF Taken, Boxes, Heard
<1> QED
  BY <1>2, <1>3
-----------------------------------------------------------------------------
\* The lowest goes on leading while nobody moves on, no request comes, and no data
\* block is forgotten by a module that still waits to send.
LEMMA LeadsAlone ==
  ASSUME NEW m \in heard, Leads(m), UNCHANGED <<pc, delay, block, heard>>,
         ~s_zcf_arb_pending'[m], ~s_zcf_send_requested'[m],
         \A c \in Boards :
           /\ s_zcf_arb_pending'[c] => s_zcf_arb_pending[c]
           /\ s_zcf_send_requested'[c] => s_zcf_send_requested[c]
           /\ Heard({"request"}, c)' => Heard({"request"}, c)
           /\ s_zcf_send_requested'[c] /\ Heard({"data"}, c) => Heard({"data"}, c)'
  PROVE  Leads(m)'
<1>1. ASSUME NEW c \in Boards \ {m}, s_zcf_send_requested'[c]
      PROVE  \/ delay'[c] > 0 /\ Heard({"data"}, c)'
             \/ pc'[m] = "announce" /\ delay'[c] > BlockTime
             \/ pc'[m] = "send" /\ delay'[c] > block'[m]
  BY <1>1 DEF Leads
<1> QED
  BY <1>1 DEF Leads

LEMMA LeadsHandler ==
  ASSUME TypeOK, NEW m \in heard, Leads(m), NEW b \in Boards, Handler(b) \/ Advertise(b)
  PROVE  Leads(m)'
<1>1. inbox \in Boxes /\ m \in Boards
  BY TypesParts, HeardAreBoards
<1>2. ModuleClaim(b) \in Message /\ ModuleClaim(b).kind = "module"
  BY MessageTypes DEF ModuleClaim
<1>3. CASE HandleClaim(b)
  <2>1. inbox[b] # <<>> /\ Head(inbox[b]).kind \in {"size", "module"} /\ Taken(b) \in Boxes
    BY <1>1, <1>3, TakenType DEF HandleClaim, Receive
  <2>2. inbox' = Taken(b) \/ inbox' = Broadcast(b, ModuleClaim(b), Taken(b))
    BY <1>3 DEF HandleClaim
  <2>3. ASSUME NEW c \in Boards, NEW kinds \in {{"request"}, {"data"}}
        PROVE  Heard(kinds, c)' <=> Heard(kinds, c)
    <3>1. Heard(kinds, c) <=> Holds(kinds, Taken(b)[c])
      BY <1>1, <2>1, TakenHolds
    <3>2. Holds(kinds, Broadcast(b, ModuleClaim(b), Taken(b))[c]) <=> Holds(kinds, Taken(b)[c])
      BY <1>2, <2>1, BroadcastHolds
    <3> QED
      BY <2>2, <3>1, <3>2 DEF Heard
  <2>4. /\ UNCHANGED <<pc, delay, block, heard, s_zcf_send_requested>>
        /\ \A c \in Boards : s_zcf_arb_pending'[c] => s_zcf_arb_pending[c]
    BY <1>3 DEF HandleClaim, TypeOK, history
  <2> QED
    BY <1>1, <2>3, <2>4, LeadsAlone DEF Leads
<1>4. ~HandleRequest(b)
  <2>1. ASSUME HandleRequest(b) PROVE FALSE
    <3>1. inbox[b] # <<>> /\ Head(inbox[b]).kind \in {"request"}
      BY <2>1 DEF HandleRequest, Receive
    <3>2. Heard({"request"}, b)
      BY <1>1, <3>1, TakenHolds
    <3> QED
      BY <3>2 DEF Leads
  <2> QED
    BY <2>1
<1>5. CASE HandleDataBlock(b)
  <2>1. inbox[b] # <<>> /\ inbox' = Taken(b)
    BY <1>5 DEF HandleDataBlock, Receive
  <2>2. ASSUME NEW c \in Boards, NEW kinds
        PROVE  /\ Heard(kinds, c)' => Heard(kinds, c)
               /\ c # b /\ Heard(kinds, c) => Heard(kinds, c)'
    BY <1>1, <2>1, TakenHolds DEF Heard
  <2>3. /\ UNCHANGED <<pc, delay, block, heard, s_zcf_arb_pending>>
        /\ s_zcf_send_requested' = [s_zcf_send_requested EXCEPT ![b] = FALSE]
    BY <1>5 DEF HandleDataBlock, history
  <2>4. /\ ~s_zcf_send_requested'[b]
        /\ \A c \in Boards : s_zcf_send_requested'[c] => s_zcf_send_requested[c]
    BY <2>3 DEF TypeOK
  <2> QED
    BY <1>1, <2>2, <2>3, <2>4, LeadsAlone DEF Leads
<1>6. CASE Advertise(b)
  <2>1. inbox' = Broadcast(b, ModuleClaim(b), inbox)
    BY <1>6 DEF Advertise
  <2>2. ASSUME NEW c \in Boards, NEW kinds \in {{"request"}, {"data"}}
        PROVE  Heard(kinds, c)' <=> Heard(kinds, c)
    BY <1>1, <1>2, <2>1, BroadcastHolds DEF Heard
  <2>3. UNCHANGED <<pc, delay, block, heard, s_zcf_arb_pending, s_zcf_send_requested>>
    BY <1>6 DEF Advertise, flags, history
  <2> QED
    BY <1>1, <2>2, <2>3, LeadsAlone DEF Leads
<1> QED
  BY <1>3, <1>4, <1>5, <1>6 DEF Handler

LEMMA LeadsTask ==
  ASSUME TypeOK, NEW m \in heard, Leads(m), NEW b \in Boards, Task(b)
  PROVE  m \in heard' /\ Leads(m)'
<1>1. inbox \in Boxes /\ m \in Boards
  BY TypesParts, HeardAreBoards
<1>2. SizeClaim(b) \in Message /\ DataBlock(b) \in Message
      /\ SizeClaim(b).kind = "size" /\ DataBlock(b).kind = "data"
  BY MessageTypes DEF SizeClaim, DataBlock
<1>3. ~FindElapsed(b) /\ ~Win(b)
  BY <1>1 DEF Leads, FindElapsed, Win, Elapsed
<1>4. ~StartSend(b)
  <2>1. SUFFICES ASSUME StartSend(b) PROVE FALSE
    OBVIOUS
  <2>2. b # m /\ s_zcf_send_requested[b] /\ delay[b] = 0
    BY <2>1 DEF StartSend, Leads
  <2>3. BlockTime \in Nat /\ block[m] \in Nat
    BY <1>1, BoundsAreNat DEF TypeOK
  <2> QED
    BY <2>2, <2>3 DEF Leads
<1>5. CASE Withdraw(b)
  <2>1. /\ b # m /\ ~s_zcf_send_requested[b]
        /\ UNCHANGED <<inbox, heard, delay, block, s_zcf_arb_pending, s_zcf_send_requested>>
        /\ pc' = [pc EXCEPT ![b] = "wait"]
    BY <1>5 DEF Withdraw, Leads, Goto, flags, history
  <2>2. pc'[m] = pc[m] /\ \A c \in Boards \ {m} : pc'[c] \in {"wait", "delay"}
    BY <2>1 DEF Leads, TypeOK
  <2>3. \A c \in Boards : Heard({"request"}, c)' = Heard({"request"}, c)
                          /\ Heard({"data"}, c)' = Heard({"data"}, c)
    BY <2>1 DEF Heard
  <2> QED
    BY <1>1, <2>1, <2>2, <2>3 DEF Leads
<1>6. CASE AnnounceSize(b)
  <2>1. b = m
    BY <1>6 DEF AnnounceSize, Leads
  <2>2. /\ pc[m] = "announce" /\ pc' = [pc EXCEPT ![m] = "send"]
        /\ block' = [block EXCEPT ![m] = BlockTime]
        /\ inbox' = Broadcast(m, SizeClaim(m), inbox)
        /\ UNCHANGED <<heard, delay, s_zcf_arb_pending, s_zcf_send_requested>>
    BY <1>6, <2>1 DEF AnnounceSize, Goto
  <2>3. pc'[m] = "send" /\ block'[m] = BlockTime
        /\ \A c \in Boards \ {m} : pc'[c] = pc[c]
    BY <1>1, <2>2 DEF TypeOK
  <2>4. ASSUME NEW c \in Boards, NEW kinds \in {{"request"}, {"data"}}
        PROVE  Heard(kinds, c)' <=> Heard(kinds, c)
    BY <1>1, <1>2, <2>1, <2>2, BroadcastHolds DEF Heard
  <2>5. ASSUME NEW c \in Boards \ {m}, s_zcf_send_requested'[c]
        PROVE  \/ delay'[c] > 0 /\ Heard({"data"}, c)'
               \/ pc'[m] = "send" /\ delay'[c] > block'[m]
    BY <2>2, <2>3, <2>4, <2>5 DEF Leads
  <2> QED
    BY <2>2, <2>3, <2>4, <2>5 DEF Leads
<1>7. ASSUME NEW last \in BOOLEAN, BlockArrives(b, last) PROVE m \in heard' /\ Leads(m)'
  <2>1. b = m
    BY <1>7 DEF BlockArrives, Leads
  <2>2. /\ pc[m] = "send" /\ block[m] = 0
        /\ pc' = [pc EXCEPT ![m] = IF last THEN "wait" ELSE "send"]
        /\ inbox' = Broadcast(m, DataBlock(m), inbox)
        /\ UNCHANGED <<heard, delay, s_zcf_arb_pending, s_zcf_send_requested>>
    BY <1>7, <2>1 DEF BlockArrives, Goto, history
  <2>3. pc'[m] \in {"wait", "send"} /\ \A c \in Boards \ {m} : pc'[c] = pc[c]
    BY <1>1, <2>2 DEF TypeOK
  <2>4. ASSUME NEW c \in Boards
        PROVE  Heard({"request"}, c)' <=> Heard({"request"}, c)
    BY <1>1, <1>2, <2>1, <2>2, BroadcastHolds DEF Heard
  <2>5. ASSUME NEW c \in Boards \ {m}
        PROVE  Heard({"data"}, c)'
    BY <1>1, <1>2, <2>1, <2>2, BroadcastHolds DEF Heard
  <2>6. ASSUME NEW c \in Boards \ {m}, s_zcf_send_requested[c]
        PROVE  delay[c] > 0
    <3>1. BlockTime \in Nat
      BY BoundsAreNat
    <3> QED
      BY <2>2, <2>6, <3>1 DEF Leads
  <2> QED
    BY <2>2, <2>3, <2>4, <2>5, <2>6 DEF Leads
<1> QED
  BY <1>3, <1>4, <1>5, <1>6, <1>7 DEF Task

\* Time passes only when every data block has been heard.
LEMMA LeadsTick ==
  ASSUME TypeOK, NEW m \in heard, Leads(m), Tick
  PROVE  m \in heard' /\ Leads(m)'
<1>1. m \in Boards
  BY HeardAreBoards
<1>2. UNCHANGED <<pc, inbox, heard, s_zcf_arb_pending, s_zcf_send_requested>>
  BY DEF Tick, history
<1>3. \A c \in Boards : inbox[c] = <<>> /\ pc[c] # "announce"
  BY DEF Tick, Due
<1>4. \A c \in Boards : ~Heard({"data"}, c) /\ ~Heard({"request"}, c)'
  BY <1>2, <1>3 DEF Heard, Holds
<1>5. ASSUME NEW c \in Boards \ {m}, s_zcf_send_requested[c]
      PROVE  pc[m] = "send" /\ delay'[c] > block'[m]
  <2>1. pc[m] = "send" /\ delay[c] > block[m]
    BY <1>1, <1>3, <1>4, <1>5 DEF Leads
  <2>2. block[m] # 0
    BY <1>1, <2>1 DEF Tick, Due
  <2>3. block[m] \in Nat /\ delay[c] \in Nat
    BY <1>1, BoundsAreNat DEF TypeOK
  <2>4. /\ delay'[c] = IF delay[c] > 0 THEN delay[c] - 1 ELSE 0
        /\ block'[m] = IF block[m] > 0 THEN block[m] - 1 ELSE 0
    BY <1>1 DEF Tick, Less
  <2> QED
    BY <2>1, <2>2, <2>3, <2>4
<1> QED
  BY <1>2, <1>4, <1>5 DEF Leads

LEMMA RaceStep ==
  ASSUME TypeOK, Spaced, TriggerDelay >= 32, RaceInv, [Next]_vars
  PROVE  RaceInv'
<1>1. requests \in Nat /\ MaxRequests \in Nat /\ requests <= MaxRequests
  BY BoundsAreNat DEF TypeOK, RaceInv
<1>2. CASE ReadRequest
  <2>1. requests' = requests - 1 /\ requests > 0
    BY <1>2 DEF ReadRequest
  <2>2. requests' <= MaxRequests /\ requests' # MaxRequests
    BY <1>1, <2>1
  <2>3. ASSUME OneRequest' PROVE Asked'
    <3>1. requests = MaxRequests /\ OneRequest
      BY <1>1, <2>1, <2>3 DEF OneRequest
    <3> QED
      BY <1>2, <3>1, QuietIsAsked DEF RaceInv
  <2> QED
    BY <2>2, <2>3 DEF RaceInv
<1>3. CASE UNCHANGED vars
  <2>1. UNCHANGED <<requests, heard, pc, delay, block, inbox, claim_timer, arb_timer,
                    s_zcf_arb_pending, s_zcf_send_requested>>
    BY <1>3 DEF vars, flags, history
  <2>2. (Asked => Asked') /\ (Quiet => Quiet')
    BY <2>1 DEF Asked, Quiet
  <2>3. Running => Running'
    BY <2>1 DEF Running, Racing, Left
  <2>4. \A m \in heard : Leads(m) => Leads(m)'
    BY <2>1 DEF Leads, Heard
  <2> QED
    BY <2>1, <2>2, <2>3, <2>4 DEF RaceInv, OneRequest
<1>4. CASE ~ReadRequest /\ Next
  <2>1. UNCHANGED requests
    BY <1>4 DEF Next, Tick, Handler, HandleClaim, HandleRequest, HandleDataBlock, Task, FindElapsed,
       Win, Withdraw, StartSend, AnnounceSize, BlockArrives, Advertise, history
  <2>2. SUFFICES ASSUME OneRequest
                 PROVE  /\ Quiet => Quiet'
                        /\ Asked' \/ Running' \/ \E m \in heard' : Leads(m)'
    BY <2>1 DEF RaceInv, OneRequest
  <2>3. ASSUME Quiet PROVE Quiet'
    <3>1. CASE Tick
      BY <2>3, <3>1, AskedTick DEF Quiet
    <3>2. ASSUME NEW b \in Boards, Handler(b) \/ Task(b) \/ Advertise(b) PROVE FALSE
      BY <2>3, <3>2, AskedAlone DEF Quiet, HandleRequest, Receive
    <3> QED
      BY <1>4, <3>1, <3>2 DEF Next
  <2>4. CASE Asked
    <3>1. CASE Tick
      BY <2>4, <3>1, AskedTick
    <3>2. ASSUME NEW b \in Boards, Handler(b) \/ Task(b) \/ Advertise(b) PROVE Asked'
      BY <2>4, <3>2, AskedAlone, AskedTakesUp
    <3> QED
      BY <1>4, <2>3, <3>1, <3>2 DEF Next
  <2>5. CASE Running
    <3>1. CASE Tick
      BY <2>3, <2>5, <3>1, RunningTick
    <3>2. ASSUME NEW b \in Boards, Handler(b) \/ Task(b) \/ Advertise(b)
          PROVE  Running' \/ \E m \in heard' : Leads(m)'
      BY <2>5, <3>2, RunningAlone, RunningTask, RunningSends
    <3> QED
      BY <1>4, <2>3, <3>1, <3>2 DEF Next
  <2>6. CASE \E m \in heard : Leads(m)
    <3>1. PICK m \in heard : Leads(m)
      BY <2>6
    <3>2. CASE Tick
      BY <2>3, <3>1, <3>2, LeadsTick
    <3>3. ASSUME NEW b \in Boards, Handler(b) \/ Advertise(b) PROVE m \in heard' /\ Leads(m)'
      <4>1. heard \subseteq heard'
        BY <3>3 DEF Handler, HandleClaim, HandleRequest, HandleDataBlock, Advertise, history
      <4> QED
        BY <3>1, <3>3, <4>1, LeadsHandler
    <3>4. ASSUME NEW b \in Boards, Task(b) PROVE m \in heard' /\ Leads(m)'
      BY <3>1, <3>4, LeadsTask
    <3> QED
      BY <1>4, <2>3, <3>2, <3>3, <3>4 DEF Next
  <2> QED
    BY <2>2, <2>3, <2>4, <2>5, <2>6 DEF RaceInv
<1> QED
  BY <1>2, <1>3, <1>4

LEMMA RaceSends == ASSUME TypeOK, RaceInv PROVE LowestSends
<1> SUFFICES ASSUME OneRequest, NEW b \in Boards, pc[b] \in {"announce", "send"}
             PROVE  \A c \in heard : b <= c
  BY DEF LowestSends, OneRequest
<1>1. ~Asked
  BY DEF Asked
<1>2. ~Running
  BY DEF Running, Racing
<1>3. PICK m \in heard : Leads(m)
  BY <1>1, <1>2 DEF RaceInv
<1>4. b = m
  BY <1>3 DEF Leads
<1> QED
  BY <1>3, <1>4 DEF Leads

\* "Lowest module address wins" (the comment above s_zcf_send_requested): for any
\* modules, holders and versions, and whoever hears the request, no module but the
\* lowest that backed off ever sends; provided that the back-offs of the holders are
\* further apart than a data block takes, and that ZCF_SEND_TRIGGER_DELAY_MS, 75
\* units, is longer than they are apart at most.
THEOREM LowestCorrect ==
  ASSUME Spaced, TriggerDelay >= 32
  PROVE  Spec => []LowestSends
<1>1. Init => TypeOK /\ RaceInv
  BY TypesStart, QuietStart
<1>2. TypeOK /\ RaceInv /\ [Next]_vars => (TypeOK /\ RaceInv)'
  BY TypesStep, RaceStep
<1>3. TypeOK /\ RaceInv => LowestSends
  BY RaceSends
<1> QED
  BY <1>1, <1>2, <1>3, PTL DEF Spec
-----------------------------------------------------------------------------
(* How often they send *)

\* A module that has taken a request up and may still send for it, and the time
\* until it does.  A download that has been cancelled leaves protocol_task in its
\* delay, where the module may take up another request.
Answering(b) ==
  \/ pc[b] \in {"wait", "delay"} /\ s_zcf_arb_pending[b]
  \/ pc[b] \in {"won", "announce"}
  \/ s_zcf_send_requested[b]

Remains(b) ==
  IF pc[b] = "announce" THEN 0
  ELSE IF pc[b] = "won" THEN TriggerDelay
  ELSE IF s_zcf_send_requested[b] THEN delay[b] ELSE arb_timer[b] + TriggerDelay

\* How many requests there have been.
Made == MaxRequests - requests

\* It sends when its back-off and the delay have passed since the request.
On(b, age) == Remains(b) + age = BackOff(b) + TriggerDelay

\* It will have heard a data block before its delay is over.
Doomed(b) ==
  \/ delay[b] > 0 /\ Heard({"data"}, b)
  \/ \E m \in Boards \ {b} : pc[m] = "send" /\ delay[b] > block[m]

Fits(b) ==
  /\ s_zcf_send_requested[b] => pc[b] = "delay" /\ ~s_zcf_arb_pending[b]
  /\ pc[b] \in {"announce", "send"} => ~s_zcf_arb_pending[b]
  /\ pc[b] = "send" <=> s_zcf_send_active[b]
  /\ pc[b] = "announce" => delay[b] = 0
  /\ arb_timer[b] <= BackOff(b)
  /\ s_zcf_arb_pending[b] \/ s_zcf_send_requested[b] \/ pc[b] \in {"won", "announce"} => b \in Holders

\* age says for each request how long ago it was; led holds those for which a
\* module has begun to send.
Keeps(b, age, led) ==
  /\ Heard({"request"}, b) => Made > 0 /\ age[Made] = 0
  /\ Heard({"data"}, b) \/ pc[b] = "send" => led # {}
  /\ Answering(b) => \E i \in 1 .. Made : On(b, age[i]) /\ (i \in led => Doomed(b))
  /\ pc[b] = "delay" /\ ~s_zcf_send_requested[b] =>
       IF s_zcf_arb_pending[b] THEN delay[b] <= arb_timer[b]
       ELSE Made <= 2 => delay[b] <= BackOff(b) \/ (Made = 2 /\ age[2] > 0)

Elections(age, led) ==
  /\ age \in [1 .. Made -> Nat]
  /\ led \subseteq 1 .. Made /\ sends <= Cardinality(led)
  /\ \A i \in led : age[i] >= TriggerDelay + 20
  /\ \A b \in Boards : Keeps(b, age, led)

OnceInv ==
  /\ requests <= MaxRequests
  /\ \A b \in Boards : Fits(b)
  /\ \E age, led : Elections(age, led)

\* No module takes up a request while it has longer to wait out the delay of a
\* cancelled download than its back-off is.
Prompt ==
  \A b \in Boards :
    pc[b] = "delay" /\ ~s_zcf_arb_pending[b] /\ s_zcf_arb_pending'[b] => delay[b] <= BackOff(b)

LEMMA OnceStart == Init => OnceInv
<1> SUFFICES ASSUME Init PROVE OnceInv
  OBVIOUS
<1>1. Made = 0 /\ MaxRequests \in Nat
  BY BoundsAreNat DEF Init, Made
<1>2. ASSUME NEW b \in Boards PROVE Fits(b)
  <2>1. BackOff(b) \in 20 .. 51 /\ arb_timer[b] = 0
    BY BackOffType DEF Init
  <2>2. arb_timer[b] <= BackOff(b)
    BY <2>1
  <2> QED
    BY <2>2 DEF Init, Fits
<1>3. \A b \in Boards : ~Heard({"request"}, b) /\ ~Heard({"data"}, b)
  <2>1. \A kinds : ~Holds(kinds, <<>>)
    BY DEF Holds
  <2> QED
    BY <2>1 DEF Init, Heard
<1>4. Elections([i \in 1 .. Made |-> 0], {})
  <2>1. ASSUME NEW b \in Boards PROVE Keeps(b, [i \in 1 .. Made |-> 0], {})
    <3>1. pc[b] = "wait" /\ ~s_zcf_arb_pending[b] /\ ~s_zcf_send_requested[b]
      BY DEF Init
    <3> QED
      BY <1>3, <3>1 DEF Keeps, Answering
  <2>2. Cardinality({}) = 0
    BY FS_EmptySet
  <2> QED
    BY <1>1, <2>1, <2>2 DEF Init, Elections
<1> QED
  BY <1>1, <1>2, <1>4 DEF OnceInv, Init

LEMMA FitsStep ==
  ASSUME TypeOK, [Next]_vars, ~slipped', NEW b \in Boards, Fits(b)
  PROVE  Fits(b)'
<1>0. BackOff(b) \in 20 .. 51 /\ arb_timer[b] \in Nat /\ delay[b] \in Nat
  BY BackOffType, BoundsAreNat DEF TypeOK
<1> USE DEF Fits
<1>1. CASE ReadRequest
  BY <1>1 DEF ReadRequest, flags
<1>2. CASE Tick
  <2>1. /\ arb_timer'[b] = IF arb_timer[b] > 0 THEN arb_timer[b] - 1 ELSE 0
        /\ delay'[b] = IF delay[b] > 0 THEN delay[b] - 1 ELSE 0
    BY <1>2 DEF Tick, Less
  <2>2. UNCHANGED <<s_zcf_arb_pending, s_zcf_send_requested, s_zcf_send_active, pc>>
    BY <1>2 DEF Tick
  <2>3. arb_timer'[b] <= BackOff(b)
    BY <1>0, <2>1
  <2>4. delay[b] = 0 => delay'[b] = 0
    BY <2>1
  <2> QED
    BY <2>2, <2>3, <2>4
<1>3. ASSUME NEW c \in Boards, HandleClaim(c) PROVE Fits(b)'
  <2>1. UNCHANGED <<arb_timer, s_zcf_send_requested, s_zcf_send_active, pc, delay>>
    BY <1>3 DEF HandleClaim
  <2>2. s_zcf_arb_pending'[b] => s_zcf_arb_pending[b]
    BY <1>3 DEF HandleClaim, TypeOK
  <2> QED
    BY <2>1, <2>2
<1>4. ASSUME NEW c \in Boards, HandleRequest(c) PROVE Fits(b)'
  <2>1. UNCHANGED <<s_zcf_send_requested, s_zcf_send_active, pc, delay>>
    BY <1>4 DEF HandleRequest
  <2>2. CASE UNCHANGED <<s_zcf_arb_pending, arb_timer>>
    BY <2>1, <2>2
  <2>3. CASE ~UNCHANGED <<s_zcf_arb_pending, arb_timer>>
    <3>1. /\ ~s_zcf_send_requested[c] /\ ~s_zcf_send_active[c] /\ c \in Holders
          /\ s_zcf_arb_pending' = [s_zcf_arb_pending EXCEPT ![c] = TRUE]
          /\ arb_timer' = [arb_timer EXCEPT ![c] = BackOff(c)]
          /\ pc[c] # "announce"
      BY <1>4, <2>3 DEF HandleRequest
    <3>2. CASE c = b
      <4>1. s_zcf_arb_pending'[b] /\ arb_timer'[b] = BackOff(b)
        BY <3>1, <3>2 DEF TypeOK
      <4>2. arb_timer'[b] <= BackOff(b) /\ pc[b] \notin {"announce", "send"}
        BY <1>0, <3>1, <3>2, <4>1
      <4> QED
        BY <2>1, <3>1, <3>2, <4>1, <4>2
    <3>3. CASE c # b
      BY <2>1, <3>1, <3>3 DEF TypeOK
    <3> QED
      BY <3>2, <3>3
  <2> QED
    BY <2>2, <2>3
<1>5. ASSUME NEW c \in Boards, HandleDataBlock(c) PROVE Fits(b)'
  <2>1. UNCHANGED <<arb_timer, s_zcf_arb_pending, s_zcf_send_active, pc, delay>>
    BY <1>5 DEF HandleDataBlock
  <2>2. s_zcf_send_requested'[b] => s_zcf_send_requested[b]
    BY <1>5 DEF HandleDataBlock, TypeOK
  <2> QED
    BY <2>1, <2>2
<1>6. ASSUME NEW c \in Boards, FindElapsed(c) PROVE Fits(b)'
  <2>1. CASE c = b
    BY <1>6, <2>1 DEF FindElapsed, Goto, flags, Elapsed, TypeOK
  <2>2. CASE c # b
    BY <1>6, <2>2 DEF FindElapsed, Goto, flags, TypeOK
  <2> QED
    BY <2>1, <2>2
<1>7. ASSUME NEW c \in Boards, Win(c) PROVE Fits(b)'
  <2>1. CASE c = b
    BY <1>7, <2>1 DEF Win, Goto, TypeOK
  <2>2. CASE c # b
    BY <1>7, <2>2 DEF Win, Goto, TypeOK
  <2> QED
    BY <2>1, <2>2
<1>8. ASSUME NEW c \in Boards, Withdraw(c) PROVE Fits(b)'
  BY <1>8 DEF Withdraw, Goto, flags, TypeOK
<1>9. ASSUME NEW c \in Boards, StartSend(c) PROVE Fits(b)'
  BY <1>9 DEF StartSend, Goto, TypeOK
<1>10. ASSUME NEW c \in Boards, AnnounceSize(c) PROVE Fits(b)'
  BY <1>10 DEF AnnounceSize, Goto, TypeOK
<1>11. ASSUME NEW c \in Boards, NEW last \in BOOLEAN, BlockArrives(c, last) PROVE Fits(b)'
  <2>1. CASE c = b
    BY <1>11, <2>1 DEF BlockArrives, Goto, TypeOK
  <2>2. CASE c # b
    BY <1>11, <2>2 DEF BlockArrives, Goto, TypeOK
  <2> QED
    BY <2>1, <2>2
<1>12. ASSUME NEW c \in Boards, Advertise(c) PROVE Fits(b)'
  BY <1>12 DEF Advertise, flags
<1>13. CASE UNCHANGED vars
  BY <1>13 DEF vars, flags
<1> QED
  BY <1>1, <1>2, <1>3, <1>4, <1>5, <1>6, <1>7, <1>8, <1>9, <1>10, <1>11, <1>12, <1>13
     DEF Next, Handler, Task

LEMMA BoardTypes ==
  ASSUME TypeOK, NEW b \in Boards
  PROVE  /\ delay[b] \in Nat /\ block[b] \in Nat /\ arb_timer[b] \in Nat
         /\ BackOff(b) \in 20 .. 51 /\ BackOff(b) \in Nat /\ TriggerDelay \in Nat
<1>1. BackOff(b) \in 20 .. 51
  BY BackOffType
<1>2. BackOff(b) \in Nat
  BY <1>1
<1>3. delay[b] \in 0 .. TriggerDelay /\ block[b] \in 0 .. BlockTime /\ arb_timer[b] \in Nat
  BY DEF TypeOK
<1> QED
  BY <1>1, <1>2, <1>3, BoundsAreNat

LEMMA RemainsType == ASSUME TypeOK, NEW b \in Boards PROVE Remains(b) \in Nat
BY BoundsAreNat DEF TypeOK, Remains

\* Whoever answers a request that has been answered waits out the delay.
LEMMA LedIsLate ==
  ASSUME TypeOK, TriggerDelay >= 32, NEW b \in Boards, Answering(b),
         NEW a \in Nat, a >= TriggerDelay + 20, On(b, a), Doomed(b), Fits(b)
  PROVE  /\ pc[b] = "delay" /\ s_zcf_send_requested[b] /\ delay[b] > 0
         /\ delay[b] < BackOff(b)
<1>1. BackOff(b) \in 20 .. 51 /\ Remains(b) \in Nat /\ TriggerDelay \in Nat
  BY BackOffType, RemainsType, BoundsAreNat
<1>2. Remains(b) < BackOff(b) /\ Remains(b) < TriggerDelay
  BY <1>1 DEF On
<1>3. arb_timer[b] \in Nat /\ delay[b] \in Nat /\ \A m \in Boards : block[m] \in Nat
  BY BoundsAreNat DEF TypeOK
<1>4. delay[b] > 0
  BY <1>3 DEF Doomed
<1>5. pc[b] # "announce" /\ pc[b] # "won"
  BY <1>1, <1>2, <1>4 DEF Remains, Fits
<1>6. s_zcf_send_requested[b]
  <2>1. SUFFICES ASSUME ~s_zcf_send_requested[b] PROVE FALSE
    OBVIOUS
  <2>2. Remains(b) = arb_timer[b] + TriggerDelay
    BY <1>5, <2>1 DEF Remains
  <2> QED
    BY <1>1, <1>2, <1>3, <2>2
<1>7. pc[b] = "delay" /\ Remains(b) = delay[b]
  BY <1>5, <1>6 DEF Fits, Remains
<1> QED
  BY <1>2, <1>4, <1>6, <1>7

\* What holds of a module goes on to hold while others act: its own state stays, or
\* it withdraws, and when another request is answered it will have heard of that.
LEMMA KeepsApart ==
  ASSUME NEW b \in Boards, NEW age \in [1 .. Made -> Nat], NEW led, NEW more,
         TypeOK, Fits(b), Keeps(b, age, led), UNCHANGED requests,
         led \subseteq more,
         pc'[b] = pc[b], delay'[b] = delay[b], arb_timer'[b] = arb_timer[b],
         s_zcf_send_requested'[b] = s_zcf_send_requested[b],
         s_zcf_arb_pending'[b] => s_zcf_arb_pending[b],
         s_zcf_arb_pending'[b] \in BOOLEAN,
         Heard({"request"}, b)' => Heard({"request"}, b),
         Heard({"data"}, b)' => Heard({"data"}, b) \/ more # {},
         Doomed(b) => Doomed(b)',
         \A i \in more \ led : Answering(b) /\ On(b, age[i]) => Doomed(b)'
  PROVE  Keeps(b, age, more)'
<1>1. Made' = Made
  BY DEF Made
<1>2. Answering(b)' => Answering(b)
  BY DEF Answering
<1>3. Remains(b)' = Remains(b)
  BY DEF Remains
<1>4. Answering(b)' => \E i \in 1 .. Made : On(b, age[i])' /\ (i \in more => Doomed(b)')
  <2>1. SUFFICES ASSUME Answering(b)'
                 PROVE  \E i \in 1 .. Made : On(b, age[i])' /\ (i \in more => Doomed(b)')
    OBVIOUS
  <2>2. PICK i \in 1 .. Made : On(b, age[i]) /\ (i \in led => Doomed(b))
    BY <1>2, <2>1 DEF Keeps
  <2>3. On(b, age[i])'
    BY <1>3, <2>2 DEF On
  <2>4. i \in more => Doomed(b)'
    BY <1>2, <2>1, <2>2
  <2> QED
    BY <2>3, <2>4
<1>5. pc'[b] = "delay" /\ ~s_zcf_send_requested'[b] =>
        IF s_zcf_arb_pending'[b] THEN delay'[b] <= arb_timer'[b]
        ELSE Made <= 2 => delay'[b] <= BackOff(b) \/ (Made = 2 /\ age[2] > 0)
  <2>1. SUFFICES ASSUME pc[b] = "delay", ~s_zcf_send_requested[b]
                 PROVE  IF s_zcf_arb_pending'[b] THEN delay[b] <= arb_timer[b]
                        ELSE Made <= 2 => delay[b] <= BackOff(b) \/ (Made = 2 /\ age[2] > 0)
    OBVIOUS
  <2>2. CASE s_zcf_arb_pending[b]
    <3>1. delay[b] <= arb_timer[b] /\ arb_timer[b] <= BackOff(b)
      BY <2>1, <2>2 DEF Keeps, Fits
    <3>2. delay[b] \in Nat /\ arb_timer[b] \in Nat /\ BackOff(b) \in Nat
      BY BoardTypes
    <3>3. delay[b] <= BackOff(b)
      BY <3>1, <3>2
    <3> QED
      BY <3>1, <3>3
  <2>3. CASE ~s_zcf_arb_pending[b]
    BY <2>1, <2>3 DEF Keeps
  <2> QED
    BY <2>2, <2>3
<1>6. Heard({"request"}, b)' => Made > 0 /\ age[Made] = 0
  BY DEF Keeps
<1>7. Heard({"data"}, b)' \/ pc'[b] = "send" => more # {}
  BY DEF Keeps
<1> QED
  BY <1>1, <1>4, <1>5, <1>6, <1>7 DEF Keeps

LEMMA AloneKeeps ==
  ASSUME NEW b \in Boards, NEW c \in Boards, c # b,
         NEW age \in [1 .. Made -> Nat], NEW led, NEW more,
         TypeOK, Fits(c), Keeps(c, age, led), UNCHANGED requests, led \subseteq more,
         \A d \in Boards \ {b} :
           /\ pc'[d] = pc[d] /\ delay'[d] = delay[d] /\ arb_timer'[d] = arb_timer[d]
           /\ block'[d] = block[d]
           /\ s_zcf_send_requested'[d] = s_zcf_send_requested[d]
           /\ s_zcf_arb_pending'[d] = s_zcf_arb_pending[d],
         Heard({"request"}, c)' => Heard({"request"}, c),
         Heard({"data"}, c)' <=> Heard({"data"}, c),
         pc[b] # "send",
         \A i \in more \ led : Answering(c) /\ On(c, age[i]) => Doomed(c)'
  PROVE  Keeps(c, age, more)'
<1>1. s_zcf_arb_pending'[c] \in BOOLEAN
  BY DEF TypeOK
<1>2. Doomed(c) => Doomed(c)'
  BY DEF Doomed
<1> QED
  BY <1>1, <1>2, KeepsApart

\* A module moves on towards its download, or out of it.
LEMMA OnceMoves ==
  ASSUME TypeOK, TriggerDelay >= 32, NEW age, NEW led, Elections(age, led), NEW b \in Boards,
         \A c \in Boards : Fits(c),
         FindElapsed(b) \/ Win(b) \/ Withdraw(b) \/ StartSend(b)
  PROVE  Elections(age, led)'
<1> USE DEF FindElapsed, Win, Withdraw, StartSend
<1>1. UNCHANGED <<inbox, requests, sends, arb_timer, block>> /\ Made' = Made
  BY DEF flags, history, Made
<1>2. age \in [1 .. Made -> Nat] /\ \A c \in Boards : Keeps(c, age, led)
  BY DEF Elections
<1>3. \A kinds, c : Heard(kinds, c)' <=> Heard(kinds, c)
  BY <1>1 DEF Heard
<1>4. \A d \in Boards \ {b} :
           /\ pc'[d] = pc[d] /\ delay'[d] = delay[d] /\ arb_timer'[d] = arb_timer[d]
           /\ block'[d] = block[d]
           /\ s_zcf_send_requested'[d] = s_zcf_send_requested[d]
           /\ s_zcf_arb_pending'[d] = s_zcf_arb_pending[d]
  BY <1>1 DEF Goto, flags, TypeOK
<1>5. pc[b] # "send"
  OBVIOUS
<1>6. ASSUME NEW c \in Boards, c # b PROVE Keeps(c, age, led)'
  BY <1>1, <1>2, <1>3, <1>4, <1>5, <1>6, AloneKeeps
<1>7. Keeps(b, age, led)'
  <2>1. pc'[b] \in {"won", "delay", "wait", "announce"} /\ (Answering(b)' => Answering(b))
        /\ (Answering(b)' => Remains(b)' = Remains(b))
        /\ (pc'[b] = "delay" => s_zcf_send_requested'[b])
    <3>1. CASE FindElapsed(b)
      <4>1. /\ pc[b] = "wait" /\ pc'[b] = "won" /\ s_zcf_arb_pending[b] /\ arb_timer[b] = 0
            /\ ~s_zcf_send_requested[b]
        BY <3>1 DEF Elapsed, Goto, TypeOK, Fits
      <4>2. Remains(b) = TriggerDelay /\ Remains(b)' = TriggerDelay
        BY <4>1, BoundsAreNat DEF Remains
      <4> QED
        BY <4>1, <4>2 DEF Answering
    <3>2. CASE Win(b)
      <4>1. /\ pc[b] = "won" /\ pc'[b] = "delay" /\ s_zcf_send_requested'[b]
            /\ delay'[b] = TriggerDelay
        BY <3>2 DEF Goto, TypeOK
      <4> QED
        BY <4>1 DEF Answering, Remains
    <3>3. CASE Withdraw(b)
      <4>1. /\ pc[b] = "delay" /\ pc'[b] = "wait" /\ ~s_zcf_send_requested[b]
            /\ s_zcf_send_requested' = s_zcf_send_requested
            /\ s_zcf_arb_pending' = s_zcf_arb_pending
        BY <3>3 DEF Goto, TypeOK, flags
      <4> QED
        BY <1>1, <4>1 DEF Answering, Remains
    <3>4. CASE StartSend(b)
      <4>1. /\ pc[b] = "delay" /\ pc'[b] = "announce" /\ s_zcf_send_requested[b] /\ delay[b] = 0
        BY <3>4 DEF Goto, TypeOK
      <4> QED
        BY <4>1 DEF Answering, Remains
    <3> QED
      BY <3>1, <3>2, <3>3, <3>4
  <2>2. ASSUME Answering(b)'
        PROVE  \E i \in 1 .. Made : On(b, age[i])' /\ i \notin led
    <3>1. PICK i \in 1 .. Made : On(b, age[i]) /\ (i \in led => Doomed(b))
      BY <1>2, <2>1, <2>2 DEF Keeps
    <3>2. On(b, age[i])'
      BY <2>1, <2>2, <3>1 DEF On
    <3>3. i \notin led
      <4>1. SUFFICES ASSUME i \in led PROVE FALSE
        OBVIOUS
      <4>2. age[i] \in Nat /\ age[i] >= TriggerDelay + 20 /\ Doomed(b)
        BY <1>2, <3>1, <4>1 DEF Elections
      <4>3. pc[b] = "delay" /\ s_zcf_send_requested[b] /\ delay[b] > 0
        BY <2>1, <2>2, <3>1, <4>2, LedIsLate
      <4> QED
        BY <4>3
    <3> QED
      BY <3>2, <3>3
  <2>3. Answering(b)' => \E i \in 1 .. Made : On(b, age[i])' /\ (i \in led => Doomed(b)')
    BY <2>2
  <2>4. (Heard({"request"}, b)' => Made > 0 /\ age[Made] = 0) /\ (Heard({"data"}, b)' => led # {})
    BY <1>2, <1>3 DEF Keeps
  <2> QED
    BY <1>1, <2>1, <2>3, <2>4 DEF Keeps
<1> QED
  BY <1>1, <1>6, <1>7 DEF Elections

\* The one that begins to send is the first for its request, and all others that
\* took it up have longer to wait than its data block takes.
LEMMA OnceAnnounces ==
  ASSUME TypeOK, Spaced, TriggerDelay >= 32, NEW age, NEW led, Elections(age, led),
         NEW b \in Boards, \A c \in Boards : Fits(c), AnnounceSize(b)
  PROVE  \E more : Elections(age, more)'
<1>1. /\ pc[b] = "announce" /\ pc' = [pc EXCEPT ![b] = "send"]
      /\ inbox' = Broadcast(b, SizeClaim(b), inbox)
      /\ block' = [block EXCEPT ![b] = BlockTime]
      /\ sends' = sends + 1
      /\ UNCHANGED <<requests, arb_timer, s_zcf_arb_pending, s_zcf_send_requested, delay>>
      /\ Made' = Made
  BY DEF AnnounceSize, Goto, Made
<1>2. age \in [1 .. Made -> Nat] /\ \A c \in Boards : Keeps(c, age, led)
  BY DEF Elections
<1>3. Answering(b) /\ Remains(b) = 0 /\ b \in Holders /\ delay[b] = 0
  BY <1>1 DEF Answering, Remains, Fits
<1>4. PICK i \in 1 .. Made : On(b, age[i]) /\ (i \in led => Doomed(b))
  BY <1>2, <1>3 DEF Keeps
<1>5. i \notin led
  <2>1. ~Doomed(b)
    <3>1. \A m \in Boards : block[m] \in Nat
      BY BoardTypes
    <3> QED
      BY <1>3, <3>1 DEF Doomed
  <2> QED
    BY <1>4, <2>1
<1>6. age[i] \in Nat /\ age[i] = BackOff(b) + TriggerDelay
  <2>1. age[i] \in Nat
    BY <1>2
  <2> QED
    BY <1>3, <1>4, <2>1 DEF On
<1> DEFINE more == led \cup {i}
<1>7. \A d \in Boards \ {b} :
           /\ pc'[d] = pc[d] /\ delay'[d] = delay[d] /\ arb_timer'[d] = arb_timer[d]
           /\ block'[d] = block[d]
           /\ s_zcf_send_requested'[d] = s_zcf_send_requested[d]
           /\ s_zcf_arb_pending'[d] = s_zcf_arb_pending[d]
  BY <1>1 DEF TypeOK
<1>8. \A kinds \in {{"request"}, {"data"}}, c \in Boards : Heard(kinds, c)' <=> Heard(kinds, c)
  <2>1. inbox \in Boxes /\ SizeClaim(b) \in Message /\ SizeClaim(b).kind = "size"
    BY TypesParts, MessageTypes DEF SizeClaim
  <2> QED
    BY <1>1, <2>1, BroadcastHolds DEF Heard
<1>9. ASSUME NEW c \in Boards, c # b PROVE Keeps(c, age, more)'
  <2>1. ASSUME Answering(c), On(c, age[i]) PROVE Doomed(c)'
    <3>1. /\ Remains(c) \in Nat /\ BackOff(c) \in 20 .. 51 /\ BackOff(b) \in 20 .. 51
          /\ TriggerDelay \in Nat /\ BlockTime \in Nat
      BY RemainsType, BoardTypes, BoundsAreNat
    <3>2. Remains(c) + BackOff(b) = BackOff(c)
      BY <1>6, <2>1, <3>1 DEF On
    <3>3. c \in Holders
      BY <2>1 DEF Answering, Fits
    <3>4. Remains(c) > BlockTime
      <4>1. b \in Nat /\ c \in Nat
        BY ArbitrationAssumption
      <4>2. CASE b < c
        <5>1. BackOff(b) + BlockTime < BackOff(c)
          BY <1>3, <3>3, <4>2 DEF Spaced
        <5> QED
          BY <3>1, <3>2, <5>1
      <4>3. CASE c < b
        <5>1. BackOff(c) + BlockTime < BackOff(b)
          BY <1>3, <3>3, <4>3 DEF Spaced
        <5> QED
          BY <3>1, <3>2, <5>1
      <4> QED
        BY <1>9, <4>1, <4>2, <4>3
    <3>5. Remains(c) < TriggerDelay
      BY <3>1, <3>2
    <3>6. s_zcf_send_requested[c] /\ Remains(c) = delay[c]
      <4>1. arb_timer[c] \in Nat
        BY BoardTypes
      <4>2. arb_timer[c] + TriggerDelay >= TriggerDelay
        BY <3>1, <4>1
      <4>3. pc[c] # "announce" /\ pc[c] # "won"
        BY <3>1, <3>4, <3>5 DEF Remains
      <4>4. s_zcf_send_requested[c]
        <5>1. SUFFICES ASSUME ~s_zcf_send_requested[c] PROVE FALSE
          OBVIOUS
        <5>2. Remains(c) = arb_timer[c] + TriggerDelay
          BY <4>3, <5>1 DEF Remains
        <5> QED
          BY <3>1, <3>5, <4>1, <5>2
      <4> QED
        BY <4>3, <4>4 DEF Remains
    <3>7. pc'[b] = "send" /\ delay'[c] > block'[b]
      BY <1>1, <3>4, <3>6 DEF TypeOK
    <3> QED
      BY <1>9, <3>7 DEF Doomed
  <2>2. \A j \in more \ led : j = i
    OBVIOUS
  <2>3. pc[b] # "send"
    BY <1>1
  <2>4. \A j \in more \ led : Answering(c) /\ On(c, age[j]) => Doomed(c)'
    BY <2>1, <2>2
  <2>5. (Heard({"request"}, c)' => Heard({"request"}, c)) /\ (Heard({"data"}, c)' <=> Heard({"data"}, c))
    BY <1>8
  <2> HIDE DEF more
  <2>6. led \subseteq more
    BY DEF more
  <2> QED
    BY <1>1, <1>2, <1>7, <1>9, <2>3, <2>4, <2>5, <2>6, AloneKeeps
<1>10. Keeps(b, age, more)'
  <2>1. pc'[b] = "send" /\ ~s_zcf_arb_pending'[b] /\ ~s_zcf_send_requested'[b]
    BY <1>1 DEF TypeOK, Fits
  <2>2. Heard({"request"}, b)' => Made > 0 /\ age[Made] = 0
    BY <1>2, <1>8 DEF Keeps
  <2> QED
    BY <1>1, <2>1, <2>2 DEF Keeps, Answering
<1>11. more \subseteq 1 .. Made /\ sends' <= Cardinality(more)
  <2>1. IsFiniteSet(1 .. Made)
    BY FS_Interval, BoundsAreNat DEF Made, TypeOK
  <2>2. IsFiniteSet(led) /\ led \in SUBSET (1 .. Made) /\ sends <= Cardinality(led)
    BY <2>1, FS_Subset DEF Elections
  <2>3. Cardinality(more) = Cardinality(led) + 1 /\ Cardinality(led) \in Nat
    BY <1>5, <2>2, FS_AddElement, FS_CardinalityType
  <2>4. sends \in Nat
    BY DEF TypeOK
  <2> QED
    BY <1>1, <2>2, <2>3, <2>4
<1>12. \A j \in more : age[j] >= TriggerDelay + 20
  <2>1. age[i] >= TriggerDelay + 20
    BY <1>6, BoardTypes
  <2> QED
    BY <2>1 DEF Elections
<1> QED
  BY <1>1, <1>2, <1>9, <1>10, <1>11, <1>12 DEF Elections

\* A data block arrives: whoever would have met it while it waits has met it.
LEMMA OnceBlock ==
  ASSUME TypeOK, NEW age, NEW led, Elections(age, led), NEW b \in Boards,
         \A c \in Boards : Fits(c), NEW last \in BOOLEAN, BlockArrives(b, last)
  PROVE  Elections(age, led)'
<1>1. /\ pc[b] = "send" /\ block[b] = 0
      /\ pc' = [pc EXCEPT ![b] = IF last THEN "wait" ELSE "send"]
      /\ inbox' = Broadcast(b, DataBlock(b), inbox)
      /\ block' = [block EXCEPT ![b] = IF last THEN 0 ELSE BlockTime]
      /\ UNCHANGED <<requests, sends, arb_timer, s_zcf_arb_pending, s_zcf_send_requested, delay>>
      /\ Made' = Made
  BY DEF BlockArrives, Goto, Made, history
<1>2. age \in [1 .. Made -> Nat] /\ \A c \in Boards : Keeps(c, age, led)
  BY DEF Elections
<1>3. led # {}
  BY <1>1, <1>2 DEF Keeps
<1>4. inbox \in Boxes /\ DataBlock(b) \in Message /\ DataBlock(b).kind = "data"
  BY TypesParts, MessageTypes DEF DataBlock
<1>5. ASSUME NEW c \in Boards
      PROVE  /\ Heard({"request"}, c)' <=> Heard({"request"}, c)
             /\ Heard({"data"}, c)' <=> Heard({"data"}, c) \/ c # b
  BY <1>1, <1>4, BroadcastHolds DEF Heard
<1>6. ASSUME NEW c \in Boards, c # b PROVE Keeps(c, age, led)'
  <2>1. /\ pc'[c] = pc[c] /\ delay'[c] = delay[c] /\ arb_timer'[c] = arb_timer[c]
        /\ s_zcf_send_requested'[c] = s_zcf_send_requested[c]
        /\ s_zcf_arb_pending'[c] = s_zcf_arb_pending[c]
        /\ s_zcf_arb_pending'[c] \in BOOLEAN
    BY <1>1, <1>6 DEF TypeOK
  <2>2. Doomed(c) => Doomed(c)'
    <3>1. SUFFICES ASSUME Doomed(c) PROVE delay[c] > 0 /\ Heard({"data"}, c)'
      BY <2>1 DEF Doomed
    <3>2. delay[c] \in Nat /\ \A m \in Boards : block[m] \in Nat
      BY BoardTypes
    <3>3. delay[c] > 0
      BY <3>1, <3>2 DEF Doomed
    <3> QED
      BY <1>5, <1>6, <3>3
  <2>3. Heard({"request"}, c)' => Heard({"request"}, c)
    BY <1>5
  <2> QED
    BY <1>1, <1>2, <1>3, <2>1, <2>2, <2>3, KeepsApart
<1>7. Keeps(b, age, led)'
  <2>1. pc'[b] \in {"wait", "send"} /\ ~s_zcf_arb_pending'[b] /\ ~s_zcf_send_requested'[b]
    BY <1>1 DEF TypeOK, Fits
  <2>2. Heard({"request"}, b)' => Made > 0 /\ age[Made] = 0
    BY <1>2, <1>5 DEF Keeps
  <2> QED
    BY <1>1, <1>3, <2>1, <2>2 DEF Keeps, Answering
<1> QED
  BY <1>1, <1>6, <1>7 DEF Elections

\* Claims make a module withdraw and concern nothing else.
LEMMA OnceClaims ==
  ASSUME TypeOK, NEW age, NEW led, Elections(age, led), NEW b \in Boards,
         \A c \in Boards : Fits(c), HandleClaim(b) \/ Advertise(b)
  PROVE  Elections(age, led)'
<1>1. inbox \in Boxes /\ ModuleClaim(b) \in Message /\ ModuleClaim(b).kind = "module"
  BY TypesParts, MessageTypes DEF ModuleClaim
<1>2. ASSUME NEW c \in Boards, NEW kinds \in {{"request"}, {"data"}}
      PROVE  Heard(kinds, c)' <=> Heard(kinds, c)
  <2>1. CASE HandleClaim(b)
    <3>1. inbox[b] # <<>> /\ Head(inbox[b]).kind \in {"size", "module"} /\ Taken(b) \in Boxes
      BY <1>1, <2>1, TakenType DEF HandleClaim, Receive
    <3>2. inbox' = Taken(b) \/ inbox' = Broadcast(b, ModuleClaim(b), Taken(b))
      BY <2>1 DEF HandleClaim
    <3>3. Heard(kinds, c) <=> Holds(kinds, Taken(b)[c])
      BY <1>1, <3>1, TakenHolds
    <3>4. Holds(kinds, Broadcast(b, ModuleClaim(b), Taken(b))[c]) <=> Holds(kinds, Taken(b)[c])
      BY <1>1, <3>1, BroadcastHolds
    <3> QED
      BY <3>2, <3>3, <3>4 DEF Heard
  <2>2. CASE Advertise(b)
    BY <1>1, <2>2, BroadcastHolds DEF Heard, Advertise
  <2> QED
    BY <2>1, <2>2
<1>3. /\ UNCHANGED <<pc, delay, block, arb_timer, s_zcf_send_requested, requests, sends>>
      /\ Made' = Made
      /\ s_zcf_arb_pending' \in [Boards -> BOOLEAN]
      /\ \A c \in Boards : s_zcf_arb_pending'[c] => s_zcf_arb_pending[c]
  BY DEF HandleClaim, Advertise, TypeOK, flags, history, Made
<1>4. ASSUME NEW c \in Boards PROVE Keeps(c, age, led)'
  <2>1. Doomed(c) => Doomed(c)'
    BY <1>2, <1>3 DEF Doomed
  <2>2. age \in [1 .. Made -> Nat] /\ Keeps(c, age, led)
    BY DEF Elections
  <2>3. Heard({"request"}, c)' => Heard({"request"}, c)
    BY <1>2
  <2>4. Heard({"data"}, c)' => Heard({"data"}, c)
    BY <1>2
  <2>5. s_zcf_arb_pending'[c] \in BOOLEAN
    BY <1>3
  <2> QED
    BY <1>3, <2>1, <2>2, <2>3, <2>4, <2>5, KeepsApart
<1> QED
  BY <1>3, <1>4 DEF Elections

\* What a handler does to the boards of others: nothing, but that it takes a message.
LEMMA TakenKeeps ==
  ASSUME TypeOK, NEW age, NEW led, Elections(age, led), NEW b \in Boards,
         \A c \in Boards : Fits(c), inbox[b] # <<>>, inbox' = Taken(b),
         UNCHANGED <<pc, delay, block, requests>>,
         NEW c \in Boards, c # b \/ (/\ "data" # Head(inbox[b]).kind
                                     /\ UNCHANGED <<s_zcf_arb_pending, arb_timer, s_zcf_send_requested>>),
         arb_timer'[c] = arb_timer[c],
         s_zcf_send_requested'[c] = s_zcf_send_requested[c],
         s_zcf_arb_pending'[c] = s_zcf_arb_pending[c]
  PROVE  Keeps(c, age, led)'
<1>1. inbox \in Boxes
  BY TypesParts
<1>2. /\ Heard({"request"}, c)' => Heard({"request"}, c)
      /\ Heard({"data"}, c)' <=> Heard({"data"}, c)
  <2>1. \A kinds : Heard(kinds, c) <=> Heard(kinds, c)' \/ (c = b /\ Head(inbox[b]).kind \in kinds)
    BY <1>1, TakenHolds DEF Heard
  <2> QED
    BY <2>1
<1>3. Doomed(c) => Doomed(c)'
  BY <1>2 DEF Doomed
<1>4. age \in [1 .. Made -> Nat] /\ Keeps(c, age, led) /\ s_zcf_arb_pending'[c] \in BOOLEAN
  BY DEF Elections, TypeOK
<1> QED
  BY <1>2, <1>3, <1>4, KeepsApart

LEMMA OnceTakesUp ==
  ASSUME TypeOK, TriggerDelay >= 32, NEW age, NEW led, Elections(age, led), NEW b \in Boards,
         \A c \in Boards : Fits(c), HandleRequest(b), ~slipped', Made <= 2 \/ Prompt
  PROVE  Elections(age, led)'
<1>1. /\ inbox[b] # <<>> /\ Head(inbox[b]).kind = "request" /\ inbox' = Taken(b)
      /\ UNCHANGED <<pc, delay, block, requests, sends, s_zcf_send_requested>>
      /\ Made' = Made
  BY DEF HandleRequest, Receive, Made
<1>2. CASE UNCHANGED <<s_zcf_arb_pending, arb_timer>>
  <2>1. \A c \in Boards : Keeps(c, age, led)'
    BY <1>1, <1>2, TakenKeeps
  <2> QED
    BY <1>1, <2>1 DEF Elections
<1>3. CASE ~UNCHANGED <<s_zcf_arb_pending, arb_timer>>
  <2>1. /\ ~s_zcf_send_requested[b] /\ ~s_zcf_send_active[b] /\ ~s_zcf_arb_pending[b]
        /\ s_zcf_arb_pending' = [s_zcf_arb_pending EXCEPT ![b] = TRUE]
        /\ arb_timer' = [arb_timer EXCEPT ![b] = BackOff(b)]
        /\ pc[b] # "announce"
    BY <1>3 DEF HandleRequest
  <2>2. ASSUME NEW c \in Boards, c # b PROVE Keeps(c, age, led)'
    <3>1. arb_timer'[c] = arb_timer[c] /\ s_zcf_arb_pending'[c] = s_zcf_arb_pending[c]
      BY <2>1, <2>2 DEF TypeOK
    <3> QED
      BY <1>1, <2>2, <3>1, TakenKeeps
  <2>3. Keeps(b, age, led) /\ age \in [1 .. Made -> Nat]
    BY DEF Elections
  <2>4. inbox \in Boxes
    BY TypesParts
  <2>5. \A kinds : Heard(kinds, b) <=> Heard(kinds, b)' \/ Head(inbox[b]).kind \in kinds
    BY <1>1, <2>4, TakenHolds DEF Heard
  <2>6. Heard({"request"}, b) /\ (Heard({"data"}, b)' <=> Heard({"data"}, b))
    BY <1>1, <2>5
  <2>7. Made > 0 /\ age[Made] = 0
    BY <2>3, <2>6 DEF Keeps
  <2>8. /\ s_zcf_arb_pending'[b] /\ arb_timer'[b] = BackOff(b)
        /\ ~s_zcf_send_requested'[b] /\ pc'[b] = pc[b] /\ delay'[b] = delay[b]
    BY <1>1, <2>1 DEF TypeOK
  <2>9. pc[b] \in {"wait", "won", "delay"}
    <3>1. pc[b] \in {"wait", "won", "delay", "announce", "send"}
      BY DEF TypeOK
    <3> QED
      BY <2>1, <3>1 DEF Fits
  <2>10. Made \in 1 .. Made
    BY <2>7, BoundsAreNat DEF Made, TypeOK
  <2>11. \E i \in 1 .. Made : On(b, age[i])' /\ (i \in led => Doomed(b)')
    <3>1. CASE pc[b] = "won"
      <4>1. Answering(b) /\ Remains(b)' = Remains(b)
        BY <2>8, <3>1 DEF Answering, Remains
      <4>2. PICK i \in 1 .. Made : On(b, age[i]) /\ (i \in led => Doomed(b))
        BY <2>3, <4>1 DEF Keeps
      <4>3. On(b, age[i])'
        BY <4>1, <4>2 DEF On
      <4>4. Doomed(b) => Doomed(b)'
        BY <1>1, <2>6 DEF Doomed
      <4> QED
        BY <4>2, <4>3, <4>4
    <3>2. CASE pc[b] \in {"wait", "delay"}
      <4>1. Remains(b)' = BackOff(b) + TriggerDelay
        BY <2>8, <3>2 DEF Remains
      <4> PICK m \in 1 .. Made : m = Made
        BY <2>10
      <4>2. On(b, age[m])'
        <5>1. BackOff(b) + TriggerDelay \in Nat
          BY BoardTypes
        <5>2. Remains(b)' + 0 = BackOff(b) + TriggerDelay
          BY <4>1, <5>1
        <5> QED
          BY <2>7, <5>2 DEF On
      <4>3. m \notin led
        <5>2. ~(0 >= TriggerDelay + 20)
          BY BoundsAreNat
        <5> QED
          BY <2>7, <5>2 DEF Elections
      <4> QED
        BY <4>2, <4>3
    <3> QED
      BY <2>9, <3>1, <3>2
  <2>12. pc[b] = "delay" => delay[b] <= BackOff(b)
    <3>1. SUFFICES ASSUME pc[b] = "delay" PROVE delay[b] <= BackOff(b)
      OBVIOUS
    <3>2. CASE Made <= 2
      <4>1. delay[b] <= BackOff(b) \/ (Made = 2 /\ age[2] > 0)
        BY <2>1, <2>3, <3>1, <3>2 DEF Keeps
      <4> QED
        BY <2>7, <4>1
    <3>3. CASE Prompt
      BY <2>1, <2>8, <3>1, <3>3 DEF Prompt
    <3> QED
      BY <3>2, <3>3
  <2>13. Heard({"data"}, b)' \/ pc'[b] = "send" => led # {}
    BY <2>3, <2>6, <2>8 DEF Keeps
  <2>14. Keeps(b, age, led)'
    BY <1>1, <2>7, <2>8, <2>11, <2>12, <2>13 DEF Keeps
  <2> QED
    BY <1>1, <2>2, <2>14 DEF Elections
<1> QED
  BY <1>2, <1>3

\* A download is cancelled.  With no more than two requests so far, what remains of
\* its delay is short, or no request is on its way that could be taken up.
LEMMA OnceCancels ==
  ASSUME TypeOK, TriggerDelay >= 32, NEW age, NEW led, Elections(age, led), NEW b \in Boards,
         \A c \in Boards : Fits(c), HandleDataBlock(b)
  PROVE  Elections(age, led)'
<1>1. /\ inbox[b] # <<>> /\ Head(inbox[b]).kind = "data" /\ inbox' = Taken(b)
      /\ UNCHANGED <<pc, delay, block, requests, sends, s_zcf_arb_pending, arb_timer>>
      /\ s_zcf_send_requested' = [s_zcf_send_requested EXCEPT ![b] = FALSE]
      /\ Made' = Made
  BY DEF HandleDataBlock, Receive, Made, history
<1>2. ASSUME NEW c \in Boards, c # b PROVE Keeps(c, age, led)'
  <2>1. s_zcf_send_requested'[c] = s_zcf_send_requested[c]
    BY <1>1, <1>2 DEF TypeOK
  <2> QED
    BY <1>1, <1>2, <2>1, TakenKeeps
<1>3. Keeps(b, age, led) /\ age \in [1 .. Made -> Nat] /\ led \subseteq 1 .. Made
  BY DEF Elections
<1>4. inbox \in Boxes
  BY TypesParts
<1>5. \A kinds : Heard(kinds, b) <=> Heard(kinds, b)' \/ Head(inbox[b]).kind \in kinds
  BY <1>1, <1>4, TakenHolds DEF Heard
<1>6. Heard({"data"}, b) /\ (Heard({"request"}, b)' => Heard({"request"}, b))
  BY <1>1, <1>5
<1>7. led # {}
  BY <1>3, <1>6 DEF Keeps
<1>8. /\ ~s_zcf_send_requested'[b] /\ pc'[b] = pc[b] /\ delay'[b] = delay[b]
      /\ s_zcf_arb_pending'[b] = s_zcf_arb_pending[b] /\ arb_timer'[b] = arb_timer[b]
  BY <1>1 DEF TypeOK
<1>9. delay[b] \in Nat /\ BackOff(b) \in 20 .. 51 /\ TriggerDelay \in Nat
      /\ delay[b] <= TriggerDelay
  <2>1. delay[b] \in 0 .. TriggerDelay
    BY DEF TypeOK
  <2> QED
    BY <2>1, BoardTypes
<1>10. ASSUME s_zcf_send_requested[b], Made <= 2
       PROVE  delay[b] <= BackOff(b) \/ (Made = 2 /\ age[2] > 0)
  <2>1. pc[b] = "delay" /\ Answering(b) /\ Remains(b) = delay[b]
    BY <1>10 DEF Fits, Answering, Remains
  <2>2. PICK i \in 1 .. Made : On(b, age[i])
    BY <1>3, <2>1 DEF Keeps
  <2>3. PICK j \in 1 .. Made : j \in led
    BY <1>3, <1>7
  <2>4. age[i] \in Nat /\ age[j] \in Nat /\ age[j] >= TriggerDelay + 20 /\ Made \in Nat
    BY <1>3, <2>2, <2>3, BoundsAreNat DEF Elections, Made, TypeOK
  <2>5. delay[b] + age[i] = BackOff(b) + TriggerDelay
    BY <2>1, <2>2 DEF On
  <2>6. CASE i = j
    BY <1>9, <2>4, <2>5, <2>6
  <2>7. CASE i # j
    <3>1. Made = 2 /\ (j = 2 \/ i = 2)
      BY <1>10, <2>2, <2>3, <2>4, <2>7
    <3>2. CASE j = 2
      BY <1>9, <2>4, <3>1, <3>2
    <3>3. CASE i = 2
      BY <1>9, <2>4, <2>5, <3>1, <3>3
    <3> QED
      BY <3>1, <3>2, <3>3
  <2> QED
    BY <2>6, <2>7
<1>11. Answering(b)' => \E i \in 1 .. Made : On(b, age[i])' /\ (i \in led => Doomed(b)')
  <2>1. SUFFICES ASSUME Answering(b)'
                 PROVE  \E i \in 1 .. Made : On(b, age[i])' /\ (i \in led => Doomed(b)')
    OBVIOUS
  <2>2. Answering(b) /\ Remains(b)' = Remains(b) /\ ~s_zcf_send_requested[b]
    BY <1>8, <2>1 DEF Answering, Remains, Fits
  <2>3. PICK i \in 1 .. Made : On(b, age[i]) /\ (i \in led => Doomed(b))
    BY <1>3, <2>2 DEF Keeps
  <2>4. i \notin led
    <3>1. SUFFICES ASSUME i \in led PROVE FALSE
      OBVIOUS
    <3>2. age[i] \in Nat /\ age[i] >= TriggerDelay + 20
      BY <1>3, <3>1 DEF Elections
    <3> QED
      BY <2>2, <2>3, <3>1, <3>2, LedIsLate
  <2>5. On(b, age[i])'
    BY <2>2, <2>3 DEF On
  <2> QED
    BY <2>4, <2>5
<1>12. pc'[b] = "delay" /\ ~s_zcf_send_requested'[b] =>
         IF s_zcf_arb_pending'[b] THEN delay'[b] <= arb_timer'[b]
         ELSE Made <= 2 => delay'[b] <= BackOff(b) \/ (Made = 2 /\ age[2] > 0)
  <2>1. CASE s_zcf_send_requested[b]
    <3>1. ~s_zcf_arb_pending[b]
      BY <2>1 DEF Fits
    <3> QED
      BY <1>8, <1>10, <2>1, <3>1
  <2>2. CASE ~s_zcf_send_requested[b]
    BY <1>3, <1>8, <2>2 DEF Keeps
  <2> QED
    BY <2>1, <2>2
<1>13. (Heard({"request"}, b)' => Made > 0 /\ age[Made] = 0)
       /\ (Heard({"data"}, b)' \/ pc'[b] = "send" => led # {})
  BY <1>3, <1>6, <1>7 DEF Keeps
<1>14. Keeps(b, age, led)'
  BY <1>1, <1>11, <1>12, <1>13 DEF Keeps
<1> QED
  BY <1>1, <1>2, <1>14 DEF Elections

LEMMA OnceTick ==
  ASSUME TypeOK, TriggerDelay >= 32, NEW age, NEW led, Elections(age, led),
         \A c \in Boards : Fits(c), Tick
  PROVE  \E older : Elections(older, led)'
<1> PICK older : older = [i \in 1 .. Made |-> age[i] + 1]
  OBVIOUS
<1>1. /\ UNCHANGED <<pc, inbox, requests, sends, s_zcf_arb_pending, s_zcf_send_requested>>
      /\ Made' = Made
  BY DEF Tick, history, Made
<1>2. /\ age \in [1 .. Made -> Nat] /\ \A c \in Boards : Keeps(c, age, led)
      /\ led \subseteq 1 .. Made /\ \A i \in led : age[i] >= TriggerDelay + 20
  BY DEF Elections
<1>3. \A c \in Boards : inbox[c] = <<>> /\ ~Due(c)
  BY DEF Tick, Due
<1>4. \A kinds : ~Holds(kinds, <<>>)
  BY DEF Holds
<1>5. \A kinds : \A c \in Boards : ~Heard(kinds, c)
  BY <1>3, <1>4 DEF Heard
<1>6. \A c \in Boards :
        /\ arb_timer'[c] = IF arb_timer[c] > 0 THEN arb_timer[c] - 1 ELSE 0
        /\ delay'[c] = IF delay[c] > 0 THEN delay[c] - 1 ELSE 0
        /\ block'[c] = IF block[c] > 0 THEN block[c] - 1 ELSE 0
  BY DEF Tick, Less
<1>7. ASSUME NEW b \in Boards PROVE Keeps(b, older, led)'
  <2>1. /\ delay[b] \in Nat /\ arb_timer[b] \in Nat /\ TriggerDelay \in Nat
        /\ BackOff(b) \in Nat
    BY BoardTypes
  <2>2. pc[b] \in {"wait", "delay", "send"} /\ (pc[b] = "delay" => delay[b] > 0)
    <3>1. pc[b] \notin {"won", "announce"} /\ ~(pc[b] = "delay" /\ delay[b] = 0)
      BY <1>3 DEF Due
    <3> QED
      BY <2>1, <3>1 DEF TypeOK
  <2>3. Answering(b)' => \E i \in 1 .. Made : On(b, older[i])' /\ (i \in led => Doomed(b)')
    <3>1. SUFFICES ASSUME Answering(b)'
                   PROVE  \E i \in 1 .. Made : On(b, older[i])' /\ (i \in led => Doomed(b)')
      OBVIOUS
    <3>2. Answering(b)
      BY <1>1, <3>1 DEF Answering
    <3>3. PICK i \in 1 .. Made : On(b, age[i]) /\ (i \in led => Doomed(b))
      BY <1>2, <3>2 DEF Keeps
    <3>4. Remains(b) > 0 /\ Remains(b)' = Remains(b) - 1
      <4>1. CASE s_zcf_send_requested[b]
        <5>1. pc[b] = "delay" /\ pc'[b] = "delay" /\ s_zcf_send_requested'[b]
          BY <1>1, <4>1 DEF Fits
        <5> QED
          BY <1>6, <2>1, <2>2, <4>1, <5>1 DEF Remains
      <4>2. CASE ~s_zcf_send_requested[b]
        <5>1. pc[b] \in {"wait", "delay"} /\ s_zcf_arb_pending[b]
          BY <2>2, <3>2, <4>2 DEF Answering
        <5>2. arb_timer[b] > 0
          <6>1. CASE pc[b] = "wait"
            BY <1>3, <2>1, <5>1, <6>1 DEF Due, Elapsed
          <6>2. CASE pc[b] = "delay"
            <7>1. delay[b] <= arb_timer[b]
              BY <1>2, <4>2, <5>1, <6>2 DEF Keeps
            <7> QED
              BY <2>1, <2>2, <6>2, <7>1
          <6> QED
            BY <5>1, <6>1, <6>2
        <5>3. Remains(b) = arb_timer[b] + TriggerDelay
          BY <4>2, <5>1 DEF Remains
        <5>4. Remains(b)' = arb_timer'[b] + TriggerDelay
          BY <1>1, <4>2, <5>1 DEF Remains
        <5>5. arb_timer'[b] = arb_timer[b] - 1
          BY <1>6, <5>2
        <5> QED
          BY <2>1, <5>2, <5>3, <5>4, <5>5
      <4> QED
        BY <4>1, <4>2
    <3>5. On(b, older[i])'
      <4>1. age[i] \in Nat /\ Remains(b) \in Nat /\ older[i] = age[i] + 1
        BY <1>2, RemainsType
      <4>2. Remains(b)' + (age[i] + 1) = BackOff(b) + TriggerDelay
        BY <2>1, <3>3, <3>4, <4>1 DEF On
      <4> QED
        BY <4>1, <4>2 DEF On
    <3>6. Doomed(b) => Doomed(b)'
      <4>1. SUFFICES ASSUME Doomed(b) PROVE Doomed(b)'
        OBVIOUS
      <4>2. PICK m \in Boards \ {b} : pc[m] = "send" /\ delay[b] > block[m]
        BY <1>5, <4>1 DEF Doomed
      <4>3. block[m] \in Nat /\ block[m] # 0
        BY <1>3, <4>2, BoardTypes DEF Due
      <4>4. delay'[b] > block'[m]
        BY <1>6, <2>1, <4>2, <4>3
      <4> QED
        BY <1>1, <4>2, <4>4 DEF Doomed
    <3> QED
      BY <3>3, <3>5, <3>6
  <2>4. pc'[b] = "delay" /\ ~s_zcf_send_requested'[b] =>
         IF s_zcf_arb_pending'[b] THEN delay'[b] <= arb_timer'[b]
         ELSE Made <= 2 => delay'[b] <= BackOff(b) \/ (Made = 2 /\ older[2] > 0)
    <3>1. SUFFICES ASSUME pc[b] = "delay", ~s_zcf_send_requested[b]
                   PROVE  IF s_zcf_arb_pending[b] THEN delay'[b] <= arb_timer'[b]
                          ELSE Made <= 2 => delay'[b] <= BackOff(b) \/ (Made = 2 /\ older[2] > 0)
      BY <1>1
    <3>2. CASE s_zcf_arb_pending[b]
      <4>1. delay[b] <= arb_timer[b]
        BY <1>2, <3>1, <3>2 DEF Keeps
      <4> QED
        BY <1>6, <2>1, <3>2, <4>1
    <3>3. CASE ~s_zcf_arb_pending[b]
      <4>1. Made <= 2 => delay[b] <= BackOff(b) \/ (Made = 2 /\ age[2] > 0)
        BY <1>2, <3>1, <3>3 DEF Keeps
      <4>2. Made = 2 => older[2] > 0
        BY <1>2
      <4>3. delay[b] <= BackOff(b) => delay'[b] <= BackOff(b)
        BY <1>6, <2>1
      <4> QED
        BY <3>3, <4>1, <4>2, <4>3
    <3> QED
      BY <3>2, <3>3
  <2>5. ~Heard({"request"}, b)' /\ ~Heard({"data"}, b)'
    BY <1>1, <1>5 DEF Heard
  <2>6. pc'[b] = "send" => led # {}
    BY <1>1, <1>2 DEF Keeps
  <2> QED
    BY <1>1, <2>3, <2>4, <2>5, <2>6 DEF Keeps
<1>8. older \in [1 .. Made -> Nat] /\ \A i \in led : older[i] >= TriggerDelay + 20
  <2>1. \A i \in 1 .. Made : age[i] \in Nat
    BY <1>2
  <2> QED
    BY <1>2, <2>1, BoundsAreNat
<1>9. sends' <= Cardinality(led)
  BY <1>1 DEF Elections
<1> QED
  BY <1>1, <1>2, <1>7, <1>8, <1>9 DEF Elections

LEMMA OnceAsked ==
  ASSUME TypeOK, NEW age, NEW led, Elections(age, led),
         \A c \in Boards : Fits(c), requests <= MaxRequests, ReadRequest
  PROVE  requests' <= MaxRequests /\ \E newer : Elections(newer, led)'
<1> PICK newer : newer = [i \in 1 .. Made + 1 |-> IF i <= Made THEN age[i] ELSE 0]
  OBVIOUS
<1>1. /\ UNCHANGED <<pc, sends, s_zcf_arb_pending, s_zcf_send_requested, delay, block, arb_timer>>
      /\ requests' = requests - 1
  BY DEF ReadRequest, flags
<1>2. /\ age \in [1 .. Made -> Nat] /\ \A c \in Boards : Keeps(c, age, led)
      /\ led \subseteq 1 .. Made /\ \A i \in led : age[i] >= TriggerDelay + 20
  BY DEF Elections
<1>3. requests \in Nat /\ MaxRequests \in Nat /\ requests > 0
  BY BoundsAreNat DEF TypeOK, ReadRequest
<1>4. Made \in Nat /\ Made' = Made + 1 /\ requests' <= MaxRequests
  BY <1>1, <1>3 DEF Made
<1>5. /\ newer \in [1 .. Made + 1 -> Nat] /\ newer[Made + 1] = 0
      /\ \A i \in 1 .. Made : i \in 1 .. Made + 1 /\ newer[i] = age[i]
  BY <1>2, <1>4
<1>6. inbox \in Boxes /\ Request \in Message /\ Request.kind = "request"
  BY TypesParts, MessageTypes DEF Request
<1>7. ASSUME NEW c \in Boards PROVE Heard({"data"}, c)' <=> Heard({"data"}, c)
  <2>1. inbox[c] \in Seq(Message)
    BY <1>6 DEF Boxes
  <2>2. inbox'[c] \in {inbox[c], Append(inbox[c], Request)}
    BY DEF ReadRequest
  <2>3. CASE inbox'[c] = inbox[c]
    BY <2>3 DEF Heard
  <2>4. CASE inbox'[c] = Append(inbox[c], Request)
    <3>1. "request" \notin {"data"}
      OBVIOUS
    <3> QED
      BY <1>6, <2>1, <2>4, <3>1, AppendHolds DEF Heard
  <2> QED
    BY <2>2, <2>3, <2>4
<1>8. ASSUME NEW b \in Boards PROVE Keeps(b, newer, led)'
  <2>1. Answering(b)' => \E i \in 1 .. Made + 1 : On(b, newer[i])' /\ (i \in led => Doomed(b)')
    <3>1. SUFFICES ASSUME Answering(b)'
                   PROVE  \E i \in 1 .. Made + 1 : On(b, newer[i])' /\ (i \in led => Doomed(b)')
      OBVIOUS
    <3>2. Answering(b)
      BY <1>1, <3>1 DEF Answering
    <3>3. PICK i \in 1 .. Made : On(b, age[i]) /\ (i \in led => Doomed(b))
      BY <1>2, <3>2 DEF Keeps
    <3>4. On(b, newer[i])'
      BY <1>1, <1>5, <3>3 DEF On, Remains
    <3>5. Doomed(b) => Doomed(b)'
      BY <1>1, <1>7 DEF Doomed
    <3> QED
      BY <1>5, <3>3, <3>4, <3>5
  <2>2. pc'[b] = "delay" /\ ~s_zcf_send_requested'[b] =>
         IF s_zcf_arb_pending'[b] THEN delay'[b] <= arb_timer'[b]
         ELSE Made' <= 2 => delay'[b] <= BackOff(b) \/ (Made' = 2 /\ newer[2] > 0)
    <3>1. Made' <= 2 => Made <= 2 /\ Made # 2
      BY <1>4
    <3> QED
      BY <1>1, <1>2, <3>1 DEF Keeps
  <2>3. Made' > 0 /\ newer[Made'] = 0
    BY <1>4, <1>5
  <2>4. Heard({"data"}, b)' \/ pc'[b] = "send" => led # {}
    BY <1>1, <1>2, <1>7 DEF Keeps
  <2> QED
    BY <1>4, <2>1, <2>2, <2>3, <2>4 DEF Keeps
<1>9. led \subseteq 1 .. Made + 1 /\ \A i \in led : newer[i] >= TriggerDelay + 20
  BY <1>2, <1>5
<1>10. sends' <= Cardinality(led)
  BY <1>1 DEF Elections
<1>11. Elections(newer, led)'
  BY <1>4, <1>5, <1>8, <1>9, <1>10 DEF Elections
<1> QED
  BY <1>4, <1>11

LEMMA OnceStep ==
  ASSUME TypeOK, Spaced, TriggerDelay >= 32, OnceInv, [Next]_vars, ~slipped', Made <= 2 \/ Prompt
  PROVE  OnceInv'
<1>1. \A c \in Boards : Fits(c)
  BY DEF OnceInv
<1>2. \A c \in Boards : Fits(c)'
  BY <1>1, FitsStep
<1>3. PICK age, led : Elections(age, led)
  BY DEF OnceInv
<1>4. requests <= MaxRequests
  BY DEF OnceInv
<1>5. CASE ReadRequest
  BY <1>1, <1>2, <1>3, <1>4, <1>5, OnceAsked DEF OnceInv
<1>6. CASE UNCHANGED vars
  <2>1. UNCHANGED <<pc, inbox, requests, sends, s_zcf_arb_pending, s_zcf_send_requested, delay,
                    block, arb_timer>>
    BY <1>6 DEF vars, flags, history
  <2>2. Made' = Made
    BY <2>1 DEF Made
  <2>3. \A b \in Boards : Keeps(b, age, led)'
    <3>1. \A b \in Boards : Keeps(b, age, led)
      BY <1>3 DEF Elections
    <3> QED
      BY <2>1, <2>2, <3>1 DEF Keeps, Heard, Answering, On, Remains, Doomed
  <2>4. Elections(age, led)'
    BY <1>3, <2>1, <2>2, <2>3 DEF Elections
  <2> QED
    BY <1>2, <1>4, <2>1, <2>4 DEF OnceInv
<1>7. CASE Tick
  <2>1. \E older : Elections(older, led)'
    BY <1>1, <1>3, <1>7, OnceTick
  <2>2. requests' = requests
    BY <1>7 DEF Tick, history
  <2> QED
    BY <1>2, <1>4, <2>1, <2>2 DEF OnceInv
<1>8. ASSUME NEW b \in Boards, Handler(b) \/ Task(b) \/ Advertise(b)
      PROVE  requests' = requests /\ \E more : Elections(age, more)'
  <2>1. CASE HandleClaim(b) \/ Advertise(b)
    BY <1>1, <1>3, <2>1, OnceClaims DEF HandleClaim, Advertise, history
  <2>2. CASE HandleRequest(b)
    BY <1>1, <1>3, <2>2, OnceTakesUp DEF HandleRequest
  <2>3. CASE HandleDataBlock(b)
    BY <1>1, <1>3, <2>3, OnceCancels DEF HandleDataBlock, history
  <2>4. CASE FindElapsed(b) \/ Win(b) \/ Withdraw(b) \/ StartSend(b)
    <3>1. Elections(age, led)'
      BY <1>1, <1>3, <2>4, OnceMoves
    <3> QED
      BY <2>4, <3>1 DEF FindElapsed, Win, Withdraw, StartSend, history
  <2>5. CASE AnnounceSize(b)
    BY <1>1, <1>3, <2>5, OnceAnnounces DEF AnnounceSize
  <2>6. ASSUME NEW last \in BOOLEAN, BlockArrives(b, last)
        PROVE  requests' = requests /\ \E more : Elections(age, more)'
    BY <1>1, <1>3, <2>6, OnceBlock DEF BlockArrives, history
  <2> QED
    BY <1>8, <2>1, <2>2, <2>3, <2>4, <2>5, <2>6 DEF Handler, Task
<1>9. ASSUME NEW b \in Boards, Handler(b) \/ Task(b) \/ Advertise(b) PROVE OnceInv'
  BY <1>2, <1>4, <1>8, <1>9 DEF OnceInv
<1> QED
  BY <1>5, <1>6, <1>7, <1>9 DEF Next

LEMMA OnceCounts == ASSUME TypeOK, OnceInv PROVE AnsweredOnce
<1>1. PICK age, led : Elections(age, led)
  BY DEF OnceInv
<1>2. requests \in Nat /\ MaxRequests \in Nat /\ requests <= MaxRequests /\ sends \in Nat
  BY BoundsAreNat DEF TypeOK, OnceInv
<1>3. Made \in Nat
  BY <1>2 DEF Made
<1>4. IsFiniteSet(1 .. Made) /\ Cardinality(1 .. Made) = Made
  BY <1>3, FS_Interval
<1>5. Cardinality(led) <= Made /\ Cardinality(led) \in Nat
  <2>1. led \in SUBSET (1 .. Made)
    BY <1>1 DEF Elections
  <2> QED
    BY <1>4, <2>1, FS_Subset, FS_CardinalityType
<1>6. sends <= Made
  BY <1>1, <1>2, <1>3, <1>5 DEF Elections
<1> QED
  BY <1>2, <1>6 DEF AnsweredOnce, Made

LEMMA SlippedStays == ASSUME TypeOK, [Next]_vars, slipped PROVE slipped'
BY DEF TypeOK, Next, ReadRequest, Tick, Handler, HandleClaim, HandleRequest, HandleDataBlock, Task,
   FindElapsed, Win, Withdraw, StartSend, AnnounceSize, BlockArrives, Advertise, history, vars

LEMMA MadeGrows == ASSUME TypeOK, [Next]_vars PROVE Made <= Made'
<1>1. requests' = requests \/ (requests > 0 /\ requests' = requests - 1)
  BY DEF Next, ReadRequest, Tick, Handler, HandleClaim, HandleRequest, HandleDataBlock, Task,
     FindElapsed, Win, Withdraw, StartSend, AnnounceSize, BlockArrives, Advertise, history, vars
<1>2. requests \in Nat /\ MaxRequests \in Nat
  BY BoundsAreNat DEF TypeOK
<1> QED
  BY <1>1, <1>2 DEF Made

\* "Holders elect a single sender" (README.md): of the first two requests, whoever
\* hears which and however they overlap, none is answered twice, under the
\* conditions of LowestCorrect; unless one arrives at a module that is about to send.
THEOREM AnsweredCorrect ==
  ASSUME Spaced, TriggerDelay >= 32
  PROVE  Spec => [](Made <= 2 => AnsweredOnce)
<1> DEFINE Inv == Made <= 2 => slipped \/ OnceInv
<1>1. Init => TypeOK /\ Inv
  BY TypesStart, OnceStart
<1>2. TypeOK /\ Inv /\ [Next]_vars => (TypeOK /\ Inv)'
  <2> SUFFICES ASSUME TypeOK, Inv, [Next]_vars PROVE TypeOK' /\ Inv'
    OBVIOUS
  <2>1. ASSUME Made' <= 2, ~slipped' PROVE OnceInv'
    <3>1. Made <= 2
      <4>1. Made \in Int /\ Made' \in Int
        <5>1. requests \in Nat
          BY DEF TypeOK
        <5>2. requests' \in Nat
          <6>1. TypeOK'
            BY TypesStep
          <6> QED
            BY <6>1 DEF TypeOK
        <5> QED
          BY <5>1, <5>2, BoundsAreNat DEF Made
      <4> QED
        BY <2>1, <4>1, MadeGrows
    <3>2. OnceInv
      BY <2>1, <3>1, SlippedStays
    <3> QED
      BY <2>1, <3>1, <3>2, OnceStep
  <2> QED
    BY <2>1, TypesStep
<1>3. TypeOK /\ Inv => (Made <= 2 => AnsweredOnce)
  BY OnceCounts DEF AnsweredOnce
<1> QED
  BY <1>1, <1>2, <1>3, PTL DEF Spec

\* The same of any number of requests, if no module takes one up while what remains
\* of the delay of a cancelled download is longer than its back-off.  Without this two
\* modules may come to wait together for the same moment.
THEOREM PromptlyOnce ==
  ASSUME Spaced, TriggerDelay >= 32
  PROVE  Spec /\ [][Prompt]_vars => []AnsweredOnce
<1> DEFINE Inv == slipped \/ OnceInv
<1>1. Init => TypeOK /\ Inv
  BY TypesStart, OnceStart
<1>2. TypeOK /\ Inv /\ [Next]_vars /\ [Prompt]_vars => (TypeOK /\ Inv)'
  <2> SUFFICES ASSUME TypeOK, Inv, [Next]_vars, [Prompt]_vars PROVE TypeOK' /\ Inv'
    OBVIOUS
  <2>1. CASE slipped
    BY <2>1, TypesStep, SlippedStays
  <2>2. CASE OnceInv /\ ~slipped'
    <3>1. Prompt
      <4>1. CASE UNCHANGED vars
        BY <4>1 DEF Prompt, vars, flags
      <4> QED
        BY <4>1
    <3> QED
      BY <2>2, <3>1, TypesStep, OnceStep
  <2> QED
    BY <2>1, <2>2, TypesStep
<1>3. TypeOK /\ Inv => AnsweredOnce
  BY OnceCounts DEF AnsweredOnce
<1> QED
  BY <1>1, <1>2, <1>3, PTL DEF Spec
-----------------------------------------------------------------------------
(* How soon the first of them sends *)

\* Until the first transfer begins no module that took a request up withdraws, and
\* what it has left to wait shortens with the time, whatever else is asked
\* meanwhile: the first answer is due when the shortest back-off and the delay are over.
AnswerNears ==
  [][sends' = 0 => \A b \in heard :
       /\ Answering(b)'
       /\ Remains(b)' = IF Tick THEN Remains(b) - 1 ELSE Remains(b)]_vars

\* As long as nobody has sent there are no claims and no data blocks on the bus, and
\* whoever took a request up is on the way to its download.
Unanswered(b) ==
  /\ ~Heard({"size", "module", "data"}, b)
  /\ claim_timer[b] = 0 /\ pc[b] # "send"
  /\ pc[b] = "won" => s_zcf_arb_pending[b]
  /\ s_zcf_send_requested[b] <=> pc[b] = "delay"
  /\ b \in heard => Answering(b)

NotYet == sends = 0 => \A b \in Boards : Unanswered(b)

LEMMA NotYetStart == Init => NotYet
<1>1. \A kinds : ~Holds(kinds, <<>>)
  BY DEF Holds
<1> QED
  BY <1>1 DEF Init, NotYet, Unanswered, Heard

LEMMA NothingElseHeard ==
  ASSUME TypeOK, NEW b \in Boards, Unanswered(b), NEW kinds, Receive(b, kinds),
         kinds \subseteq {"size", "module", "data"}
  PROVE  FALSE
<1>1. inbox \in Boxes /\ inbox[b] # <<>> /\ Head(inbox[b]).kind \in kinds
  BY TypesParts DEF Receive
<1>2. Heard(kinds, b)
  BY <1>1, TakenHolds
<1>3. Heard({"size", "module", "data"}, b)
  BY <1>2 DEF Heard, Holds
<1> QED
  BY <1>3 DEF Unanswered

LEMMA SendsGrow == ASSUME TypeOK, [Next]_vars, sends' = 0 PROVE sends = 0
<1>1. sends \in Nat
  BY DEF TypeOK
<1> QED
  BY <1>1 DEF Next, ReadRequest, Tick, Handler, HandleClaim, HandleRequest, HandleDataBlock, Task,
   FindElapsed, Win, Withdraw, StartSend, AnnounceSize, BlockArrives, Advertise, history, vars

\* What a module does with a request, and what protocol_task does next, before the
\* first transfer.
Moves(c) == HandleRequest(c) \/ FindElapsed(c) \/ Win(c) \/ StartSend(c)

LEMMA FirstMoves ==
  ASSUME TypeOK, NotYet, Next, sends' = 0
  PROVE  ReadRequest \/ Tick \/ \E c \in Boards : Moves(c)
<1>1. sends = 0 /\ sends \in Nat /\ \A b \in Boards : Unanswered(b)
  BY SendsGrow DEF NotYet, TypeOK
<1>2. ASSUME NEW c \in Boards, HandleClaim(c) \/ HandleDataBlock(c) PROVE FALSE
  <2>1. Unanswered(c)
    BY <1>1
  <2>2. Receive(c, {"size", "module"}) \/ Receive(c, {"data"})
    BY <1>2 DEF HandleClaim, HandleDataBlock
  <2>3. /\ {"size", "module"} \subseteq {"size", "module", "data"}
        /\ {"data"} \subseteq {"size", "module", "data"}
    OBVIOUS
  <2> QED
    BY <2>1, <2>2, <2>3, NothingElseHeard
<1>3. ASSUME NEW c \in Boards, AnnounceSize(c) PROVE FALSE
  BY <1>1, <1>3 DEF AnnounceSize
<1>4. ASSUME NEW c \in Boards, Withdraw(c) \/ Advertise(c) \/ \E last \in BOOLEAN : BlockArrives(c, last)
      PROVE  FALSE
  BY <1>1, <1>4 DEF Withdraw, Advertise, BlockArrives, Unanswered
<1> QED
  BY <1>2, <1>3, <1>4 DEF Next, Handler, Task, Moves

\* The time that a module has left to wait, whose state this step does not concern.
LEMMA OthersStay ==
  ASSUME TypeOK, NEW b \in Boards, NEW c \in Boards, b # c, Moves(c)
  PROVE  /\ s_zcf_arb_pending'[b] = s_zcf_arb_pending[b] /\ arb_timer'[b] = arb_timer[b]
         /\ s_zcf_send_requested'[b] = s_zcf_send_requested[b] /\ pc'[b] = pc[b]
         /\ delay'[b] = delay[b] /\ claim_timer' = claim_timer
         /\ b \in heard' <=> b \in heard
<1> USE DEF TypeOK, flags, history
<1>1. CASE HandleRequest(c)
  <2>1. UNCHANGED <<s_zcf_send_requested, pc, delay, claim_timer>>
    BY <1>1 DEF HandleRequest
  <2>2. \/ UNCHANGED <<s_zcf_arb_pending, arb_timer, heard>>
        \/ /\ s_zcf_arb_pending' = [s_zcf_arb_pending EXCEPT ![c] = TRUE]
           /\ arb_timer' = [arb_timer EXCEPT ![c] = BackOff(c)]
           /\ heard' = heard \cup {c}
    BY <1>1 DEF HandleRequest
  <2> QED
    BY <2>1, <2>2
<1>2. CASE FindElapsed(c)
  BY <1>2 DEF FindElapsed, Goto
<1>3. CASE Win(c)
  BY <1>3 DEF Win, Goto
<1>4. CASE StartSend(c)
  BY <1>4 DEF StartSend, Goto
<1> QED
  BY <1>1, <1>2, <1>3, <1>4 DEF Moves

\* A module that moves stays on its way, and has as long to wait as before.
LEMMA MoveKeepsTime ==
  ASSUME TypeOK, NEW b \in Boards, Unanswered(b), Moves(b)
  PROVE  /\ b \in heard => Remains(b)' = Remains(b)
         /\ claim_timer' = claim_timer
         /\ pc'[b] # "send" /\ (pc'[b] = "won" => s_zcf_arb_pending'[b])
         /\ s_zcf_send_requested'[b] <=> pc'[b] = "delay"
         /\ b \in heard' => Answering(b)'
<1>0. /\ s_zcf_arb_pending[b] \in BOOLEAN /\ s_zcf_send_requested[b] \in BOOLEAN
      /\ arb_timer[b] \in Nat /\ delay[b] \in Nat /\ TriggerDelay \in Nat
      /\ pc[b] \in {"wait", "won", "delay", "announce", "send"}
  BY BoundsAreNat DEF TypeOK
<1>1. CASE HandleRequest(b)
  <2>1. UNCHANGED <<s_zcf_send_requested, pc, delay, claim_timer>>
    BY <1>1 DEF HandleRequest
  <2>2. CASE UNCHANGED <<s_zcf_arb_pending, arb_timer, heard>>
    BY <2>1, <2>2 DEF Unanswered, Remains, Answering
  <2>3. CASE ~UNCHANGED <<s_zcf_arb_pending, arb_timer, heard>>
    <3>1. /\ ~s_zcf_send_requested[b] /\ ~s_zcf_arb_pending[b]
          /\ s_zcf_arb_pending' = [s_zcf_arb_pending EXCEPT ![b] = TRUE]
      BY <1>1, <2>3 DEF HandleRequest
    <3>2. pc[b] \in {"wait", "announce"} /\ s_zcf_arb_pending'[b]
      BY <1>0, <3>1 DEF Unanswered, TypeOK
    <3>3. b \in heard => pc[b] = "announce"
      BY <3>1, <3>2 DEF Unanswered, Answering
    <3> QED
      BY <2>1, <3>1, <3>2, <3>3 DEF Unanswered, Remains, Answering
  <2> QED
    BY <2>2, <2>3
<1>2. CASE FindElapsed(b)
  <2>1. /\ pc[b] = "wait" /\ s_zcf_arb_pending[b] /\ arb_timer[b] = 0 /\ pc'[b] = "won"
        /\ UNCHANGED <<flags, claim_timer, delay, history>>
    BY <1>2 DEF FindElapsed, Elapsed, Goto, TypeOK
  <2> QED
    BY <1>0, <2>1 DEF Unanswered, Remains, Answering, flags, history
<1>3. CASE Win(b)
  <2>1. /\ pc[b] = "won" /\ pc'[b] = "delay" /\ delay'[b] = TriggerDelay
        /\ s_zcf_send_requested'[b] /\ UNCHANGED <<claim_timer, history>>
    BY <1>3 DEF Win, Goto, TypeOK
  <2> QED
    BY <1>0, <2>1 DEF Unanswered, Remains, Answering, history
<1>4. CASE StartSend(b)
  <2>1. /\ pc[b] = "delay" /\ delay[b] = 0 /\ s_zcf_send_requested[b] /\ pc'[b] = "announce"
        /\ ~s_zcf_send_requested'[b] /\ UNCHANGED <<claim_timer, history>>
    BY <1>4 DEF StartSend, Goto, TypeOK
  <2> QED
    BY <1>0, <2>1 DEF Unanswered, Remains, Answering, history
<1> QED
  BY <1>1, <1>2, <1>3, <1>4 DEF Moves

\* The same when time passes, which it does not when something is due.
LEMMA TickTakesTime ==
  ASSUME TypeOK, NEW b \in Boards, Unanswered(b), Tick
  PROVE  /\ b \in heard => Remains(b)' = Remains(b) - 1
         /\ claim_timer'[b] = 0 /\ UNCHANGED <<pc, s_zcf_arb_pending, s_zcf_send_requested, inbox, heard>>
<1>1. /\ UNCHANGED <<pc, s_zcf_arb_pending, s_zcf_send_requested, inbox, heard>>
      /\ arb_timer'[b] = IF arb_timer[b] > 0 THEN arb_timer[b] - 1 ELSE 0
      /\ delay'[b] = IF delay[b] > 0 THEN delay[b] - 1 ELSE 0
      /\ claim_timer'[b] = IF claim_timer[b] > 0 THEN claim_timer[b] - 1 ELSE 0
  BY DEF Tick, Less, history
<1>2. claim_timer'[b] = 0
  BY <1>1 DEF Unanswered
<1>3. /\ arb_timer[b] \in Nat /\ delay[b] \in Nat /\ TriggerDelay \in Nat
      /\ pc[b] \in {"wait", "won", "delay", "announce", "send"}
  BY BoundsAreNat DEF TypeOK
<1>4. /\ pc[b] \notin {"won", "announce"}
      /\ pc[b] = "wait" => ~(s_zcf_arb_pending[b] /\ arb_timer[b] = 0)
      /\ pc[b] = "delay" => delay[b] # 0
  BY DEF Tick, Due, Elapsed
<1>5. ASSUME b \in heard PROVE Remains(b)' = Remains(b) - 1
  <2>1. CASE pc[b] = "delay"
    <3>1. s_zcf_send_requested[b] /\ delay[b] > 0
      BY <1>3, <1>4, <2>1 DEF Unanswered
    <3> QED
      BY <1>1, <1>3, <2>1, <3>1 DEF Remains
  <2>2. CASE pc[b] = "wait"
    <3>1. ~s_zcf_send_requested[b] /\ s_zcf_arb_pending[b]
      BY <1>5, <2>2 DEF Unanswered, Answering
    <3>2. arb_timer[b] > 0
      BY <1>3, <1>4, <2>2, <3>1
    <3> QED
      BY <1>1, <1>3, <2>2, <3>1, <3>2 DEF Remains
  <2> QED
    BY <1>3, <1>4, <2>1, <2>2 DEF Unanswered
<1> QED
  BY <1>1, <1>2, <1>5

LEMMA NotYetStep == ASSUME TypeOK, NotYet, [Next]_vars PROVE NotYet'
<1> SUFFICES ASSUME sends' = 0, NEW b \in Boards PROVE Unanswered(b)'
  BY DEF NotYet
<1>1. sends = 0 /\ Unanswered(b)
  BY SendsGrow DEF NotYet
<1>2. CASE UNCHANGED vars
  BY <1>1, <1>2 DEF vars, flags, history, Unanswered, Answering, Heard
<1>3. CASE ReadRequest
  <2>1. UNCHANGED <<flags, claim_timer, pc, heard>>
    BY <1>3 DEF ReadRequest
  <2>2. inbox[b] \in Seq(Message) /\ Request \in Message
    BY TypesParts, MessageTypes DEF Boxes
  <2>3. CASE inbox'[b] = inbox[b]
    BY <1>1, <2>1, <2>3 DEF flags, Unanswered, Answering, Heard
  <2>4. CASE inbox'[b] = Append(inbox[b], Request)
    <3>1. Request.kind \notin {"size", "module", "data"}
      BY DEF Request
    <3>2. ~Holds({"size", "module", "data"}, inbox'[b])
      BY <1>1, <2>2, <2>4, <3>1, AppendHolds DEF Unanswered, Heard
    <3> QED
      BY <1>1, <2>1, <3>2 DEF flags, Unanswered, Answering, Heard
  <2> QED
    BY <1>3, <2>3, <2>4 DEF ReadRequest
<1>4. CASE Tick
  <2>1. /\ claim_timer'[b] = 0
        /\ UNCHANGED <<pc, s_zcf_arb_pending, s_zcf_send_requested, inbox, heard>>
    BY <1>1, <1>4, TickTakesTime
  <2> QED
    BY <1>1, <2>1 DEF Unanswered, Answering, Heard
<1>5. ASSUME NEW c \in Boards, Moves(c) PROVE Unanswered(b)'
  <2>1. ~Heard({"size", "module", "data"}, b)'
    <3>1. inbox' = inbox \/ (Receive(c, {"request"}) /\ inbox' = Taken(c))
      BY <1>5 DEF Moves, HandleRequest, FindElapsed, Win, StartSend
    <3>2. inbox \in Boxes
      BY TypesParts
    <3>3. CASE inbox' = inbox
      BY <1>1, <3>3 DEF Unanswered, Heard
    <3>4. CASE Receive(c, {"request"}) /\ inbox' = Taken(c)
      <4>1. inbox[c] # <<>>
        BY <3>4 DEF Receive
      <4>2. ~Holds({"size", "module", "data"}, Taken(c)[b])
        BY <1>1, <3>2, <4>1, TakenHolds DEF Unanswered
      <4> QED
        BY <3>4, <4>2 DEF Heard
    <3> QED
      BY <3>1, <3>3, <3>4
  <2>2. CASE b = c
    BY <1>1, <1>5, <2>1, <2>2, MoveKeepsTime DEF Unanswered
  <2>3. CASE b # c
    <3>1. /\ s_zcf_arb_pending'[b] = s_zcf_arb_pending[b]
          /\ s_zcf_send_requested'[b] = s_zcf_send_requested[b] /\ pc'[b] = pc[b]
          /\ claim_timer' = claim_timer /\ (b \in heard' <=> b \in heard)
      BY <1>5, <2>3, OthersStay
    <3> QED
      BY <1>1, <2>1, <3>1 DEF Unanswered, Answering
  <2> QED
    BY <2>2, <2>3
<1> QED
  BY <1>2, <1>3, <1>4, <1>5, FirstMoves

\* The bounded form of RequestAnswered, of any number of requests and whatever the
\* distance of the back-offs: handle_config_claim and protocol_task never put the
\* first answer off, and nobody withdraws from giving it.
THEOREM AnswerCorrect == Spec => AnswerNears
<1>1. Init => TypeOK /\ NotYet
  BY TypesStart, NotYetStart
<1>2. TypeOK /\ NotYet /\ [Next]_vars => (TypeOK /\ NotYet)'
  BY TypesStep, NotYetStep
<1>3. TypeOK /\ NotYet /\ [Next]_vars =>
        [sends' = 0 => \A b \in heard :
           /\ Answering(b)'
           /\ Remains(b)' = IF Tick THEN Remains(b) - 1 ELSE Remains(b)]_vars
  <2> SUFFICES ASSUME TypeOK, NotYet, Next, sends' = 0, NEW b \in heard
               PROVE  Answering(b)' /\ Remains(b)' = IF Tick THEN Remains(b) - 1 ELSE Remains(b)
    OBVIOUS
  <2>1. b \in Boards
    BY ArbitrationAssumption DEF TypeOK
  <2>2. Unanswered(b) /\ Unanswered(b)'
    BY <2>1, SendsGrow, NotYetStep DEF NotYet
  <2>3. CASE Tick
    <3>1. heard' = heard /\ Remains(b)' = Remains(b) - 1
      BY <2>1, <2>2, <2>3, TickTakesTime
    <3> QED
      BY <2>2, <2>3, <3>1 DEF Unanswered
  <2>4. CASE ReadRequest /\ ~Tick
    <3>1. UNCHANGED <<flags, pc, delay, heard>>
      BY <2>4 DEF ReadRequest
    <3>2. Remains(b)' = Remains(b)
      BY <3>1 DEF flags, Remains
    <3> QED
      BY <2>2, <2>4, <3>1, <3>2 DEF Unanswered
  <2>5. ASSUME NEW c \in Boards, Moves(c), ~Tick
        PROVE  Answering(b)' /\ Remains(b)' = Remains(b)
    <3>1. b \in heard'
      BY <2>5 DEF Moves, HandleRequest, FindElapsed, Win, StartSend, history
    <3>2. Remains(b)' = Remains(b)
      <4>1. CASE b = c
        BY <2>1, <2>2, <2>5, <4>1, MoveKeepsTime
      <4>2. CASE b # c
        <5>1. /\ arb_timer'[b] = arb_timer[b] /\ delay'[b] = delay[b]
              /\ s_zcf_send_requested'[b] = s_zcf_send_requested[b] /\ pc'[b] = pc[b]
          BY <2>1, <2>5, <4>2, OthersStay
        <5> QED
          BY <5>1 DEF Remains
      <4> QED
        BY <4>1, <4>2
    <3> QED
      BY <2>2, <3>1, <3>2 DEF Unanswered
  <2> QED
    BY <2>3, <2>4, <2>5, FirstMoves
<1> QED
  BY <1>1, <1>2, <1>3, PTL DEF Spec, AnswerNears
=============================================================================
