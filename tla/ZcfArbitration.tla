---------------------------- MODULE ZcfArbitration ----------------------------
(***************************************************************************)
(* Which module sends its ZCF when a tool asks for one.  Every module that *)
(* has heard the request backs off for a time that grows with its address  *)
(* (handle_config_claim), then, in protocol_task, waits                    *)
(* ZCF_SEND_TRIGGER_DELAY_MS more and sends.  A module withdraws when it   *)
(* hears the claim of a module that outranks it while it backs off, or a   *)
(* data block while it waits.                                              *)
(*                                                                         *)
(* Time passes in units of ZCF_ARB_TICK_MS.  What is due is done, and what *)
(* is on the bus arrives, before time passes; a data block takes           *)
(* BlockTime, since its 32 frames do.                                      *)
(***************************************************************************)
EXTENDS Naturals, Sequences

CONSTANTS
  Boards,         \* the modules, by address
  Holders,        \* those that have a ZCF stored
  Version,        \* compute_module_config_version of each
  TriggerDelay,   \* ZCF_SEND_TRIGGER_DELAY_MS, in units
  ClaimWindow,    \* how long a module advertises itself as a responder
  BlockTime,      \* how long a data block is on the bus
  MaxRequests     \* bound of the model: read requests of the tools

ASSUME ArbitrationAssumption ==
  /\ Boards \subseteq 0 .. 255
  /\ Holders \subseteq Boards
  /\ Version \in [Boards -> Nat]
  /\ TriggerDelay \in Nat /\ ClaimWindow \in Nat
  /\ BlockTime \in Nat \ {0}
  /\ MaxRequests \in Nat

VARIABLES
  s_zcf_arb_pending,
  arb_timer,              \* s_zcf_arb_deadline, as the time that remains
  s_zcf_send_requested,
  s_zcf_send_active,
  claim_timer,            \* s_module_claim_until
  pc,                     \* where protocol_task of each module is
  delay,                  \* what remains of its vTaskDelay
  block,                  \* what remains of the time its data block needs
  inbox,                  \* what has arrived at each module, oldest first
  requests,               \* how many read requests are still to come
  heard,                  \* history: the modules that backed off
  sends,                  \* history: the transfers that have begun
  slipped                 \* history: a module backed off that was about to send

history == <<requests, heard, sends, slipped>>

flags == <<s_zcf_arb_pending, arb_timer, s_zcf_send_requested, s_zcf_send_active>>
vars  == <<flags, claim_timer, pc, delay, block, inbox, history>>

Init ==
  /\ s_zcf_arb_pending = [b \in Boards |-> FALSE]
  /\ arb_timer = [b \in Boards |-> 0]
  /\ s_zcf_send_requested = [b \in Boards |-> FALSE]
  /\ s_zcf_send_active = [b \in Boards |-> FALSE]
  /\ claim_timer = [b \in Boards |-> 0]
  /\ pc = [b \in Boards |-> "wait"]
  /\ delay = [b \in Boards |-> 0]
  /\ block = [b \in Boards |-> 0]
  /\ inbox = [b \in Boards |-> <<>>]
  /\ requests = MaxRequests
  /\ heard = {}
  /\ sends = 0
  /\ slipped = FALSE

BackOff(b) == b \div 8 + 20

Broadcast(from, m, boxes) ==
  [b \in Boards |-> IF b = from THEN boxes[b] ELSE Append(boxes[b], m)]

\* field0 = 0: "you send me yours"; field0 # 0: the claim of module seq, which
\* never tells a version (a module without a ZCF claims field0 = 0, which
\* nobody heeds); "data" is a data block.
Request == [kind |-> "request", seq |-> 0]
SizeClaim(b)   == [kind |-> "size", seq |-> b]
ModuleClaim(b) == [kind |-> "module", seq |-> b]
DataBlock(b)   == [kind |-> "data", seq |-> b]
-----------------------------------------------------------------------------
(* handle_config_claim and handle_zcf_datablock, in czone_protocol_rx_task *)

Receive(b, kinds) == inbox[b] # <<>> /\ Head(inbox[b]).kind \in kinds
Taken(b) == [inbox EXCEPT ![b] = Tail(@)]

\* The claims carry field1 = 0.
Outranks(seq, b) == IF Version[b] # 0 THEN 0 > Version[b] ELSE seq < b

HandleClaim(b) ==
  /\ Receive(b, {"size", "module"})
  /\ LET m == Head(inbox[b])
         announce == m.kind = "size"
     IN /\ s_zcf_arb_pending' = [s_zcf_arb_pending EXCEPT ![b] = @ /\ ~Outranks(m.seq, b)]
        /\ claim_timer' = [claim_timer EXCEPT ![b] = IF announce THEN ClaimWindow ELSE @]
        /\ inbox' = IF announce /\ b \in Holders
                    THEN Broadcast(b, ModuleClaim(b), Taken(b)) ELSE Taken(b)
  /\ UNCHANGED <<arb_timer, s_zcf_send_requested, s_zcf_send_active, pc, delay, block, history>>

\* Mutant of HandleRequest: a module without a ZCF takes part.
HandleAnyRequest(b) ==
  /\ Receive(b, {"request"})
  /\ inbox' = Taken(b)
  /\ IF s_zcf_send_requested[b] \/ s_zcf_send_active[b] \/ s_zcf_arb_pending[b]
     THEN UNCHANGED <<s_zcf_arb_pending, arb_timer, heard, slipped>>
     ELSE /\ s_zcf_arb_pending' = [s_zcf_arb_pending EXCEPT ![b] = TRUE]
          /\ arb_timer' = [arb_timer EXCEPT ![b] = BackOff(b)]
          /\ heard' = heard \cup {b}
          /\ slipped' = (slipped \/ pc[b] = "announce")
  /\ UNCHANGED <<s_zcf_send_requested, s_zcf_send_active, claim_timer, pc, delay, block, requests, sends>>

\* Mutant of HandleRequest: a module that is sending takes part.
HandleWhileSending(b) ==
  /\ Receive(b, {"request"})
  /\ inbox' = Taken(b)
  /\ IF s_zcf_send_requested[b] \/ s_zcf_arb_pending[b] \/ b \notin Holders
     THEN UNCHANGED <<s_zcf_arb_pending, arb_timer, heard, slipped>>
     ELSE /\ s_zcf_arb_pending' = [s_zcf_arb_pending EXCEPT ![b] = TRUE]
          /\ arb_timer' = [arb_timer EXCEPT ![b] = BackOff(b)]
          /\ heard' = heard \cup {b}
          /\ slipped' = (slipped \/ pc[b] = "announce")
  /\ UNCHANGED <<s_zcf_send_requested, s_zcf_send_active, claim_timer, pc, delay, block, requests, sends>>

HandleRequest(b) ==
  /\ Receive(b, {"request"})
  /\ inbox' = Taken(b)
  /\ IF s_zcf_send_requested[b] \/ s_zcf_send_active[b] \/ s_zcf_arb_pending[b] \/ b \notin Holders
     THEN UNCHANGED <<s_zcf_arb_pending, arb_timer, heard, slipped>>
     ELSE /\ s_zcf_arb_pending' = [s_zcf_arb_pending EXCEPT ![b] = TRUE]
          /\ arb_timer' = [arb_timer EXCEPT ![b] = BackOff(b)]
          /\ heard' = heard \cup {b}
          /\ slipped' = (slipped \/ pc[b] = "announce")
  /\ UNCHANGED <<s_zcf_send_requested, s_zcf_send_active, claim_timer, pc, delay, block, requests, sends>>

\* Mutant of HandleDataBlock: a queued download is not cancelled.
IgnoreDataBlock(b) ==
  /\ Receive(b, {"data"})
  /\ inbox' = Taken(b)
  /\ UNCHANGED <<flags, claim_timer, pc, delay, block, history>>

\* The rest of what a data block does is in ZcfUpload.
HandleDataBlock(b) ==
  /\ Receive(b, {"data"})
  /\ inbox' = Taken(b)
  /\ s_zcf_send_requested' = [s_zcf_send_requested EXCEPT ![b] = FALSE]
  /\ UNCHANGED <<s_zcf_arb_pending, arb_timer, s_zcf_send_active, claim_timer, pc, delay, block,
                 history>>
-----------------------------------------------------------------------------
(* protocol_task *)

Elapsed(b) == s_zcf_arb_pending[b] /\ arb_timer[b] = 0

Goto(b, l) == pc' = [pc EXCEPT ![b] = l]

\* It finds that the back-off is over, and acts on it whatever happens between.
FindElapsed(b) ==
  /\ pc[b] = "wait"
  /\ Elapsed(b)
  /\ Goto(b, "won")
  /\ UNCHANGED <<flags, claim_timer, delay, block, inbox, history>>

\* Mutant of Win: the download is not queued.
WinNothing(b) ==
  /\ pc[b] = "won"
  /\ s_zcf_arb_pending' = [s_zcf_arb_pending EXCEPT ![b] = FALSE]
  /\ delay' = [delay EXCEPT ![b] = TriggerDelay]
  /\ Goto(b, "delay")
  /\ UNCHANGED <<s_zcf_send_requested, arb_timer, s_zcf_send_active, claim_timer, block, inbox,
                 history>>

Win(b) ==
  /\ pc[b] = "won"
  /\ s_zcf_arb_pending' = [s_zcf_arb_pending EXCEPT ![b] = FALSE]
  /\ s_zcf_send_requested' = [s_zcf_send_requested EXCEPT ![b] = TRUE]
  /\ delay' = [delay EXCEPT ![b] = TriggerDelay]
  /\ Goto(b, "delay")
  /\ UNCHANGED <<arb_timer, s_zcf_send_active, claim_timer, block, inbox, history>>

\* After the delay it looks again whether the download is still wanted.
Withdraw(b) ==
  /\ pc[b] = "delay" /\ delay[b] = 0
  /\ ~s_zcf_send_requested[b]
  /\ Goto(b, "wait")
  /\ UNCHANGED <<flags, claim_timer, delay, block, inbox, history>>

StartSend(b) ==
  /\ pc[b] = "delay" /\ delay[b] = 0
  /\ s_zcf_send_requested[b]
  /\ s_zcf_send_requested' = [s_zcf_send_requested EXCEPT ![b] = FALSE]
  /\ Goto(b, "announce")
  /\ UNCHANGED <<s_zcf_arb_pending, arb_timer, s_zcf_send_active, claim_timer, delay, block,
                 inbox, history>>

\* czone_protocol_send_zcf: first the claim, then s_zcf_send_active.
AnnounceSize(b) ==
  /\ pc[b] = "announce"
  /\ inbox' = Broadcast(b, SizeClaim(b), inbox)
  /\ s_zcf_send_active' = [s_zcf_send_active EXCEPT ![b] = TRUE]
  /\ block' = [block EXCEPT ![b] = BlockTime]
  /\ Goto(b, "send")
  /\ sends' = sends + 1
  /\ UNCHANGED <<s_zcf_arb_pending, arb_timer, s_zcf_send_requested, claim_timer, delay,
                 requests, heard, slipped>>

\* A data block is complete at the other modules; another follows, or the
\* transfer is over.
BlockArrives(b, last) ==
  /\ pc[b] = "send" /\ block[b] = 0
  /\ inbox' = Broadcast(b, DataBlock(b), inbox)
  /\ block' = [block EXCEPT ![b] = IF last THEN 0 ELSE BlockTime]
  /\ s_zcf_send_active' = [s_zcf_send_active EXCEPT ![b] = ~last]
  /\ Goto(b, IF last THEN "wait" ELSE "send")
  /\ UNCHANGED <<s_zcf_arb_pending, arb_timer, s_zcf_send_requested, claim_timer, delay,
                 history>>

\* While the window is open the task advertises the module every time it wakes up.
Advertise(b) ==
  /\ pc[b] = "wait" /\ claim_timer[b] > 0
  /\ b \in Holders
  /\ \A c \in Boards : inbox[c] = <<>>
  /\ inbox' = Broadcast(b, ModuleClaim(b), inbox)
  /\ UNCHANGED <<flags, claim_timer, pc, delay, block, history>>
-----------------------------------------------------------------------------
\* A tool asks for the configuration; some of the modules may not hear it.
ReadRequest ==
  /\ requests > 0
  /\ requests' = requests - 1
  /\ \E missed \in SUBSET Boards :
       inbox' = [b \in Boards |-> IF b \in missed THEN inbox[b] ELSE Append(inbox[b], Request)]
  /\ UNCHANGED <<flags, claim_timer, pc, delay, block, heard, sends, slipped>>

Less(timer) == [b \in Boards |-> IF timer[b] > 0 THEN timer[b] - 1 ELSE 0]

\* What is due comes first.
Due(b) == \/ inbox[b] # <<>>
          \/ pc[b] = "wait" /\ Elapsed(b)
          \/ pc[b] \in {"won", "announce"}
          \/ pc[b] = "delay" /\ delay[b] = 0
          \/ pc[b] = "send" /\ block[b] = 0

Tick ==
  /\ \A b \in Boards : ~Due(b)
  /\ arb_timer' = Less(arb_timer)
  /\ claim_timer' = Less(claim_timer)
  /\ delay' = Less(delay)
  /\ block' = Less(block)
  /\ UNCHANGED <<s_zcf_arb_pending, s_zcf_send_requested, s_zcf_send_active, pc, inbox,
                 history>>

Handler(b) == HandleClaim(b) \/ HandleRequest(b) \/ HandleDataBlock(b)
Task(b) == \/ FindElapsed(b) \/ Win(b) \/ Withdraw(b) \/ StartSend(b)
           \/ AnnounceSize(b) \/ \E last \in BOOLEAN : BlockArrives(b, last)

Next == ReadRequest \/ Tick \/ \E b \in Boards : Handler(b) \/ Task(b) \/ Advertise(b)

Spec == Init /\ [][Next]_vars

\* Both tasks of every module run, and time passes.
Fairness == /\ WF_vars(Tick)
            /\ \A b \in Boards : WF_vars(Handler(b)) /\ WF_vars(Task(b))

FairSpec == Spec /\ Fairness
-----------------------------------------------------------------------------
Kinds == {"request", "size", "module", "data"}

TypeOK ==
  /\ s_zcf_arb_pending \in [Boards -> BOOLEAN]
  /\ arb_timer \in [Boards -> Nat]
  /\ s_zcf_send_requested \in [Boards -> BOOLEAN]
  /\ s_zcf_send_active \in [Boards -> BOOLEAN]
  /\ claim_timer \in [Boards -> 0 .. ClaimWindow]
  /\ pc \in [Boards -> {"wait", "won", "delay", "announce", "send"}]
  /\ delay \in [Boards -> 0 .. TriggerDelay]
  /\ block \in [Boards -> 0 .. BlockTime]
  /\ inbox \in [Boards -> Seq([kind : Kinds, seq : 0 .. 255])]
  /\ requests \in Nat
  /\ sends \in Nat
  /\ slipped \in BOOLEAN
  /\ heard \subseteq Holders

\* "Lowest module address wins" (the comment above s_zcf_send_requested): only
\* the lowest of the modules that heard the request ever sends.  (Of two requests
\* that overlap, each may be heard by others.)
LowestSends ==
  requests + 1 >= MaxRequests =>
    \A b \in Boards : pc[b] \in {"announce", "send"} => \A c \in heard : b <= c

\* Of two requests none is answered twice, whoever heard them and however they
\* overlap, unless one arrives at a module that is about to send: after
\* protocol_task has cleared s_zcf_send_requested and before it sets
\* s_zcf_send_active the module takes part in the next election, whose back-off
\* it cannot end before its transfer does.
AnsweredOnce == slipped \/ sends + requests <= MaxRequests

\* "Holders elect a single sender" (README.md).
SingleSender ==
  \A b, c \in Boards : s_zcf_send_active[b] /\ s_zcf_send_active[c] => b = c

\* The first request that a holder takes up is answered by somebody: the modules
\* do not all withdraw in favour of each other.  (One that comes during a transfer
\* may not be: the last data block makes the module withdraw that has just won.)
RequestAnswered ==
  (sends = 0 /\ \E b \in Boards : s_zcf_arb_pending[b]) ~> sends > 0
=============================================================================
