---------------------------- MODULE FastPacketBus ----------------------------
(***************************************************************************)
(* The session table fed by senders.  The senders are the tasks of one     *)
(* node: each sends one message after the other with the loop of           *)
(* send_fast_pgn, as a flow, a (PGN, source) pair, under a number that it  *)
(* takes from s_fp_tx_seq, which they share and which counts modulo 8.     *)
(* The frames of a sender arrive in order; any of them may be lost, arrive *)
(* truncated, or be refused by the transmit queue, which ends the message. *)
(* Strangers send whatever frames they like and compete for the sessions.  *)
(***************************************************************************)
EXTENDS FastPacket

CONSTANTS
  Senders,
  Flows,      \* the (PGN, source) pairs of the senders
  Flow,       \* Flow[s]: what sender s sends
  Strangers,  \* keys under which any frame may come at any time
  StrangeNums,\* the frame numbers strangers send
  Announced,  \* the payload lengths strangers announce
  SeqMod,     \* 8: a sequence number has 3 bits
  Length,     \* Length[s]: the payload length of the messages of s; send_fast_pgn
              \* refuses more than FAST_PACKET_MAX_PAYLOAD
  Patient     \* TRUE: a key is used again only when no session with it is open

FlowKeys == Flows \X (0 .. SeqMod - 1)

\* The counter is kept modulo twice the sequence numbers, enough to tell a message
\* from the last one that had its sequence number.
Counts == 0 .. 2 * SeqMod - 1

ASSUME BusAssumption ==
  /\ SeqMod \in Nat \ {0}
  /\ Flow \in [Senders -> Flows]
  /\ Senders \X Counts \subseteq Msgs
  /\ Announced \subseteq Lengths
  /\ StrangeNums \subseteq Nums
  /\ Keys = FlowKeys \cup Strangers
  /\ FlowKeys \cap Strangers = {}
  /\ Length \in [Senders -> Lengths \cap (1 .. FAST_PACKET_MAX_PAYLOAD)]
  /\ \A s \in Senders : 0 .. ExpectedFrames(Length[s]) - 1 \subseteq Nums
  /\ Patient \in BOOLEAN

VARIABLES
  s_fp_tx_seq,
  tx,      \* tx[s]: the message sender s is sending
  raced    \* history: two tasks have incremented s_fp_tx_seq at the same time

vars == <<s_fp, out, s_fp_tx_seq, tx, raced>>

\* pc is "idle", "loaded" between the two halves of s_fp_tx_seq++, or "sending";
\* clean says that nothing has happened that may lose the message.
Idle == [pc |-> "idle", n |-> 0, offset |-> 0, num |-> 0, clean |-> FALSE]

Init ==
  /\ FpInit
  /\ s_fp_tx_seq = 0
  /\ tx = [s \in Senders |-> Idle]
  /\ raced = FALSE

KeyOf(s, n) == <<Flow[s], n % SeqMod>>
Key(s) == KeyOf(s, tx[s].n)

\* A session with key k whose last frame came less than TTL ago.
Open(table, k) == \E i \in Slots : table[i].active /\ table[i].key = k /\ table[i].age < TTL
InProgress(k) == \E s \in Senders : tx[s].pc # "idle" /\ Key(s) = k

\* s_fp_tx_seq++ is not atomic: the counter is loaded,
LoadSequence(s) ==
  /\ tx[s].pc = "idle"
  /\ raced' = (raced \/ \E t \in Senders : tx[t].pc = "loaded")
  /\ Patient /\ ~raced' => LET k == KeyOf(s, s_fp_tx_seq) IN ~Open(s_fp, k) /\ ~InProgress(k)
  /\ tx' = [tx EXCEPT ![s] = [Idle EXCEPT !.pc = "loaded", !.n = s_fp_tx_seq]]
  /\ out' = None
  /\ UNCHANGED <<s_fp, s_fp_tx_seq>>

\* and stored.
StoreSequence(s) ==
  /\ tx[s].pc = "loaded"
  /\ s_fp_tx_seq' = (tx[s].n + 1) % (2 * SeqMod)
  /\ tx' = [tx EXCEPT ![s].pc = "sending", ![s].clean = TRUE]
  /\ out' = None
  /\ UNCHANGED <<s_fp, raced>>

Sending(s) == tx[s].pc = "sending"
Take(s) == Smaller(Length[s] - tx[s].offset, IF tx[s].num = 0 THEN 6 ELSE 7)

\* The session sender t is using was evicted for another message.
Evicted(t) == \E i \in Slots : Expired[i].active /\ Expired[i].key = Key(t) /\ s_fp'[i].key # Key(t)

\* Sender s has sent a frame, which arrived whole or did not; after its last frame
\* it is idle.
Sent(s, whole) ==
  /\ tx' = [t \in Senders |->
              IF t # s THEN [tx[t] EXCEPT !.clean = @ /\ ~Evicted(t)]
              ELSE IF tx[s].offset + Take(s) = Length[s] THEN Idle
              ELSE [tx[s] EXCEPT !.offset = @ + Take(s), !.num = @ + 1, !.clean = @ /\ whole]]
  /\ UNCHANGED <<s_fp_tx_seq, raced>>

Arrives(s, dlc) == dlc - (IF tx[s].num = 0 THEN 2 ELSE 1) >= Take(s)

FrameArrives(s, dlc) ==
  /\ Sending(s)
  /\ Feed([key |-> Key(s), num |-> tx[s].num, total_len |-> Length[s],
           dlc |-> dlc, msg |-> <<s, tx[s].n>>])
  /\ Sent(s, Arrives(s, dlc))

FrameLost(s) ==
  /\ Sending(s)
  /\ out' = None
  /\ UNCHANGED s_fp
  /\ Sent(s, FALSE)

\* czone_can_send fails: the rest of the message is not sent.
SendFails(s) ==
  /\ Sending(s)
  /\ tx' = [tx EXCEPT ![s] = Idle]
  /\ out' = None
  /\ UNCHANGED <<s_fp, s_fp_tx_seq, raced>>

\* Nothing is said of what a stranger's message is put together from: one will do.
StrangeFrames == [key : Strangers, num : StrangeNums, total_len : Announced, dlc : Dlcs,
                  msg : Msgs \ (Senders \X Counts)]

StrangeFrame(fr) ==
  /\ Feed(fr)
  /\ tx' = [s \in Senders |-> [tx[s] EXCEPT !.clean = @ /\ ~Evicted(s)]]
  /\ UNCHANGED <<s_fp_tx_seq, raced>>

Settled(table) == /\ \A s \in Senders : tx[s].pc = "idle"
                  /\ \A k \in FlowKeys : ~Open(table, k)

\* A message that pauses for the TTL loses its session.  When nothing is under way
\* and no session of the flows is open, a race has no more effect.
Tick ==
  /\ Age
  /\ tx' = [s \in Senders |-> [tx[s] EXCEPT !.clean = @ /\ (tx[s].num = 0 \/ Open(s_fp', Key(s)))]]
  /\ raced' = (raced /\ ~Settled(s_fp'))
  /\ UNCHANGED s_fp_tx_seq

Next ==
  \/ Tick
  \/ \E fr \in StrangeFrames : StrangeFrame(fr)
  \/ \E s \in Senders : \/ LoadSequence(s)
                        \/ StoreSequence(s)
                        \/ FrameLost(s)
                        \/ SendFails(s)
                        \/ \E dlc \in Dlcs : FrameArrives(s, dlc)

Spec == Init /\ [][Next]_vars
-----------------------------------------------------------------------------
\* No payload is put together from the frames of two messages, if a key is not
\* used again within the TTL of a session and no two tasks have incremented
\* s_fp_tx_seq at the same time (feed_fast_packet has nothing but the key and the
\* TTL to tell messages apart).
Unmixed ==
  out # None /\ out.key \in FlowKeys /\ ~raced =>
    \A k \in 1 .. ExpectedFrames(out.total_len) - 1 : out.data[k] = out.data[0]

\* The last frame of a message whose frames all arrived, without a pause of TTL
\* and without an eviction, hands it to the handler, as long as no two tasks have
\* incremented s_fp_tx_seq at the same time.
ReceivedIsDelivered ==
  [][\A s \in Senders, dlc \in Dlcs :
       /\ ~raced
       /\ tx[s].clean /\ Arrives(s, dlc)
       /\ tx[s].offset + Take(s) = Length[s]
       /\ FrameArrives(s, dlc)
       => /\ out' # None
          /\ out'.key = Key(s)
          /\ out'.total_len = Length[s]
          /\ \A k \in 0 .. tx[s].num : out'.data[k] = <<s, tx[s].n>>]_vars
=============================================================================
