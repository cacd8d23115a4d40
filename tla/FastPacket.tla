------------------------------ MODULE FastPacket ------------------------------
(***************************************************************************)
(* Reassembly of NMEA 2000 fast packets.  A message of up to 223 bytes     *)
(* comes as a first frame with 6 of its bytes and continuation frames with *)
(* 7 each.  feed_fast_packet collects the frames of interleaved messages   *)
(* in a table of sessions, keyed by PGN, source and a 3-bit sequence       *)
(* number, which expire after a time and are evicted when the table is     *)
(* full.  Here the frames are arbitrary: any frame may come at any time.   *)
(* FastPacketBus composes the table with senders.                          *)
(*                                                                         *)
(* Of the bytes of a frame the model keeps which message they come from.   *)
(* Of updated_at a session keeps its age, and whether the tick counter has *)
(* turned over since: what the two comparisons in the code tell apart,     *)
(* unless the bus is silent for a whole turn (49 days at 1 kHz).           *)
(***************************************************************************)
EXTENDS Integers

CONSTANTS
  Keys,       \* (PGN, source, sequence number)
  Slots,      \* FAST_PACKET_SESSIONS: the indices of s_fp
  TTL,        \* FAST_PACKET_SESSION_TTL_MS, in ticks
  Lengths,    \* payload lengths a first frame may announce
  Nums,       \* frame numbers, 0 .. 31 in the code
  Dlcs,       \* data lengths of frames
  Msgs,       \* messages the bytes may come from
  Turns,      \* {FALSE, TRUE}: the tick counter may turn over
  None        \* no payload, no data

FAST_PACKET_MAX_PAYLOAD == 223

ASSUME FastPacketAssumption ==
  /\ Slots \subseteq Nat
  /\ TTL \in Nat \ {0}
  /\ Lengths \subseteq 0 .. 255
  /\ Nums \subseteq 0 .. 31
  /\ Dlcs \subseteq 2 .. 8
  /\ Turns \subseteq BOOLEAN
  /\ None \notin Msgs /\ None \notin Keys

Frames == 0 .. 31
Frame  == [key : Keys, num : Nums, total_len : Lengths, dlc : Dlcs, msg : Msgs]

Smaller(i, j) == IF i < j THEN i ELSE j

\* How a payload of n bytes is cut into frames, as feed_fast_packet computes it.
ExpectedFrames(n) == IF n <= 6 THEN 1 ELSE 1 + ((n - 6) + 6) \div 7
Dest(k)    == IF k = 0 THEN 0 ELSE 6 + (k - 1) * 7
Copy(k, n) == IF k = 0 THEN Smaller(n, 6) ELSE Smaller(n - Dest(k), 7)

VARIABLES
  s_fp,    \* the session table
  out      \* what feed_fast_packet returned in this step, or None

fpvars == <<s_fp, out>>

\* What an inactive session still holds is never looked at: its next use clears it.
FreeSession == [active |-> FALSE, key |-> None, total_len |-> 0, frame_mask |-> {},
                data |-> [k \in Frames |-> None], age |-> 0, before |-> FALSE]

FpInit ==
  /\ s_fp = [i \in Slots |-> FreeSession]
  /\ out = None
-----------------------------------------------------------------------------
(* feed_fast_packet *)

\* Mutants of Expired: nothing expires; sessions expire too early.
NeverExpired == s_fp
ExpiredEarly == [i \in Slots |-> IF s_fp[i].age + 1 < TTL THEN s_fp[i] ELSE FreeSession]

\* expire_stale_fast_packet_sessions
Expired == [i \in Slots |-> IF s_fp[i].age < TTL THEN s_fp[i] ELSE FreeSession]

Matching(e, key) == {i \in Slots : e[i].active /\ e[i].key = key}
Inactive(e)      == {i \in Slots : ~e[i].active}

\* updated_at < updated_at: after the tick counter has turned over, the sessions
\* updated since have the smaller values.
Earlier(s, t) == IF s.before = t.before THEN s.age > t.age ELSE t.before
Oldest(e) == {i \in Slots : \A j \in Slots : ~Earlier(e[j], e[i])}

IsFirstOf(i, S) == i \in S /\ \A j \in S : i <= j

\* Mutant of Victim: a free session comes before the frame's own.
FreeVictim(e, key, i) ==
  \/ IsFirstOf(i, Inactive(e))
  \/ Inactive(e) = {} /\ IsFirstOf(i, Matching(e, key))
  \/ Inactive(e) = {} /\ Matching(e, key) = {} /\ IsFirstOf(i, Oldest(e))

\* The session of a first frame: its own, or a free one, or the oldest.
Victim(e, key, i) ==
  \/ IsFirstOf(i, Matching(e, key))
  \/ Matching(e, key) = {} /\ IsFirstOf(i, Inactive(e))
  \/ Matching(e, key) = {} /\ Inactive(e) = {} /\ IsFirstOf(i, Oldest(e))

StartedSession(fr) ==
  [active     |-> TRUE,
   key        |-> fr.key,
   total_len  |-> fr.total_len,
   frame_mask |-> {0},
   data       |-> [k \in Frames |-> IF k = 0 THEN fr.msg ELSE None],
   age        |-> 0,
   before     |-> FALSE]

FirstFits(fr) == /\ fr.total_len <= FAST_PACKET_MAX_PAYLOAD
                 /\ fr.dlc - 2 >= Copy(0, fr.total_len)

\* Whatever the session held is dropped, also when the frame is refused.
FirstFrame(fr) ==
  /\ fr.num = 0
  /\ LET single == Copy(0, fr.total_len) >= fr.total_len
     IN /\ \E i \in Slots :
             /\ Victim(Expired, fr.key, i)
             /\ s_fp' = [Expired EXCEPT ![i] = IF FirstFits(fr) /\ ~single
                                               THEN StartedSession(fr) ELSE FreeSession]
        /\ out' = IF FirstFits(fr) /\ single
                  THEN [key |-> fr.key, total_len |-> fr.total_len, data |-> StartedSession(fr).data]
                  ELSE None

NoSession(fr) ==
  /\ fr.num # 0
  /\ Matching(Expired, fr.key) = {}
  /\ s_fp' = Expired
  /\ out' = None

\* The continuation of the session in slot i.
Continues(fr, i) == fr.num # 0 /\ IsFirstOf(i, Matching(Expired, fr.key))

RepeatedFrame(fr, i) ==
  /\ Continues(fr, i)
  /\ fr.num \in s_fp[i].frame_mask
  /\ s_fp' = [Expired EXCEPT ![i].age = 0, ![i].before = FALSE]
  /\ out' = None

Fits(fr, i) ==
  /\ fr.num < ExpectedFrames(s_fp[i].total_len)
  /\ Dest(fr.num) < s_fp[i].total_len
  /\ fr.dlc - 1 >= Copy(fr.num, s_fp[i].total_len)

MisfitFrame(fr, i) ==
  /\ Continues(fr, i)
  /\ fr.num \notin s_fp[i].frame_mask
  /\ ~Fits(fr, i)
  /\ s_fp' = [Expired EXCEPT ![i] = FreeSession]
  /\ out' = None

\* Mutant of StoreFrame: the message is complete when the last frame is there.
StoreLastFrame(fr, i) ==
  /\ Continues(fr, i)
  /\ fr.num \notin s_fp[i].frame_mask
  /\ Fits(fr, i)
  /\ LET mask     == s_fp[i].frame_mask \cup {fr.num}
         data     == [s_fp[i].data EXCEPT ![fr.num] = fr.msg]
         complete == fr.num = ExpectedFrames(s_fp[i].total_len) - 1
     IN /\ s_fp' = [Expired EXCEPT ![i] =
                      IF complete THEN FreeSession
                      ELSE [@ EXCEPT !.frame_mask = mask, !.data = data,
                                     !.age = 0, !.before = FALSE]]
        /\ out' = IF complete
                  THEN [key |-> fr.key, total_len |-> s_fp[i].total_len, data |-> data]
                  ELSE None

StoreFrame(fr, i) ==
  /\ Continues(fr, i)
  /\ fr.num \notin s_fp[i].frame_mask
  /\ Fits(fr, i)
  /\ LET mask     == s_fp[i].frame_mask \cup {fr.num}
         data     == [s_fp[i].data EXCEPT ![fr.num] = fr.msg]
         complete == 0 .. ExpectedFrames(s_fp[i].total_len) - 1 \subseteq mask
     IN /\ s_fp' = [Expired EXCEPT ![i] =
                      IF complete THEN FreeSession
                      ELSE [@ EXCEPT !.frame_mask = mask, !.data = data,
                                     !.age = 0, !.before = FALSE]]
        /\ out' = IF complete
                  THEN [key |-> fr.key, total_len |-> s_fp[i].total_len, data |-> data]
                  ELSE None

Feed(fr) ==
  \/ FirstFrame(fr)
  \/ NoSession(fr)
  \/ \E i \in Slots : RepeatedFrame(fr, i) \/ MisfitFrame(fr, i) \/ StoreFrame(fr, i)

\* One tick, at which the counter may turn over.
Age ==
  /\ \E turn \in Turns :
       s_fp' = [i \in Slots |->
                  IF s_fp[i].active
                  THEN [s_fp[i] EXCEPT !.age = Smaller(@ + 1, TTL), !.before = @ \/ turn]
                  ELSE s_fp[i]]
  /\ out' = None

\* Another part of the program runs.
Elsewhere == out' = None /\ UNCHANGED s_fp

FpNext == Age \/ Elsewhere \/ \E fr \in Frame : Feed(fr)

FpSpec == FpInit /\ [][FpNext]_fpvars
-----------------------------------------------------------------------------
Session == [active : BOOLEAN, key : Keys \cup {None},
            total_len : 0 .. FAST_PACKET_MAX_PAYLOAD,
            frame_mask : SUBSET Frames, data : [Frames -> Msgs \cup {None}],
            age : 0 .. TTL, before : BOOLEAN]
Payload == [key : Keys, total_len : 0 .. FAST_PACKET_MAX_PAYLOAD,
            data : [Frames -> Msgs \cup {None}]]

ASSUME NoneAssumption == None \notin Payload

TypeOK ==
  /\ s_fp \in [Slots -> Session]
  /\ out \in Payload \cup {None}

\* A frame continues at most one session: no two active sessions have a key.
OneSessionPerKey ==
  \A i, j \in Slots :
    s_fp[i].active /\ s_fp[j].active /\ s_fp[i].key = s_fp[j].key => i = j

\* What is handed to the handler has no hole: every frame of it was received,
\* whatever the order, repetition and mixture of the frames on the bus.
CompletePayload ==
  out # None => \A k \in 0 .. ExpectedFrames(out.total_len) - 1 : out.data[k] # None

\* An active session still waits for a frame; one that waits for nothing would
\* hold its slot, and swallow every frame with its key, until it expires.
ActiveIsIncomplete ==
  \A i \in Slots : s_fp[i].active =>
    \E k \in 0 .. ExpectedFrames(s_fp[i].total_len) - 1 : k \notin s_fp[i].frame_mask
=============================================================================
