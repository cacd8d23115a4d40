--------------------------- MODULE FastPacket_proofs ---------------------------
(***************************************************************************)
(* Proofs about the session table, for any number of sessions and keys and *)
(* any frames, about the arithmetic that cuts a payload into frames, and   *)
(* about the table fed by any number of senders (FastPacketBus).           *)
(***************************************************************************)
EXTENDS FastPacketBus, TLAPS

\* The frames of a payload of n bytes follow each other without a gap, the
\* first starts at 0, the last ends at n, and no frame number needs more than
\* five bits.
THEOREM FramesCoverPayload ==
  ASSUME NEW n \in 1 .. FAST_PACKET_MAX_PAYLOAD
  PROVE  /\ ExpectedFrames(n) \in 1 .. 32
         /\ Dest(0) = 0
         /\ \A k \in 0 .. ExpectedFrames(n) - 2 : Dest(k) + Copy(k, n) = Dest(k + 1)
         /\ Dest(ExpectedFrames(n) - 1) + Copy(ExpectedFrames(n) - 1, n) = n
         /\ \A k \in 0 .. ExpectedFrames(n) - 1 : Dest(k) < n /\ Copy(k, n) \in 1 .. 7
<1> DEFINE E == ExpectedFrames(n)
<1>1. CASE n <= 6
  BY <1>1 DEF ExpectedFrames, Dest, Copy, Smaller, FAST_PACKET_MAX_PAYLOAD
<1>2. CASE n > 6
  <2>1. E = 1 + (n \div 7) /\ n \in 7 .. 223
    BY <1>2 DEF ExpectedFrames, FAST_PACKET_MAX_PAYLOAD
  <2>2. PICK q \in Int, r \in 0 .. 6 : n = 7 * q + r /\ n \div 7 = q
    BY <2>1
  <2>3. q \in 1 .. 31 /\ E = 1 + q
    BY <2>1, <2>2
  <2>4. \A k \in 1 .. q : Dest(k) = 7 * k - 1
    BY <2>3 DEF Dest
  <2>5. \A k \in 1 .. q : Copy(k, n) = Smaller(n - (7 * k - 1), 7)
    BY <2>3, <2>4 DEF Copy
  <2>6. Dest(0) = 0 /\ Copy(0, n) = 6
    BY <2>1 DEF Dest, Copy, Smaller
  <2>7. \A k \in 1 .. q - 1 : n - (7 * k - 1) >= 7
    BY <2>2, <2>3
  <2>8. \A k \in 1 .. q - 1 : Copy(k, n) = 7
    BY <2>2, <2>3, <2>5, <2>7 DEF Smaller
  <2>9. Copy(q, n) = n - (7 * q - 1) /\ n - (7 * q - 1) \in 1 .. 7
    BY <2>2, <2>3, <2>5 DEF Smaller
  <2>10. \A k \in 0 .. E - 2 : Dest(k) + Copy(k, n) = Dest(k + 1)
    <3> TAKE k \in 0 .. E - 2
    <3>1. CASE k = 0
      BY <2>3, <2>4, <2>6, <3>1
    <3>2. CASE k # 0
      BY <2>3, <2>4, <2>8, <3>2
    <3> QED
      BY <3>1, <3>2
  <2>11. Dest(E - 1) + Copy(E - 1, n) = n
    BY <2>2, <2>3, <2>4, <2>9
  <2>12. \A k \in 0 .. E - 1 : Dest(k) < n /\ Copy(k, n) \in 1 .. 7
    <3> TAKE k \in 0 .. E - 1
    <3>1. CASE k = 0
      BY <2>1, <2>6, <3>1
    <3>2. CASE k \in 1 .. q - 1
      BY <2>2, <2>3, <2>4, <2>8, <3>2
    <3>3. CASE k = q
      BY <2>2, <2>3, <2>4, <2>9, <3>3
    <3> QED
      BY <2>3, <3>1, <3>2, <3>3
  <2> QED
    BY <2>3, <2>6, <2>10, <2>11, <2>12
<1> QED
  BY <1>1, <1>2
-----------------------------------------------------------------------------
\* A session that is active has the frames its mask says, and misses one.
SessionOK(s) ==
  s.active => /\ s.total_len <= FAST_PACKET_MAX_PAYLOAD
              /\ \A k \in s.frame_mask : s.data[k] \in Msgs
              /\ \E k \in 0 .. ExpectedFrames(s.total_len) - 1 : k \notin s.frame_mask

\* Session s after a frame of it has come.
Touched(s, m, d) ==
  [s EXCEPT !.frame_mask = m, !.data = d, !.age = 0, !.before = FALSE]

LEMMA SessionTouched ==
  ASSUME NEW s \in Session, NEW m \in SUBSET Frames, NEW d \in [Frames -> Msgs \cup {None}]
  PROVE  /\ Touched(s, m, d) \in Session
         /\ Touched(s, m, d).active = s.active
         /\ Touched(s, m, d).key = s.key
         /\ Touched(s, m, d).total_len = s.total_len
         /\ Touched(s, m, d).frame_mask = m
         /\ Touched(s, m, d).data = d
<1>1. 0 \in 0 .. TTL
  BY FastPacketAssumption
<1> QED
  BY <1>1 DEF Session, Touched

LEMMA SessionRefreshed ==
  ASSUME NEW s \in Session
  PROVE  /\ [s EXCEPT !.age = 0, !.before = FALSE] = Touched(s, s.frame_mask, s.data)
         /\ s.frame_mask \in SUBSET Frames /\ s.data \in [Frames -> Msgs \cup {None}]
  BY DEF Session, Touched

\* Session s after a tick.
Aged(s, turn) == [s EXCEPT !.age = Smaller(@ + 1, TTL), !.before = @ \/ turn]

LEMMA SessionAged ==
  ASSUME NEW s \in Session, NEW turn \in Turns
  PROVE  /\ Aged(s, turn) \in Session
         /\ Aged(s, turn).active = s.active
         /\ Aged(s, turn).key = s.key
         /\ Aged(s, turn).total_len = s.total_len
         /\ Aged(s, turn).frame_mask = s.frame_mask
         /\ Aged(s, turn).data = s.data
<1>1. Smaller(s.age + 1, TTL) \in 0 .. TTL
  BY FastPacketAssumption DEF Session, Smaller
<1>2. turn \in BOOLEAN /\ s.before \in BOOLEAN
  BY FastPacketAssumption DEF Session
<1>3. (s.before \/ turn) \in BOOLEAN
  OBVIOUS
<1> DEFINE a == Smaller(s.age + 1, TTL)
           bef == s.before \/ turn
<1>4. Aged(s, turn) = [s EXCEPT !.age = a, !.before = bef]
  BY DEF Aged, Session
<1>5. a \in 0 .. TTL /\ bef \in BOOLEAN
  BY <1>1, <1>3
<1> HIDE DEF a, bef
<1> QED
  BY <1>4, <1>5 DEF Session

FpInv ==
  /\ TypeOK
  /\ OneSessionPerKey
  /\ CompletePayload
  /\ \A i \in Slots : SessionOK(s_fp[i])

LEMMA FreeTyped == FreeSession \in Session /\ ~FreeSession.active
<1>1. 0 \in 0 .. TTL
  BY FastPacketAssumption
<1> QED
  BY <1>1 DEF FreeSession, Session, Frames, FAST_PACKET_MAX_PAYLOAD

\* Expiry keeps the table in order.
LEMMA ExpiryCorrect ==
  ASSUME FpInv
  PROVE  /\ Expired \in [Slots -> Session]
         /\ \A i \in Slots : SessionOK(Expired[i])
         /\ \A i \in Slots : Expired[i].active => Expired[i] = s_fp[i]
         /\ \A i, j \in Slots :
              Expired[i].active /\ Expired[j].active /\ Expired[i].key = Expired[j].key => i = j
<1>1. \A i \in Slots : Expired[i] \in {s_fp[i], FreeSession}
  BY DEF Expired
<1>2. \A i \in Slots : Expired[i].active => Expired[i] = s_fp[i]
  BY <1>1, FreeTyped
<1>3. Expired \in [Slots -> Session]
  BY FreeTyped DEF Expired, FpInv, TypeOK
<1>4. \A i \in Slots : SessionOK(Expired[i])
  BY <1>1, FreeTyped DEF FpInv, SessionOK
<1> QED
  BY <1>2, <1>3, <1>4 DEF FpInv, OneSessionPerKey

\* Writing one slot keeps the table in order, if what is written is free or
\* has a key no other active session has.
LEMMA SlotWritten ==
  ASSUME FpInv, NEW i \in Slots, NEW s \in Session, SessionOK(s),
         s.active => \A j \in Slots \ {i} : Expired[j].active => Expired[j].key # s.key,
         s_fp' = [Expired EXCEPT ![i] = s]
  PROVE  /\ s_fp' \in [Slots -> Session]
         /\ OneSessionPerKey'
         /\ \A j \in Slots : SessionOK(s_fp'[j])
<1>1. Expired \in [Slots -> Session]
  BY ExpiryCorrect
<1>2. \A j \in Slots : s_fp'[j] = IF j = i THEN s ELSE Expired[j]
  BY <1>1
<1>3. s_fp' \in [Slots -> Session]
  BY <1>1
<1>4. \A j \in Slots : SessionOK(s_fp'[j])
  BY <1>2, ExpiryCorrect
<1>5. OneSessionPerKey'
  BY <1>2, ExpiryCorrect DEF OneSessionPerKey
<1> QED
  BY <1>3, <1>4, <1>5
-----------------------------------------------------------------------------
LEMMA FreeWritten ==
  ASSUME FpInv, NEW i \in Slots, s_fp' = [Expired EXCEPT ![i] = FreeSession]
  PROVE  /\ s_fp' \in [Slots -> Session]
         /\ OneSessionPerKey'
         /\ \A j \in Slots : SessionOK(s_fp'[j])
<1>1. SessionOK(FreeSession)
  BY FreeTyped DEF SessionOK
<1> QED
  BY <1>1, FreeTyped, SlotWritten

\* The types of what the actions take out of a frame and a session.
LEMMA Lengths255 ==
  /\ \A n \in 0 .. 255 : ExpectedFrames(n) \in Nat /\ (n > 6 => ExpectedFrames(n) >= 2)
  /\ \A n \in 0 .. 6 : ExpectedFrames(n) = 1
<1>1. ASSUME NEW n \in 0 .. 255
      PROVE  ExpectedFrames(n) \in Nat /\ (n > 6 => ExpectedFrames(n) >= 2)
  <2>1. CASE n <= 6
    BY <2>1 DEF ExpectedFrames
  <2>2. CASE n > 6
    <3>1. n - 6 + 6 = n /\ n \div 7 \in Nat /\ n \div 7 >= 1
      BY <2>2
    <3> QED
      BY <2>2, <3>1 DEF ExpectedFrames
  <2> QED
    BY <2>1, <2>2
<1>2. \A n \in 0 .. 6 : ExpectedFrames(n) = 1
  BY DEF ExpectedFrames
<1> QED
  BY <1>1, <1>2

LEMMA FirstFrameCorrect ==
  ASSUME FpInv, NEW fr \in Frame, FirstFrame(fr)
  PROVE  FpInv'
<1>1. /\ fr.key \in Keys /\ fr.total_len \in 0 .. 255 /\ fr.dlc \in 2 .. 8 /\ fr.msg \in Msgs
  BY FastPacketAssumption DEF Frame
<1> DEFINE st == StartedSession(fr)
           single == Copy(0, fr.total_len) >= fr.total_len
<1>2. FirstFits(fr) => st \in Session
  <2>1. 0 \in 0 .. TTL
    BY FastPacketAssumption
  <2>2. st.data \in [Frames -> Msgs \cup {None}]
    BY <1>1 DEF StartedSession
  <2> QED
    BY <1>1, <2>1, <2>2 DEF StartedSession, Session, Frames, FirstFits
<1>3. single <=> fr.total_len <= 6
  BY <1>1 DEF Copy, Smaller
<1>4. FirstFits(fr) /\ ~single => SessionOK(st)
  <2>1. st.frame_mask = {0} /\ st.total_len = fr.total_len /\ st.data[0] = fr.msg
    BY DEF StartedSession, Frames
  <2>2. ~single => 1 \in 0 .. ExpectedFrames(fr.total_len) - 1
    BY <1>1, <1>3, Lengths255
  <2> QED
    BY <1>1, <2>1, <2>2 DEF SessionOK, FirstFits
<1>5. PICK i \in Slots :
        /\ Victim(Expired, fr.key, i)
        /\ s_fp' = [Expired EXCEPT ![i] = IF FirstFits(fr) /\ ~single THEN st ELSE FreeSession]
  BY DEF FirstFrame
<1>6. \A j \in Slots \ {i} : Expired[j].active => Expired[j].key # fr.key
  <2>1. CASE IsFirstOf(i, Matching(Expired, fr.key))
    <3>1. Expired[i].active /\ Expired[i].key = fr.key
      BY <2>1 DEF IsFirstOf, Matching
    <3> QED
      BY <3>1, ExpiryCorrect
  <2>2. CASE Matching(Expired, fr.key) = {}
    BY <2>2 DEF Matching
  <2> QED
    BY <1>5, <2>1, <2>2 DEF Victim
<1>7. st.key = fr.key
  BY DEF StartedSession
<1>8. /\ s_fp' \in [Slots -> Session]
      /\ OneSessionPerKey'
      /\ \A j \in Slots : SessionOK(s_fp'[j])
  <2>1. CASE FirstFits(fr) /\ ~single
    BY <1>2, <1>4, <1>5, <1>6, <1>7, <2>1, SlotWritten
  <2>2. CASE ~(FirstFits(fr) /\ ~single)
    BY <1>5, <2>2, FreeWritten
  <2> QED
    BY <2>1, <2>2
<1>9. out' \in Payload \cup {None} /\ CompletePayload'
  <2>1. CASE FirstFits(fr) /\ single
    <3>1. out' = [key |-> fr.key, total_len |-> fr.total_len, data |-> st.data]
      BY <2>1 DEF FirstFrame
    <3>2. fr.total_len \in 0 .. FAST_PACKET_MAX_PAYLOAD
      BY <1>1, <2>1 DEF FirstFits, FAST_PACKET_MAX_PAYLOAD
    <3>3. out' \in Payload
      BY <1>1, <1>2, <2>1, <3>1, <3>2 DEF Payload, Session
    <3>4. out'.data[0] = fr.msg /\ ExpectedFrames(out'.total_len) = 1
      BY <1>1, <1>3, <2>1, <3>1, Lengths255 DEF StartedSession, Frames
    <3>5. fr.msg # None
      BY <1>1, FastPacketAssumption
    <3> QED
      BY <3>3, <3>4, <3>5 DEF CompletePayload
  <2>2. CASE ~(FirstFits(fr) /\ single)
    BY <2>2 DEF FirstFrame, CompletePayload
  <2> QED
    BY <2>1, <2>2
<1> QED
  BY <1>8, <1>9 DEF FpInv, TypeOK

LEMMA StoreFrameCorrect ==
  ASSUME FpInv, NEW fr \in Frame, NEW i \in Slots, StoreFrame(fr, i)
  PROVE  FpInv'
<1> DEFINE s == s_fp[i]
           mask == s.frame_mask \cup {fr.num}
           data == [s.data EXCEPT ![fr.num] = fr.msg]
           complete == 0 .. ExpectedFrames(s.total_len) - 1 \subseteq mask
           kept == Touched(s, mask, data)
<1>1. fr.key \in Keys /\ fr.num \in Frames /\ fr.msg \in Msgs /\ fr.dlc \in 2 .. 8
  BY FastPacketAssumption DEF Frame, Frames
<1>2. Expired[i].active /\ Expired[i].key = fr.key /\ Expired[i] = s /\ s \in Session
  BY ExpiryCorrect DEF StoreFrame, Continues, IsFirstOf, Matching, FpInv, TypeOK
<1>3. SessionOK(s) /\ s.active
  BY <1>2 DEF FpInv
<1>4. mask \in SUBSET Frames /\ data \in [Frames -> Msgs \cup {None}]
  BY <1>1, <1>2 DEF Session
<1>5. \A k \in mask : data[k] \in Msgs
  <2> TAKE k \in mask
  <2>1. CASE k = fr.num
    BY <1>1, <1>2, <2>1 DEF Session
  <2>2. CASE k # fr.num
    <3>1. k \in s.frame_mask /\ k \in Frames
      BY <1>4, <2>2
    <3>2. data[k] = s.data[k]
      BY <1>2, <2>2, <3>1 DEF Session
    <3> QED
      BY <1>3, <3>1, <3>2 DEF SessionOK
  <2> QED
    BY <2>1, <2>2
<1>7. /\ kept \in Session /\ kept.key = fr.key /\ kept.frame_mask = mask
      /\ kept.data = data /\ kept.total_len = s.total_len
  <2> HIDE DEF mask, data
  <2> QED
    BY <1>2, <1>4, SessionTouched
<1>8. ~complete => SessionOK(kept)
  BY <1>3, <1>5, <1>7 DEF SessionOK
<1>9. \A j \in Slots \ {i} : Expired[j].active => Expired[j].key # fr.key
  BY <1>2, ExpiryCorrect
<1>10. s_fp' = [Expired EXCEPT ![i] = IF complete THEN FreeSession ELSE kept]
  <2>1. s_fp' = [Expired EXCEPT ![i] =
                   IF complete THEN FreeSession
                   ELSE [Expired[i] EXCEPT !.frame_mask = mask, !.data = data,
                                           !.age = 0, !.before = FALSE]]
    BY DEF StoreFrame
  <2> QED
    BY <1>2, <2>1 DEF Touched
<1>11. /\ s_fp' \in [Slots -> Session]
       /\ OneSessionPerKey'
       /\ \A j \in Slots : SessionOK(s_fp'[j])
  <2>1. CASE complete
    BY <1>10, <2>1, FreeWritten
  <2>2. CASE ~complete
    BY <1>7, <1>8, <1>9, <1>10, <2>2, SlotWritten
  <2> QED
    BY <2>1, <2>2
<1>12. out' \in Payload \cup {None} /\ CompletePayload'
  <2>1. CASE complete
    <3>1. out' = [key |-> fr.key, total_len |-> s.total_len, data |-> data]
      BY <2>1 DEF StoreFrame
    <3>2. s.total_len \in 0 .. FAST_PACKET_MAX_PAYLOAD
      BY <1>2 DEF Session
    <3>3. out' \in Payload
      BY <1>1, <1>4, <3>1, <3>2 DEF Payload
    <3>4. \A k \in 0 .. ExpectedFrames(s.total_len) - 1 : data[k] # None
      BY <1>5, <2>1, FastPacketAssumption
    <3> QED
      BY <3>1, <3>3, <3>4 DEF CompletePayload
  <2>2. CASE ~complete
    BY <2>2 DEF StoreFrame, CompletePayload
  <2> QED
    BY <2>1, <2>2
<1> QED
  BY <1>11, <1>12 DEF FpInv, TypeOK

LEMMA RepeatedFrameCorrect ==
  ASSUME FpInv, NEW fr \in Frame, NEW i \in Slots, RepeatedFrame(fr, i)
  PROVE  FpInv'
<1> DEFINE s == s_fp[i]
           kept == Touched(s, s.frame_mask, s.data)
<1>1. Expired[i].active /\ Expired[i].key = fr.key /\ Expired[i] = s /\ s \in Session
  BY ExpiryCorrect DEF RepeatedFrame, Continues, IsFirstOf, Matching, FpInv, TypeOK
<1>3. /\ kept \in Session /\ kept.key = fr.key /\ kept.frame_mask = s.frame_mask
      /\ kept.data = s.data /\ kept.total_len = s.total_len /\ kept.active = s.active
  <2>1. s.frame_mask \in SUBSET Frames /\ s.data \in [Frames -> Msgs \cup {None}]
    BY <1>1, SessionRefreshed
  <2> QED
    BY <1>1, <2>1, SessionTouched
<1>4. SessionOK(kept)
  BY <1>1, <1>3 DEF FpInv, SessionOK
<1>5. \A j \in Slots \ {i} : Expired[j].active => Expired[j].key # fr.key
  BY <1>1, ExpiryCorrect
<1>6. s_fp' = [Expired EXCEPT ![i] = kept]
  <2>1. s_fp' = [Expired EXCEPT ![i] = [Expired[i] EXCEPT !.age = 0, !.before = FALSE]]
    BY DEF RepeatedFrame
  <2> QED
    BY <1>1, <2>1, SessionRefreshed
<1>7. /\ s_fp' \in [Slots -> Session]
      /\ OneSessionPerKey'
      /\ \A j \in Slots : SessionOK(s_fp'[j])
  BY <1>3, <1>4, <1>5, <1>6, SlotWritten
<1>8. out' = None
  BY DEF RepeatedFrame
<1> QED
  BY <1>7, <1>8 DEF FpInv, TypeOK, CompletePayload

LEMMA AgeCorrect ==
  ASSUME FpInv, Age
  PROVE  FpInv'
<1>1. PICK turn \in Turns :
        s_fp' = [i \in Slots |->
                  IF s_fp[i].active
                  THEN [s_fp[i] EXCEPT !.age = Smaller(@ + 1, TTL), !.before = @ \/ turn]
                  ELSE s_fp[i]]
  BY DEF Age
<1>2. turn \in BOOLEAN /\ TTL \in Nat
  BY FastPacketAssumption
<1>3. \A i \in Slots : s_fp[i] \in Session
  BY DEF FpInv, TypeOK
<1>4. ASSUME NEW i \in Slots
      PROVE  /\ s_fp'[i] \in Session
             /\ s_fp'[i].active = s_fp[i].active /\ s_fp'[i].key = s_fp[i].key
             /\ s_fp'[i].total_len = s_fp[i].total_len
             /\ s_fp'[i].frame_mask = s_fp[i].frame_mask /\ s_fp'[i].data = s_fp[i].data
  <2>1. CASE s_fp[i].active
    <3>1. s_fp'[i] = Aged(s_fp[i], turn)
      BY <1>1, <2>1 DEF Aged
    <3> QED
      BY <1>3, <3>1, SessionAged
  <2>2. CASE ~s_fp[i].active
    BY <1>1, <1>3, <2>2
  <2> QED
    BY <2>1, <2>2
<1>5. s_fp' \in [Slots -> Session]
  BY <1>1, <1>4
<1>6. \A i \in Slots : SessionOK(s_fp'[i])
  BY <1>4 DEF FpInv, SessionOK
<1>7. OneSessionPerKey'
  BY <1>4 DEF FpInv, OneSessionPerKey
<1>8. out' = None
  BY DEF Age
<1> QED
  BY <1>5, <1>6, <1>7, <1>8 DEF FpInv, TypeOK, CompletePayload

LEMMA FpStart == FpInit => FpInv
BY FreeTyped DEF FpInit, FpInv, TypeOK, OneSessionPerKey, CompletePayload, SessionOK

LEMMA FpStep == FpInv /\ [FpNext]_fpvars => FpInv'
<1> SUFFICES ASSUME FpInv, [FpNext]_fpvars PROVE FpInv'
  OBVIOUS
<1>1. CASE UNCHANGED fpvars
  BY <1>1 DEF fpvars, FpInv, TypeOK, OneSessionPerKey, CompletePayload, SessionOK
<1>2. CASE Age
  BY <1>2, AgeCorrect
<1>3. CASE Elsewhere
  BY <1>3 DEF Elsewhere, FpInv, TypeOK, OneSessionPerKey, CompletePayload, SessionOK
<1>4. ASSUME NEW fr \in Frame, FirstFrame(fr) PROVE FpInv'
  BY <1>4, FirstFrameCorrect
<1>5. ASSUME NEW fr \in Frame, NoSession(fr) PROVE FpInv'
  <2>1. s_fp' = Expired /\ out' = None
    BY <1>5 DEF NoSession
  <2> QED
    BY <2>1, ExpiryCorrect DEF FpInv, TypeOK, OneSessionPerKey, CompletePayload
<1>6. ASSUME NEW fr \in Frame, NEW i \in Slots, RepeatedFrame(fr, i) PROVE FpInv'
  BY <1>6, RepeatedFrameCorrect
<1>7. ASSUME NEW fr \in Frame, NEW i \in Slots, MisfitFrame(fr, i) PROVE FpInv'
  <2>1. s_fp' = [Expired EXCEPT ![i] = FreeSession] /\ out' = None
    BY <1>7 DEF MisfitFrame
  <2> QED
    BY <2>1, FreeWritten DEF FpInv, TypeOK, CompletePayload
<1>8. ASSUME NEW fr \in Frame, NEW i \in Slots, StoreFrame(fr, i) PROVE FpInv'
  BY <1>8, StoreFrameCorrect
<1> QED
  BY <1>1, <1>2, <1>3, <1>4, <1>5, <1>6, <1>7, <1>8 DEF FpNext, Feed

\* Whatever frames come, in whatever order and however often: the table keeps
\* its types, no two active sessions share a key, every payload handed to the
\* handler is complete, and every active session still waits for a frame.
THEOREM TableCorrect ==
  FpSpec => [](TypeOK /\ OneSessionPerKey /\ CompletePayload /\ ActiveIsIncomplete)
<1>1. FpInit => FpInv
  BY FpStart
<1>2. FpInv /\ [FpNext]_fpvars => FpInv'
  BY FpStep
<1>3. FpInv => TypeOK /\ OneSessionPerKey /\ CompletePayload /\ ActiveIsIncomplete
  BY DEF FpInv, SessionOK, ActiveIsIncomplete
<1> QED
  BY <1>1, <1>2, <1>3, PTL DEF FpSpec
-----------------------------------------------------------------------------
(* The table fed by senders. *)

Message == [pc : {"idle", "loaded", "sending"}, n : Counts, offset : Nat, num : Nat, clean : BOOLEAN]

BusTypeOK ==
  /\ s_fp_tx_seq \in Counts
  /\ raced \in BOOLEAN
  /\ tx \in [Senders -> Message]

\* A sender sends the frames of its message in order.
InOrder(s) ==
  /\ tx[s].num < ExpectedFrames(Length[s])
  /\ tx[s].offset = Dest(tx[s].num)
  /\ tx[s].pc # "sending" => tx[s].num = 0

\* No two senders are busy with a message of one key.
KeysDistinct ==
  \A s, t \in Senders : tx[s].pc # "idle" /\ tx[t].pc # "idle" /\ Key(s) = Key(t) => s = t

\* Session e has the frames of one message, which is that of the sender that is
\* busy with its key, if there is one; u is tx.
Pure(e, u) ==
  \E m \in Msgs :
    /\ \A k \in e.frame_mask : e.data[k] = m
    /\ \A s \in Senders : u[s].pc # "idle" /\ KeyOf(s, u[s].n) = e.key => m = <<s, u[s].n>>

FlowsPure ==
  \A i \in Slots :
    s_fp[i].active /\ s_fp[i].age < TTL /\ s_fp[i].key \in FlowKeys => Pure(s_fp[i], tx)

\* Session e has exactly the first k frames of message m, of n bytes.
HasFrames(e, key, n, k, m) ==
  /\ e.active /\ e.age < TTL /\ e.key = key /\ e.total_len = n
  /\ e.frame_mask = 0 .. k - 1
  /\ \A j \in 0 .. k - 1 : e.data[j] = m

Holds(e, s) == HasFrames(e, Key(s), Length[s], tx[s].num, <<s, tx[s].n>>)

CleanHeld ==
  \A s \in Senders : tx[s].clean /\ tx[s].num > 0 => \E i \in Slots : Holds(s_fp[i], s)

SendersOK == BusTypeOK /\ \A s \in Senders : InOrder(s)

\* The key of every message is one of the flows', and the numbers stay in range.
LEMMA KeyInFlows ==
  /\ \A n \in Counts : n % SeqMod \in 0 .. SeqMod - 1 /\ (n + 1) % (2 * SeqMod) \in Counts
  /\ \A s \in Senders, n \in Counts : KeyOf(s, n) \in FlowKeys /\ <<s, n>> \in Msgs
<1>1. \A m \in Nat \ {0} : \A n \in Nat : n % m \in 0 .. m - 1
  OBVIOUS
<1>2. SeqMod \in Nat \ {0} /\ 2 * SeqMod \in Nat \ {0}
  BY BusAssumption
<1>3. \A n \in Counts : n \in Nat /\ n + 1 \in Nat
  BY <1>2 DEF Counts
<1>4. \A n \in Counts : n % SeqMod \in 0 .. SeqMod - 1
  BY <1>1, <1>2, <1>3
<1>5. \A n \in Counts : (n + 1) % (2 * SeqMod) \in Counts
  BY <1>1, <1>2, <1>3 DEF Counts
<1>6. \A s \in Senders, n \in Counts : KeyOf(s, n) \in FlowKeys
  BY <1>4, BusAssumption DEF KeyOf, FlowKeys
<1>7. \A s \in Senders, n \in Counts : <<s, n>> \in Msgs
  BY BusAssumption
<1> QED
  BY <1>4, <1>5, <1>6, <1>7

\* A message ends with its last frame and no earlier, and every frame of it fits.
LEMMA LastFrame ==
  ASSUME NEW n \in 1 .. FAST_PACKET_MAX_PAYLOAD, NEW k \in Nat, k < ExpectedFrames(n)
  PROVE  LET c == Smaller(n - Dest(k), IF k = 0 THEN 6 ELSE 7)
         IN  /\ c = Copy(k, n)
             /\ Dest(k) < n
             /\ Dest(k) + c = n <=> k = ExpectedFrames(n) - 1
             /\ Dest(k) + c # n => Dest(k) + c = Dest(k + 1) /\ k + 1 < ExpectedFrames(n)
<1> DEFINE E == ExpectedFrames(n)
<1>1. /\ E \in 1 .. 32
      /\ Dest(0) = 0
      /\ \A j \in 0 .. E - 2 : Dest(j) + Copy(j, n) = Dest(j + 1)
      /\ Dest(E - 1) + Copy(E - 1, n) = n
      /\ \A j \in 0 .. E - 1 : Dest(j) < n /\ Copy(j, n) \in 1 .. 7
  BY FramesCoverPayload
<1>2. k \in 0 .. E - 1
  BY <1>1
<1>3. Smaller(n - Dest(k), IF k = 0 THEN 6 ELSE 7) = Copy(k, n)
  BY <1>1 DEF Copy, Smaller
<1>4. CASE k = E - 1
  BY <1>1, <1>2, <1>3, <1>4
<1>5. CASE k # E - 1
  <2>1. k \in 0 .. E - 2 /\ k + 1 \in 0 .. E - 1
    BY <1>1, <1>2, <1>5
  <2>2. Dest(k) + Copy(k, n) = Dest(k + 1) /\ Dest(k + 1) < n /\ Dest(k) < n
    BY <1>1, <1>2, <2>1
  <2>3. Dest(k) + Copy(k, n) # n
    BY <2>2
  <2> QED
    BY <1>1, <1>2, <1>3, <1>5, <2>1, <2>2, <2>3
<1> QED
  BY <1>4, <1>5

-----------------------------------------------------------------------------
LEMMA FrameTyped ==
  ASSUME NEW fr \in Frame
  PROVE  /\ fr.key \in Keys /\ fr.msg \in Msgs
         /\ fr.num \in Frames /\ fr.total_len \in 0 .. 255 /\ fr.dlc \in 2 .. 8
<1>1. /\ fr.key \in Keys /\ fr.msg \in Msgs
      /\ fr.num \in Nums /\ fr.total_len \in Lengths /\ fr.dlc \in Dlcs
  BY DEF Frame
<1> QED
  BY <1>1, FastPacketAssumption DEF Frames

(* What feed_fast_packet does to the sessions of other keys, and to its own. *)

LEMMA FeedOthers ==
  ASSUME FpInv, NEW fr \in Frame, Feed(fr)
  PROVE  \A i \in Slots : s_fp'[i].active => s_fp'[i] = Expired[i] \/ s_fp'[i].key = fr.key
<1>0. Expired \in [Slots -> Session] /\ ~FreeSession.active
  BY ExpiryCorrect, FreeTyped
<1>1. CASE FirstFrame(fr)
  <2>1. PICK i \in Slots : \E s \in {StartedSession(fr), FreeSession} :
          s_fp' = [Expired EXCEPT ![i] = s]
    BY <1>1 DEF FirstFrame
  <2>2. StartedSession(fr).key = fr.key
    BY DEF StartedSession
  <2> QED
    BY <1>0, <2>1, <2>2
<1>2. CASE NoSession(fr)
  BY <1>2 DEF NoSession
<1>3. ASSUME NEW i \in Slots, RepeatedFrame(fr, i) \/ MisfitFrame(fr, i) \/ StoreFrame(fr, i)
      PROVE  \A j \in Slots : s_fp'[j].active => s_fp'[j] = Expired[j] \/ s_fp'[j].key = fr.key
  <2>1. Expired[i].key = fr.key /\ Expired[i] \in Session
    BY <1>0, <1>3 DEF RepeatedFrame, MisfitFrame, StoreFrame, Continues, IsFirstOf, Matching
  <2>2. \A m, d : [Expired[i] EXCEPT !.frame_mask = m, !.data = d, !.age = 0, !.before = FALSE].key = fr.key
    BY <2>1 DEF Session
  <2>3. [Expired[i] EXCEPT !.age = 0, !.before = FALSE].key = fr.key
    BY <2>1 DEF Session
  <2>4. CASE RepeatedFrame(fr, i)
    BY <1>0, <2>3, <2>4 DEF RepeatedFrame
  <2>5. CASE MisfitFrame(fr, i)
    BY <1>0, <2>5 DEF MisfitFrame
  <2>6. CASE StoreFrame(fr, i)
    BY <1>0, <2>2, <2>6 DEF StoreFrame
  <2> QED
    BY <1>3, <2>4, <2>5, <2>6
<1> QED
  BY <1>1, <1>2, <1>3 DEF Feed

\* A session of another key that still has its key was not touched: one that is
\* evicted or ends loses it.
LEMMA FreedKey ==
  ASSUME FpInv, NEW fr \in Frame, Feed(fr), NEW i \in Slots,
         Expired[i].key \in Keys \ {fr.key}, s_fp'[i].key = Expired[i].key
  PROVE  s_fp'[i] = Expired[i]
<1>0. Expired \in [Slots -> Session] /\ FreeSession.key = None
  BY ExpiryCorrect DEF FreeSession
<1>1. CASE FirstFrame(fr)
  <2>1. PICK j \in Slots : \E s \in {StartedSession(fr), FreeSession} :
          s_fp' = [Expired EXCEPT ![j] = s]
    BY <1>1 DEF FirstFrame
  <2>2. StartedSession(fr).key = fr.key
    BY DEF StartedSession
  <2>3. CASE i = j
    <3>1. Expired[i].key \in {fr.key, None}
      BY <1>0, <2>1, <2>2, <2>3
    <3> QED
      BY <3>1, FastPacketAssumption
  <2>4. CASE i # j
    BY <1>0, <2>1, <2>4
  <2> QED
    BY <2>3, <2>4
<1>2. CASE NoSession(fr)
  BY <1>2 DEF NoSession
<1>3. ASSUME NEW j \in Slots, RepeatedFrame(fr, j) \/ MisfitFrame(fr, j) \/ StoreFrame(fr, j)
      PROVE  s_fp'[i] = Expired[i]
  <2>1. Expired[j].key = fr.key
    BY <1>3 DEF RepeatedFrame, MisfitFrame, StoreFrame, Continues, IsFirstOf, Matching
  <2>2. i # j
    BY <2>1
  <2> QED
    BY <1>0, <1>3, <2>2 DEF RepeatedFrame, MisfitFrame, StoreFrame
<1> QED
  BY <1>1, <1>2, <1>3 DEF Feed

\* If all the frames in the session of a frame's key come from its message, they
\* still do afterwards, and so does a payload handed to the handler.
LEMMA FeedPure ==
  ASSUME FpInv, NEW fr \in Frame, Feed(fr),
         \A i \in Slots : Expired[i].active /\ Expired[i].key = fr.key =>
           \A k \in Expired[i].frame_mask : Expired[i].data[k] = fr.msg
  PROVE  /\ \A i \in Slots : s_fp'[i].active /\ s_fp'[i].key = fr.key =>
              \A k \in s_fp'[i].frame_mask : s_fp'[i].data[k] = fr.msg
         /\ out' # None =>
              \A k \in 1 .. ExpectedFrames(out'.total_len) - 1 : out'.data[k] = out'.data[0]
<1>0. /\ Expired \in [Slots -> Session] /\ ~FreeSession.active
      /\ \A i \in Slots : Expired[i].active => Expired[i] = s_fp[i]
      /\ fr.num \in Frames
  BY ExpiryCorrect, FreeTyped, FastPacketAssumption DEF Frame, Frames
<1>1. CASE FirstFrame(fr)
  <2> DEFINE single == Copy(0, fr.total_len) >= fr.total_len
  <2>1. PICK i \in Slots : \E s \in {StartedSession(fr), FreeSession} :
          s_fp' = [Expired EXCEPT ![i] = s]
    BY <1>1 DEF FirstFrame
  <2>2. \A k \in StartedSession(fr).frame_mask : StartedSession(fr).data[k] = fr.msg
    BY DEF StartedSession, Frames
  <2>3. ASSUME out' # None
        PROVE  ExpectedFrames(out'.total_len) = 1
    <3>1. single /\ out'.total_len = fr.total_len
      BY <1>1, <2>3 DEF FirstFrame
    <3>2. fr.total_len \in 0 .. 255
      BY FastPacketAssumption DEF Frame
    <3>3. fr.total_len \in 0 .. 6
      BY <3>1, <3>2 DEF Copy, Smaller
    <3> QED
      BY <3>1, <3>3, Lengths255
  <2> QED
    BY <1>0, <2>1, <2>2, <2>3
<1>2. CASE NoSession(fr)
  BY <1>2 DEF NoSession
<1>3. ASSUME NEW i \in Slots, RepeatedFrame(fr, i) \/ MisfitFrame(fr, i) \/ StoreFrame(fr, i)
      PROVE  /\ \A j \in Slots : s_fp'[j].active /\ s_fp'[j].key = fr.key =>
                  \A k \in s_fp'[j].frame_mask : s_fp'[j].data[k] = fr.msg
             /\ out' # None =>
                  \A k \in 1 .. ExpectedFrames(out'.total_len) - 1 : out'.data[k] = out'.data[0]
  <2> DEFINE s == s_fp[i]
             mask == s.frame_mask \cup {fr.num}
             data == [s.data EXCEPT ![fr.num] = fr.msg]
             complete == 0 .. ExpectedFrames(s.total_len) - 1 \subseteq mask
  <2>1. Expired[i].active /\ Expired[i].key = fr.key /\ Expired[i] = s /\ s \in Session
    BY <1>0, <1>3 DEF RepeatedFrame, MisfitFrame, StoreFrame, Continues, IsFirstOf, Matching
  <2>2. \A k \in s.frame_mask : s.data[k] = fr.msg
    BY <2>1
  <2>3. CASE RepeatedFrame(fr, i)
    <3>0. s_fp' = [Expired EXCEPT ![i] = [Expired[i] EXCEPT !.age = 0, !.before = FALSE]]
      BY <2>3 DEF RepeatedFrame
    <3>1. s_fp' = [Expired EXCEPT ![i] = Touched(s, s.frame_mask, s.data)] /\ out' = None
      BY <2>1, <2>3, <3>0, SessionRefreshed DEF RepeatedFrame
    <3>2. /\ Touched(s, s.frame_mask, s.data).frame_mask = s.frame_mask
          /\ Touched(s, s.frame_mask, s.data).data = s.data
      <4>1. s.frame_mask \in SUBSET Frames /\ s.data \in [Frames -> Msgs \cup {None}]
        BY <2>1, SessionRefreshed
      <4> QED
        BY <2>1, <4>1, SessionTouched
    <3> QED
      BY <1>0, <2>2, <3>1, <3>2
  <2>4. CASE MisfitFrame(fr, i)
    BY <1>0, <2>4 DEF MisfitFrame
  <2>5. CASE StoreFrame(fr, i)
    <3>1. \A k \in mask : data[k] = fr.msg
      BY <1>0, <2>1, <2>2 DEF Session
    <3>2. mask \in SUBSET Frames /\ data \in [Frames -> Msgs \cup {None}]
      BY <1>0, <2>1 DEF Session, Frame
    <3>3. Touched(s, mask, data).frame_mask = mask /\ Touched(s, mask, data).data = data
      <4> HIDE DEF mask, data
      <4> QED
        BY <2>1, <3>2, SessionTouched
    <3>4. /\ s_fp' = [Expired EXCEPT ![i] = IF complete THEN FreeSession ELSE Touched(s, mask, data)]
          /\ out' = IF complete
                    THEN [key |-> fr.key, total_len |-> s.total_len, data |-> data] ELSE None
      BY <2>1, <2>5 DEF StoreFrame, Touched
    <3>5. ASSUME out' # None, NEW k \in 1 .. ExpectedFrames(out'.total_len) - 1
          PROVE  out'.data[k] = out'.data[0]
      <4>1. complete /\ out'.total_len = s.total_len /\ out'.data = data
        BY <3>4, <3>5
      <4>2. s.total_len \in 0 .. 255
        BY <2>1 DEF Session, FAST_PACKET_MAX_PAYLOAD
      <4>3. ExpectedFrames(s.total_len) \in Nat
        BY <4>2, Lengths255
      <4>4. 0 \in mask /\ k \in mask
        <5> HIDE DEF mask
        <5> QED
          BY <4>1, <4>3, <3>5
      <4> QED
        BY <3>1, <4>1, <4>4
    <3> HIDE DEF mask, data, complete
    <3> QED
      BY <1>0, <3>1, <3>3, <3>4, <3>5
  <2> QED
    BY <1>3, <2>3, <2>4, <2>5
<1> QED
  BY <1>1, <1>2, <1>3 DEF Feed

LEMMA OutKey ==
  ASSUME NEW fr \in Frame, Feed(fr), out' # None
  PROVE  out'.key = fr.key
<1>1. CASE FirstFrame(fr)
  BY <1>1 DEF FirstFrame
<1>2. CASE NoSession(fr)
  BY <1>2 DEF NoSession
<1>3. ASSUME NEW i \in Slots, RepeatedFrame(fr, i) PROVE FALSE
  BY <1>3 DEF RepeatedFrame
<1>4. ASSUME NEW i \in Slots, MisfitFrame(fr, i) PROVE FALSE
  BY <1>4 DEF MisfitFrame
<1>5. ASSUME NEW i \in Slots, StoreFrame(fr, i) PROVE out'.key = fr.key
  BY <1>5 DEF StoreFrame
<1> QED
  BY <1>1, <1>2, <1>3, <1>4, <1>5 DEF Feed

\* A frame that is the next of its message, and long enough: a message whose
\* frames so far are all in a session has this one too, and the last frame of the
\* message hands it to the handler.
LEMMA FeedNext ==
  ASSUME FpInv, NEW fr \in Frame, Feed(fr),
         NEW n \in 1 .. FAST_PACKET_MAX_PAYLOAD, fr.num < ExpectedFrames(n),
         fr.num = 0 => fr.total_len = n,
         fr.dlc - (IF fr.num = 0 THEN 2 ELSE 1) >= Copy(fr.num, n),
         fr.num # 0 => \E i \in Slots : HasFrames(s_fp[i], fr.key, n, fr.num, fr.msg)
  PROVE  IF fr.num = ExpectedFrames(n) - 1
         THEN /\ out' # None
              /\ out'.key = fr.key /\ out'.total_len = n
              /\ \A k \in 0 .. fr.num : out'.data[k] = fr.msg
         ELSE \E i \in Slots : HasFrames(s_fp'[i], fr.key, n, fr.num + 1, fr.msg)
<1> DEFINE E == ExpectedFrames(n)
<1>0. /\ Expired \in [Slots -> Session]
      /\ fr.num \in Frames /\ fr.dlc \in 2 .. 8 /\ fr.msg \in Msgs /\ fr.key \in Keys
      /\ n \in 0 .. 255 /\ n \in 0 .. FAST_PACKET_MAX_PAYLOAD
      /\ TTL \in Nat \ {0}
  <2>1. n \in 0 .. 255 /\ n \in 0 .. FAST_PACKET_MAX_PAYLOAD
    BY DEF FAST_PACKET_MAX_PAYLOAD
  <2> QED
    BY <2>1, FrameTyped, ExpiryCorrect, FastPacketAssumption
<1>1. E \in Nat /\ (n > 6 => E >= 2) /\ (n <= 6 => E = 1)
  BY <1>0, Lengths255
<1>2. CASE fr.num = 0
  <2> DEFINE st == StartedSession(fr)
             single == Copy(0, fr.total_len) >= fr.total_len
  <2>1. fr.total_len = n /\ FirstFits(fr) /\ (single <=> n <= 6)
    BY <1>0, <1>2 DEF FirstFits, Copy, Smaller
  <2>2. FirstFrame(fr)
    BY <1>2 DEF Feed, NoSession, RepeatedFrame, MisfitFrame, StoreFrame, Continues
  <2>3. st.data \in [Frames -> Msgs \cup {None}] /\ st.data[0] = fr.msg
    BY <1>0 DEF StartedSession, Frames
  <2>4. CASE n <= 6
    <3>1. out' = [key |-> fr.key, total_len |-> n, data |-> st.data]
      <4>1. out' = IF FirstFits(fr) /\ single
                   THEN [key |-> fr.key, total_len |-> fr.total_len, data |-> st.data] ELSE None
        BY <2>2 DEF FirstFrame
      <4> QED
        BY <2>1, <2>4, <4>1
    <3>2. out' \in Payload
      BY <1>0, <2>3, <3>1 DEF Payload
    <3> HIDE DEF st
    <3> QED
      BY <1>1, <1>2, <2>3, <2>4, <3>1, <3>2, NoneAssumption
  <2>5. CASE n > 6
    <3>1. PICK i \in Slots : s_fp' = [Expired EXCEPT ![i] = st]
      <4>1. \E i \in Slots :
              s_fp' = [Expired EXCEPT ![i] = IF FirstFits(fr) /\ ~single THEN st ELSE FreeSession]
        BY <2>2 DEF FirstFrame
      <4>2. FirstFits(fr) /\ ~single
        BY <1>0, <2>1, <2>5
      <4> HIDE DEF st, single
      <4> QED
        BY <4>1, <4>2
    <3>2. s_fp'[i] = st
      BY <1>0, <3>1
    <3>3. HasFrames(st, fr.key, n, 1, fr.msg)
      BY <1>0, <2>1, <2>3 DEF HasFrames, StartedSession
    <3> QED
      BY <1>1, <1>2, <2>5, <3>2, <3>3
  <2> QED
    BY <1>0, <2>4, <2>5
<1>3. CASE fr.num # 0
  <2>1. PICK i \in Slots : HasFrames(s_fp[i], fr.key, n, fr.num, fr.msg)
    BY <1>3
  <2> DEFINE s == s_fp[i]
             mask == s.frame_mask \cup {fr.num}
             data == [s.data EXCEPT ![fr.num] = fr.msg]
             complete == 0 .. ExpectedFrames(s.total_len) - 1 \subseteq mask
  <2>2. Expired[i] = s /\ s \in Session /\ s.active /\ s.key = fr.key /\ s.total_len = n
    BY <2>1 DEF HasFrames, Expired, FpInv, TypeOK
  <2>3. \A j \in Matching(Expired, fr.key) : j = i
    BY <2>2, ExpiryCorrect DEF Matching
  <2>4. i \in Matching(Expired, fr.key)
    BY <2>2 DEF Matching
  <2>5. fr.num \notin s.frame_mask /\ s.frame_mask = 0 .. fr.num - 1
    BY <1>0, <2>1 DEF HasFrames
  <2>6. Fits(fr, i)
    <3>1. Dest(fr.num) < n
      BY <1>0, LastFrame DEF Frames
    <3> QED
      BY <1>3, <2>2, <3>1 DEF Fits
  <2>7. StoreFrame(fr, i)
    <3>1. ~FirstFrame(fr) /\ ~NoSession(fr)
      BY <1>3, <2>4 DEF FirstFrame, NoSession
    <3>2. PICK j \in Slots : RepeatedFrame(fr, j) \/ MisfitFrame(fr, j) \/ StoreFrame(fr, j)
      BY <3>1 DEF Feed
    <3>3. j = i
      BY <2>3, <3>2 DEF RepeatedFrame, MisfitFrame, StoreFrame, Continues, IsFirstOf
    <3> QED
      BY <2>5, <2>6, <3>2, <3>3 DEF RepeatedFrame, MisfitFrame
  <2>8. mask = 0 .. fr.num
    <3>1. fr.num \in Nat
      BY <1>0 DEF Frames
    <3>2. \A k : k \in 0 .. fr.num <=> k \in 0 .. fr.num - 1 \/ k = fr.num
      BY <3>1
    <3> QED
      BY <2>5, <3>2
  <2>9. data \in [Frames -> Msgs \cup {None}] /\ \A k \in 0 .. fr.num : data[k] = fr.msg
    <3>1. s.data \in [Frames -> Msgs \cup {None}] /\ \A k \in 0 .. fr.num - 1 : s.data[k] = fr.msg
      BY <2>1, <2>2 DEF HasFrames, Session
    <3>2. 0 .. fr.num \subseteq Frames /\ \A k \in 0 .. fr.num : k # fr.num => k \in 0 .. fr.num - 1
      BY <1>0 DEF Frames
    <3> QED
      BY <1>0, <3>1, <3>2
  <2>10. complete <=> fr.num = E - 1
    <3>1. complete <=> 0 .. E - 1 \subseteq 0 .. fr.num
      BY <2>2, <2>8
    <3>2. E - 1 \in 0 .. E - 1 /\ fr.num <= E - 1 /\ fr.num \in Nat /\ E - 1 \in Nat
      BY <1>0, <1>1 DEF Frames
    <3> HIDE DEF mask, complete, E
    <3> QED
      BY <3>1, <3>2
  <2>11. /\ s_fp' = [Expired EXCEPT ![i] = IF complete THEN FreeSession ELSE
                       [Expired[i] EXCEPT !.frame_mask = mask, !.data = data, !.age = 0, !.before = FALSE]]
         /\ out' = IF complete
                   THEN [key |-> fr.key, total_len |-> n, data |-> data] ELSE None
    BY <2>2, <2>7 DEF StoreFrame
  <2> HIDE DEF mask, data, complete
  <2>12. CASE complete
    <3>1. out' \in Payload
      BY <1>0, <2>9, <2>11, <2>12 DEF Payload
    <3> QED
      BY <2>9, <2>10, <2>11, <2>12, <3>1, NoneAssumption
  <2>13. CASE ~complete
    <3> DEFINE kept == [Expired[i] EXCEPT !.frame_mask = mask, !.data = data, !.age = 0, !.before = FALSE]
    <3>1. /\ kept.active = s.active /\ kept.key = s.key /\ kept.total_len = s.total_len
          /\ kept.frame_mask = mask /\ kept.data = data /\ kept.age = 0
      BY <2>2 DEF Session
    <3>2. s_fp'[i] = kept
      BY <1>0, <2>11, <2>13
    <3> HIDE DEF kept
    <3>3. HasFrames(kept, fr.key, n, fr.num + 1, fr.msg)
      <4>1. (fr.num + 1) - 1 = fr.num
        BY <1>0 DEF Frames
      <4>2. /\ kept.active /\ kept.age < TTL /\ kept.key = fr.key /\ kept.total_len = n
            /\ kept.frame_mask = 0 .. fr.num
            /\ \A j \in 0 .. fr.num : kept.data[j] = fr.msg
        BY <1>0, <2>2, <2>8, <2>9, <3>1
      <4> QED
        BY <4>1, <4>2 DEF HasFrames
    <3> QED
      BY <2>10, <2>13, <3>2, <3>3
  <2> QED
    BY <2>12, <2>13
<1> QED
  BY <1>2, <1>3

-----------------------------------------------------------------------------
(* What the steps do to the senders. *)

LEMMA CleanChanged ==
  ASSUME NEW m \in Message, NEW c \in BOOLEAN
  PROVE  /\ [m EXCEPT !.clean = c] \in Message
         /\ [m EXCEPT !.clean = c].pc = m.pc
         /\ [m EXCEPT !.clean = c].n = m.n
         /\ [m EXCEPT !.clean = c].offset = m.offset
         /\ [m EXCEPT !.clean = c].num = m.num
         /\ [m EXCEPT !.clean = c].clean = c
BY DEF Message

\* Sender t is where it was, and if its message may still be whole, it was so
\* before the step.
SameMessage(t) ==
  /\ tx'[t] \in Message
  /\ tx'[t].pc = tx[t].pc /\ tx'[t].n = tx[t].n
  /\ tx'[t].offset = tx[t].offset /\ tx'[t].num = tx[t].num
  /\ tx'[t].clean => tx[t].clean

LEMMA SameInOrder ==
  ASSUME NEW t \in Senders, InOrder(t), SameMessage(t)
  PROVE  InOrder(t)'
BY DEF InOrder, SameMessage

LEMMA OthersKept ==
  ASSUME BusTypeOK, NEW t \in Senders, tx'[t] = [tx[t] EXCEPT !.clean = @ /\ ~Evicted(t)]
  PROVE  SameMessage(t) /\ (tx'[t].clean => ~Evicted(t))
<1> DEFINE c == tx[t].clean /\ ~Evicted(t)
<1>1. tx[t] \in Message /\ c \in BOOLEAN
  BY DEF BusTypeOK
<1>2. tx'[t] = [tx[t] EXCEPT !.clean = c]
  OBVIOUS
<1>3. c => tx[t].clean /\ ~Evicted(t)
  OBVIOUS
<1> HIDE DEF c
<1> QED
  BY <1>1, <1>2, <1>3, CleanChanged DEF SameMessage

LEMMA IdleInOrder ==
  /\ Idle \in Message
  /\ \A s \in Senders : 0 < ExpectedFrames(Length[s]) /\ Dest(0) = 0
                        /\ Length[s] \in 1 .. FAST_PACKET_MAX_PAYLOAD
<1>1. 0 \in Counts
  BY BusAssumption DEF Counts
<1>2. \A s \in Senders : Length[s] \in 1 .. FAST_PACKET_MAX_PAYLOAD
  BY BusAssumption
<1>3. \A s \in Senders : ExpectedFrames(Length[s]) \in 1 .. 32 /\ Dest(0) = 0
  BY <1>2, FramesCoverPayload
<1> QED
  BY <1>1, <1>2, <1>3 DEF Idle, Message

\* A frame sent: the message goes on with the next frame, or has ended.
LEMMA SentCorrect ==
  ASSUME SendersOK, NEW s \in Senders, Sending(s), NEW whole \in BOOLEAN, Sent(s, whole)
  PROVE  /\ SendersOK'
         /\ \A t \in Senders \ {s} : SameMessage(t) /\ (tx'[t].clean => ~Evicted(t))
         /\ tx[s].offset + Take(s) = Length[s] <=> tx[s].num = ExpectedFrames(Length[s]) - 1
         /\ Take(s) = Copy(tx[s].num, Length[s])
         /\ IF tx[s].num = ExpectedFrames(Length[s]) - 1
            THEN tx'[s] = Idle
            ELSE /\ tx'[s].pc = "sending" /\ tx'[s].n = tx[s].n
                 /\ tx'[s].num = tx[s].num + 1
                 /\ tx'[s].clean => tx[s].clean /\ whole
<1> DEFINE n == Length[s]
           m == tx[s]
           c == m.clean /\ whole
           next == [m EXCEPT !.offset = @ + Take(s), !.num = @ + 1, !.clean = @ /\ whole]
<1>1. /\ m \in Message /\ InOrder(s) /\ m.pc = "sending"
      /\ n \in 1 .. FAST_PACKET_MAX_PAYLOAD /\ m.num < ExpectedFrames(n)
      /\ m.offset = Dest(m.num) /\ m.num \in Nat /\ m.offset \in Nat
  BY IdleInOrder DEF SendersOK, BusTypeOK, Message, InOrder, Sending
<1>2. /\ Take(s) = Copy(m.num, n)
      /\ m.offset + Take(s) = n <=> m.num = ExpectedFrames(n) - 1
      /\ m.offset + Take(s) # n => /\ m.offset + Take(s) = Dest(m.num + 1)
                                   /\ m.num + 1 < ExpectedFrames(n)
  <2> HIDE DEF m, n
  <2>1. Take(s) = Smaller(n - Dest(m.num), IF m.num = 0 THEN 6 ELSE 7)
    BY <1>1 DEF Take, m, n
  <2> QED
    BY <1>1, <2>1, LastFrame
<1>3. \A t \in Senders \ {s} : tx'[t] = [tx[t] EXCEPT !.clean = @ /\ ~Evicted(t)]
  BY DEF Sent
<1>4. \A t \in Senders \ {s} : SameMessage(t) /\ (tx'[t].clean => ~Evicted(t))
  BY <1>3, OthersKept DEF SendersOK
<1>5. tx'[s] = IF m.offset + Take(s) = n THEN Idle ELSE next
  BY DEF Sent
<1>6. m.offset + Take(s) # n =>
        /\ next \in Message /\ next.pc = "sending" /\ next.n = m.n
        /\ next.offset = m.offset + Take(s) /\ next.num = m.num + 1
        /\ next.clean => m.clean /\ whole
  <2> HAVE m.offset + Take(s) # n
  <2>1. m.offset + Take(s) \in Nat
    BY <1>1, <1>2 DEF Dest
  <2>2. c \in BOOLEAN /\ (c => m.clean /\ whole)
    BY <1>1 DEF Message
  <2>3. next = [m EXCEPT !.offset = m.offset + Take(s), !.num = m.num + 1, !.clean = c]
    BY <1>1 DEF Message
  <2> DEFINE o == m.offset + Take(s)
             k == m.num + 1
  <2>4. next = [m EXCEPT !.offset = o, !.num = k, !.clean = c] /\ o \in Nat /\ k \in Nat
    BY <1>1, <2>1, <2>3
  <2> HIDE DEF c, next, m, o, k
  <2>5. /\ next \in Message /\ next.pc = m.pc /\ next.n = m.n
        /\ next.offset = o /\ next.num = k /\ next.clean = c
    <3>1. m \in Message
      BY <1>1
    <3> QED
      BY <2>2, <2>4, <3>1 DEF Message
  <2> QED
    BY <1>1, <2>2, <2>5 DEF o, k
<1> HIDE DEF next
<1>7. tx'[s] \in Message /\ InOrder(s)'
  <2>1. CASE m.offset + Take(s) = n
    BY <1>5, <2>1, IdleInOrder DEF Idle, InOrder
  <2>2. CASE m.offset + Take(s) # n
    BY <1>2, <1>5, <1>6, <2>2 DEF InOrder
  <2> QED
    BY <2>1, <2>2
<1>8. tx' \in [Senders -> Message] /\ UNCHANGED <<s_fp_tx_seq, raced>>
  <2>1. \A t \in Senders : tx'[t] \in Message
    BY <1>4, <1>7 DEF SameMessage
  <2> QED
    BY <2>1 DEF Sent
<1>9. \A t \in Senders : InOrder(t)'
  BY <1>4, <1>7, SameInOrder DEF SendersOK
<1>10. SendersOK'
  BY <1>8, <1>9 DEF SendersOK, BusTypeOK
<1> QED
  BY <1>2, <1>4, <1>5, <1>6, <1>10

\* The frame sender s sends next.
FrameOf(s, dlc) == [key |-> Key(s), num |-> tx[s].num, total_len |-> Length[s],
                    dlc |-> dlc, msg |-> <<s, tx[s].n>>]

LEMMA FrameOfSender ==
  ASSUME SendersOK, NEW s \in Senders, NEW dlc \in Dlcs
  PROVE  FrameOf(s, dlc) \in Frame /\ Key(s) \in FlowKeys
<1>1. tx[s] \in Message /\ tx[s].n \in Counts /\ tx[s].num \in Nat /\ InOrder(s)
  BY DEF SendersOK, BusTypeOK, Message
<1>2. Key(s) \in FlowKeys /\ <<s, tx[s].n>> \in Msgs
  BY <1>1, KeyInFlows DEF Key
<1>3. Key(s) \in Keys /\ Length[s] \in Lengths
  BY <1>2, BusAssumption
<1>4. tx[s].num \in Nums
  <2>1. Length[s] \in 1 .. FAST_PACKET_MAX_PAYLOAD
    BY IdleInOrder
  <2>2. ExpectedFrames(Length[s]) \in 1 .. 32
    BY <2>1, FramesCoverPayload
  <2>3. tx[s].num \in 0 .. ExpectedFrames(Length[s]) - 1
    BY <1>1, <2>2 DEF InOrder
  <2> QED
    BY <2>3, BusAssumption
<1> QED
  BY <1>2, <1>3, <1>4 DEF FrameOf, Frame

LEMMA StrangeTyped ==
  ASSUME NEW fr \in StrangeFrames
  PROVE  fr \in Frame /\ fr.key \notin FlowKeys
<1>1. /\ fr = [key |-> fr.key, num |-> fr.num, total_len |-> fr.total_len, dlc |-> fr.dlc, msg |-> fr.msg]
      /\ fr.key \in Strangers /\ fr.num \in StrangeNums /\ fr.total_len \in Announced
      /\ fr.dlc \in Dlcs /\ fr.msg \in Msgs
  BY DEF StrangeFrames
<1> QED
  BY <1>1, BusAssumption DEF Frame

LEMMA SendersStart == Init => SendersOK
<1> SUFFICES ASSUME Init PROVE SendersOK
  OBVIOUS
<1>1. 0 \in Counts
  BY BusAssumption DEF Counts
<1>2. BusTypeOK
  BY <1>1, IdleInOrder DEF Init, BusTypeOK
<1>3. \A s \in Senders : InOrder(s)
  BY IdleInOrder DEF Init, InOrder, Idle
<1> QED
  BY <1>2, <1>3 DEF SendersOK

LEMMA SendersStep == SendersOK /\ [Next]_vars => SendersOK'
<1> SUFFICES ASSUME SendersOK, [Next]_vars PROVE SendersOK'
  OBVIOUS
<1>0. BusTypeOK /\ \A s \in Senders : InOrder(s) /\ tx[s] \in Message
  BY DEF SendersOK, BusTypeOK
<1>1. CASE UNCHANGED vars
  BY <1>0, <1>1 DEF vars, SendersOK, BusTypeOK, InOrder
<1>2. CASE Tick
  <2>1. ASSUME NEW s \in Senders PROVE SameMessage(s)
    <3> DEFINE c == tx[s].clean /\ (tx[s].num = 0 \/ Open(s_fp', Key(s)))
    <3>1. tx'[s] = [tx[s] EXCEPT !.clean = c] /\ c \in BOOLEAN
      BY <1>0, <1>2 DEF Tick, Message
    <3>2. c => tx[s].clean
      OBVIOUS
    <3> HIDE DEF c
    <3> QED
      BY <1>0, <3>1, <3>2, CleanChanged DEF SameMessage
  <2>2. tx' \in [Senders -> Message]
    BY <1>2, <2>1 DEF Tick, SameMessage
  <2>3. raced' \in BOOLEAN
    BY <1>0, <1>2 DEF Tick, BusTypeOK
  <2> QED
    BY <1>0, <1>2, <2>1, <2>2, <2>3, SameInOrder DEF Tick, SendersOK, BusTypeOK
<1>3. ASSUME NEW fr \in StrangeFrames, StrangeFrame(fr) PROVE SendersOK'
  <2>1. \A s \in Senders : SameMessage(s)
    BY <1>0, <1>3, OthersKept DEF StrangeFrame
  <2>2. tx' \in [Senders -> Message]
    BY <1>3, <2>1 DEF StrangeFrame, SameMessage
  <2> QED
    BY <1>0, <1>3, <2>1, <2>2, SameInOrder DEF StrangeFrame, SendersOK, BusTypeOK
<1>4. ASSUME NEW s \in Senders, LoadSequence(s) PROVE SendersOK'
  <2> DEFINE m == [Idle EXCEPT !.pc = "loaded", !.n = s_fp_tx_seq]
  <2>1. tx' = [tx EXCEPT ![s] = m] /\ raced' \in BOOLEAN /\ UNCHANGED s_fp_tx_seq
    BY <1>0, <1>4 DEF LoadSequence, BusTypeOK
  <2>2. m \in Message /\ m.num = 0 /\ m.offset = 0
    BY <1>0 DEF Idle, Message, BusTypeOK
  <2> HIDE DEF m
  <2>3. BusTypeOK'
    BY <1>0, <2>1, <2>2 DEF BusTypeOK
  <2>4. \A t \in Senders : InOrder(t)'
    BY <1>0, <2>1, <2>2, IdleInOrder DEF InOrder, BusTypeOK
  <2> QED
    BY <2>3, <2>4 DEF SendersOK
<1>5. ASSUME NEW s \in Senders, StoreSequence(s) PROVE SendersOK'
  <2> DEFINE m == [tx[s] EXCEPT !.pc = "sending", !.clean = TRUE]
  <2>1. tx' = [tx EXCEPT ![s] = m] /\ raced' \in BOOLEAN
    BY <1>0, <1>5 DEF StoreSequence, BusTypeOK
  <2>2. m \in Message /\ m.num = tx[s].num /\ m.offset = tx[s].offset /\ m.pc = "sending"
    BY <1>0 DEF Message
  <2>3. s_fp_tx_seq' \in Counts
    BY <1>0, <1>5, KeyInFlows DEF StoreSequence, Message
  <2> HIDE DEF m
  <2>4. BusTypeOK'
    BY <1>0, <2>1, <2>2, <2>3 DEF BusTypeOK
  <2>5. \A t \in Senders : InOrder(t)'
    BY <1>0, <2>1, <2>2, IdleInOrder DEF InOrder, BusTypeOK
  <2> QED
    BY <2>4, <2>5 DEF SendersOK
<1>6. ASSUME NEW s \in Senders, FrameLost(s) PROVE SendersOK'
  BY <1>6, SentCorrect DEF FrameLost
<1>7. ASSUME NEW s \in Senders, SendFails(s) PROVE SendersOK'
  <2>1. BusTypeOK'
    BY <1>0, <1>7, IdleInOrder DEF SendFails, BusTypeOK
  <2>2. \A t \in Senders : InOrder(t)'
    BY <1>0, <1>7, IdleInOrder DEF SendFails, InOrder, Idle, BusTypeOK
  <2> QED
    BY <2>1, <2>2 DEF SendersOK
<1>8. ASSUME NEW s \in Senders, NEW dlc \in Dlcs, FrameArrives(s, dlc) PROVE SendersOK'
  <2>1. Arrives(s, dlc) \in BOOLEAN
    BY DEF Arrives
  <2> QED
    BY <1>8, <2>1, SentCorrect DEF FrameArrives
<1> QED
  BY <1>1, <1>2, <1>3, <1>4, <1>5, <1>6, <1>7, <1>8 DEF Next

\* Every step of the bus is one of the table, which sees nothing but frames.
LEMMA BusStep == SendersOK /\ [Next]_vars => [FpNext]_fpvars
<1> SUFFICES ASSUME SendersOK, [Next]_vars PROVE [FpNext]_fpvars
  OBVIOUS
<1>1. CASE UNCHANGED vars
  BY <1>1 DEF vars, fpvars
<1>2. CASE Tick
  BY <1>2 DEF Tick, FpNext
<1>3. ASSUME NEW fr \in StrangeFrames, StrangeFrame(fr) PROVE FpNext
  BY <1>3, StrangeTyped DEF StrangeFrame, FpNext
<1>4. ASSUME NEW s \in Senders, LoadSequence(s) \/ StoreSequence(s) \/ FrameLost(s) \/ SendFails(s)
      PROVE  FpNext
  BY <1>4 DEF LoadSequence, StoreSequence, FrameLost, SendFails, FpNext, Elsewhere
<1>5. ASSUME NEW s \in Senders, NEW dlc \in Dlcs, FrameArrives(s, dlc) PROVE FpNext
  BY <1>5, FrameOfSender DEF FrameArrives, FrameOf, FpNext
<1> QED
  BY <1>1, <1>2, <1>3, <1>4, <1>5 DEF Next

\* The senders drive the table as FastPacket has it driven: whatever they and the
\* strangers do, it gets nothing but frames.
THEOREM BusImplementsTable == Spec => FpSpec
<1>1. Init => FpInit
  BY DEF Init
<1> QED
  BY <1>1, SendersStart, SendersStep, BusStep, PTL DEF Spec, FpSpec

\* No two sessions wait for frames of one key, whatever the senders, the strangers
\* and the bus do.
THEOREM OneSessionCorrect == Spec => []OneSessionPerKey
BY BusImplementsTable, TableCorrect, PTL

\* Nor is a payload with a hole handed to the handler.
THEOREM CompleteCorrect == Spec => []CompletePayload
BY BusImplementsTable, TableCorrect, PTL
-----------------------------------------------------------------------------
(* Messages do not mix. *)

MixInv ==
  /\ ~raced => KeysDistinct /\ FlowsPure /\ CleanHeld
  /\ Unmixed

\* No sender becomes busy, and those that are stay with their message.
BusyKept ==
  \A s \in Senders : tx'[s].pc = "idle" \/ (tx[s].pc # "idle" /\ tx'[s].n = tx[s].n)

LEMMA KeysDistinctKept ==
  ASSUME KeysDistinct, BusyKept
  PROVE  KeysDistinct'
BY DEF KeysDistinct, BusyKept, Key

LEMMA PureKept ==
  ASSUME NEW e, Pure(e, tx), BusyKept
  PROVE  Pure(e, tx')
BY DEF Pure, BusyKept

\* A step that leaves the sessions alone.
LEMMA TableKept ==
  ASSUME SendersOK, KeysDistinct, FlowsPure, CleanHeld, BusyKept, UNCHANGED s_fp, out' = None,
         \A t \in Senders : tx'[t].clean /\ tx'[t].num > 0 => SameMessage(t)
  PROVE  KeysDistinct' /\ FlowsPure' /\ CleanHeld' /\ Unmixed'
<1>1. KeysDistinct'
  BY KeysDistinctKept
<1>2. FlowsPure'
  BY PureKept DEF FlowsPure
<1>3. CleanHeld'
  <2>1. ASSUME NEW t \in Senders, tx'[t].clean, tx'[t].num > 0
        PROVE  \E i \in Slots : Holds(s_fp[i], t)'
    <3>1. SameMessage(t)
      BY <2>1
    <3>2. PICK i \in Slots : Holds(s_fp[i], t)
      BY <2>1, <3>1 DEF SameMessage, CleanHeld
    <3> QED
      BY <3>1, <3>2 DEF SameMessage, Holds, Key
  <2> QED
    BY <2>1 DEF CleanHeld
<1> QED
  BY <1>1, <1>2, <1>3 DEF Unmixed

LEMMA TickMix ==
  ASSUME FpInv, FpInv', SendersOK, MixInv, Tick
  PROVE  MixInv'
<1>1. out' = None /\ UNCHANGED <<s_fp_tx_seq>>
  BY DEF Tick, Age
<1>2. \A t \in Senders : tx'[t].pc = tx[t].pc /\ tx'[t].n = tx[t].n /\ tx'[t].num = tx[t].num
  BY DEF Tick, SendersOK, BusTypeOK, Message
<1>3. \A t \in Senders : tx'[t].clean => tx[t].clean /\ (tx[t].num = 0 \/ Open(s_fp', Key(t)))
  BY DEF Tick, SendersOK, BusTypeOK, Message
<1>4. ASSUME NEW i \in Slots, s_fp'[i].active, s_fp'[i].age < TTL
      PROVE  /\ s_fp[i].active /\ s_fp[i].age < TTL
             /\ s_fp'[i].key = s_fp[i].key /\ s_fp'[i].total_len = s_fp[i].total_len
             /\ s_fp'[i].frame_mask = s_fp[i].frame_mask /\ s_fp'[i].data = s_fp[i].data
  <2>1. PICK turn \in Turns :
          s_fp' = [j \in Slots |->
                    IF s_fp[j].active
                    THEN [s_fp[j] EXCEPT !.age = Smaller(@ + 1, TTL), !.before = @ \/ turn]
                    ELSE s_fp[j]]
    BY DEF Tick, Age
  <2>2. s_fp[i] \in Session
    BY DEF FpInv, TypeOK
  <2>3. s_fp[i].active
    BY <1>4, <2>1
  <2>4. s_fp'[i] = Aged(s_fp[i], turn)
    BY <2>1, <2>3 DEF Aged
  <2>5. s_fp'[i].age = Smaller(s_fp[i].age + 1, TTL)
    BY <2>2, <2>4 DEF Aged, Session
  <2>6. s_fp[i].age < TTL
    BY <1>4, <2>2, <2>5, FastPacketAssumption DEF Session, Smaller
  <2> QED
    BY <2>2, <2>3, <2>4, <2>6, SessionAged
<1>5. CASE raced /\ ~raced'
  <2>1. (\A t \in Senders : tx[t].pc = "idle") /\ \A k \in FlowKeys : ~Open(s_fp', k)
    BY <1>5 DEF Tick, Settled
  <2>2. KeysDistinct'
    BY <1>2, <2>1 DEF KeysDistinct
  <2>3. FlowsPure'
    BY <2>1 DEF FlowsPure, Open
  <2>4. CleanHeld'
    <3>1. \A t \in Senders : tx'[t].num = 0
      BY <1>2, <2>1 DEF SendersOK, InOrder
    <3> QED
      BY <3>1 DEF CleanHeld
  <2> QED
    BY <1>1, <2>2, <2>3, <2>4 DEF MixInv, Unmixed
<1>6. CASE ~raced
  <2>1. KeysDistinct /\ FlowsPure /\ CleanHeld
    BY <1>6 DEF MixInv
  <2>2. BusyKept
    BY <1>2 DEF BusyKept
  <2>3. FlowsPure'
    <3>1. ASSUME NEW i \in Slots, s_fp'[i].active, s_fp'[i].age < TTL, s_fp'[i].key \in FlowKeys
          PROVE  Pure(s_fp'[i], tx')
      <4>1. Pure(s_fp[i], tx)
        BY <1>4, <2>1, <3>1 DEF FlowsPure
      <4>2. Pure(s_fp[i], tx')
        BY <2>2, <4>1, PureKept
      <4> QED
        BY <1>4, <3>1, <4>2 DEF Pure
    <3> QED
      BY <3>1 DEF FlowsPure
  <2>4. CleanHeld'
    <3>1. ASSUME NEW t \in Senders, tx'[t].clean, tx'[t].num > 0
          PROVE  \E i \in Slots : Holds(s_fp[i], t)'
      <4>1. tx[t].clean /\ tx[t].num > 0 /\ Open(s_fp', Key(t))
        BY <1>2, <1>3, <3>1
      <4>2. PICK i \in Slots : Holds(s_fp[i], t)
        BY <2>1, <4>1 DEF CleanHeld
      <4>3. PICK j \in Slots : s_fp'[j].active /\ s_fp'[j].key = Key(t) /\ s_fp'[j].age < TTL
        BY <4>1 DEF Open
      <4>4. i = j
        BY <1>4, <4>2, <4>3 DEF Holds, HasFrames, FpInv, OneSessionPerKey
      <4> QED
        BY <1>2, <1>4, <4>2, <4>3, <4>4 DEF Holds, HasFrames, Key
    <3> QED
      BY <3>1 DEF CleanHeld
  <2> QED
    BY <1>1, <2>1, <2>2, <2>3, <2>4, KeysDistinctKept DEF MixInv, Unmixed
<1> QED
  BY <1>1, <1>5, <1>6 DEF MixInv, Unmixed

LEMMA ExpiredOpen ==
  ASSUME FpInv, NEW i \in Slots, Expired[i].active
  PROVE  Expired[i] = s_fp[i] /\ s_fp[i].active /\ s_fp[i].age < TTL
BY FreeTyped DEF Expired

\* A frame of another key: a clean message keeps its session unless it is evicted.
LEMMA HeldKept ==
  ASSUME FpInv, SendersOK, CleanHeld, NEW fr \in Frame, Feed(fr),
         NEW t \in Senders, Key(t) # fr.key, SameMessage(t), tx'[t].clean => ~Evicted(t),
         tx'[t].clean, tx'[t].num > 0
  PROVE  \E i \in Slots : Holds(s_fp[i], t)'
<1>1. PICK i \in Slots : Holds(s_fp[i], t)
  BY DEF SameMessage, CleanHeld
<1>2. Expired[i] = s_fp[i] /\ s_fp[i].active /\ s_fp[i].key = Key(t) /\ Key(t) \in Keys
  <2>1. Key(t) \in FlowKeys
    BY KeyInFlows DEF SendersOK, BusTypeOK, Message, Key
  <2> QED
    BY <1>1, <2>1, BusAssumption DEF Holds, HasFrames, Expired
<1>3. s_fp'[i].key = Key(t)
  BY <1>2 DEF Evicted
<1>4. s_fp'[i] = s_fp[i]
  BY <1>2, <1>3, FreedKey
<1> QED
  BY <1>1, <1>4 DEF SameMessage, Holds, Key

LEMMA StrangeMix ==
  ASSUME FpInv, FpInv', SendersOK, MixInv, NEW fr \in StrangeFrames, StrangeFrame(fr)
  PROVE  MixInv'
<1>1. fr \in Frame /\ fr.key \notin FlowKeys /\ Feed(fr) /\ raced' = raced
  BY StrangeTyped DEF StrangeFrame
<1>2. \A t \in Senders : SameMessage(t) /\ (tx'[t].clean => ~Evicted(t))
  <2>1. \A t \in Senders : tx'[t] = [tx[t] EXCEPT !.clean = @ /\ ~Evicted(t)]
    BY DEF StrangeFrame
  <2> QED
    BY <2>1, OthersKept DEF SendersOK
<1>3. \A t \in Senders : Key(t) \in FlowKeys
  BY KeyInFlows DEF SendersOK, BusTypeOK, Message, Key
<1>4. BusyKept
  BY <1>2 DEF BusyKept, SameMessage
<1>5. Unmixed'
  BY <1>1, OutKey DEF Unmixed
<1>6. ASSUME ~raced PROVE KeysDistinct' /\ FlowsPure' /\ CleanHeld'
  <2>1. KeysDistinct /\ FlowsPure /\ CleanHeld
    BY <1>6 DEF MixInv
  <2>2. FlowsPure'
    <3>1. ASSUME NEW i \in Slots, s_fp'[i].active, s_fp'[i].key \in FlowKeys
          PROVE  Pure(s_fp'[i], tx')
      <4>1. s_fp'[i] = Expired[i]
        BY <1>1, <3>1, FeedOthers
      <4>2. Pure(s_fp[i], tx) /\ s_fp'[i] = s_fp[i]
        BY <2>1, <3>1, <4>1, ExpiredOpen DEF FlowsPure
      <4>3. Pure(s_fp[i], tx')
        BY <1>4, <4>2, PureKept
      <4> QED
        BY <4>2, <4>3
    <3> QED
      BY <3>1 DEF FlowsPure
  <2>3. CleanHeld'
    <3>1. ASSUME NEW t \in Senders, tx'[t].clean, tx'[t].num > 0
          PROVE  \E i \in Slots : Holds(s_fp[i], t)'
      BY <1>1, <1>2, <1>3, <2>1, <3>1, HeldKept
    <3> QED
      BY <3>1 DEF CleanHeld
  <2> QED
    BY <1>4, <2>1, <2>2, <2>3, KeysDistinctKept
<1> QED
  BY <1>1, <1>5, <1>6 DEF MixInv

\* The last frame of a clean message completes it, any other leaves all the frames
\* so far in a session.
LEMMA CleanFrame ==
  ASSUME FpInv, SendersOK, CleanHeld, NEW s \in Senders, NEW dlc \in Dlcs,
         FrameArrives(s, dlc), tx[s].clean, Arrives(s, dlc)
  PROVE  IF tx[s].num = ExpectedFrames(Length[s]) - 1
         THEN /\ out' # None
              /\ out'.key = Key(s) /\ out'.total_len = Length[s]
              /\ \A k \in 0 .. tx[s].num : out'.data[k] = <<s, tx[s].n>>
         ELSE \E i \in Slots :
                HasFrames(s_fp'[i], Key(s), Length[s], tx[s].num + 1, <<s, tx[s].n>>)
<1> DEFINE fr == FrameOf(s, dlc)
           n == Length[s]
<1>1. /\ fr \in Frame /\ Feed(fr) /\ fr.key = Key(s) /\ fr.num = tx[s].num
      /\ fr.total_len = n /\ fr.dlc = dlc /\ fr.msg = <<s, tx[s].n>>
  BY FrameOfSender DEF FrameArrives, FrameOf
<1>2. n \in 1 .. FAST_PACKET_MAX_PAYLOAD /\ fr.num < ExpectedFrames(n) /\ fr.num \in Nat
  BY <1>1, IdleInOrder DEF SendersOK, BusTypeOK, Message, InOrder
<1>3. Take(s) = Copy(fr.num, n)
  <2>1. Arrives(s, dlc) \in BOOLEAN /\ Sending(s) /\ Sent(s, Arrives(s, dlc))
    BY DEF Arrives, FrameArrives
  <2> QED
    BY <1>1, <2>1, SentCorrect
<1>4. fr.dlc - (IF fr.num = 0 THEN 2 ELSE 1) >= Copy(fr.num, n)
  BY <1>1, <1>3 DEF Arrives
<1>5. fr.num # 0 => \E i \in Slots : HasFrames(s_fp[i], fr.key, n, fr.num, fr.msg)
  BY <1>1, <1>2 DEF CleanHeld, Holds
<1> HIDE DEF fr, n
<1>6. IF fr.num = ExpectedFrames(n) - 1
      THEN /\ out' # None
           /\ out'.key = fr.key /\ out'.total_len = n
           /\ \A k \in 0 .. fr.num : out'.data[k] = fr.msg
      ELSE \E i \in Slots : HasFrames(s_fp'[i], fr.key, n, fr.num + 1, fr.msg)
  BY <1>1, <1>2, <1>4, <1>5, FeedNext
<1> QED
  BY <1>1, <1>6 DEF n

LEMMA ArrivesMix ==
  ASSUME FpInv, FpInv', SendersOK, MixInv, NEW s \in Senders, NEW dlc \in Dlcs, FrameArrives(s, dlc)
  PROVE  MixInv'
<1> DEFINE fr == FrameOf(s, dlc)
<1>1. /\ fr \in Frame /\ Feed(fr) /\ fr.key = Key(s) /\ fr.key \in FlowKeys
      /\ fr.msg = <<s, tx[s].n>> /\ raced' = raced
  BY FrameOfSender DEF FrameArrives, FrameOf, Sent
<1>2. Arrives(s, dlc) \in BOOLEAN /\ Sending(s) /\ Sent(s, Arrives(s, dlc)) /\ tx[s].pc = "sending"
  BY DEF Arrives, FrameArrives, Sending
<1>3. \A t \in Senders \ {s} : SameMessage(t) /\ (tx'[t].clean => ~Evicted(t))
  BY <1>2, SentCorrect
<1>4. IF tx[s].num = ExpectedFrames(Length[s]) - 1
      THEN tx'[s] = Idle
      ELSE /\ tx'[s].pc = "sending" /\ tx'[s].n = tx[s].n
           /\ tx'[s].num = tx[s].num + 1
           /\ tx'[s].clean => tx[s].clean /\ Arrives(s, dlc)
  BY <1>2, SentCorrect
<1>5. BusyKept
  BY <1>2, <1>3, <1>4 DEF BusyKept, SameMessage, Idle
<1>6. ASSUME ~raced
      PROVE  KeysDistinct' /\ FlowsPure' /\ CleanHeld' /\ Unmixed'
  <2>1. KeysDistinct /\ FlowsPure /\ CleanHeld
    BY <1>6 DEF MixInv
  <2>2. \A i \in Slots : Expired[i].active /\ Expired[i].key = fr.key =>
          \A k \in Expired[i].frame_mask : Expired[i].data[k] = fr.msg
    <3>1. ASSUME NEW i \in Slots, Expired[i].active, Expired[i].key = fr.key
          PROVE  \A k \in Expired[i].frame_mask : Expired[i].data[k] = fr.msg
      <4>1. Expired[i] = s_fp[i] /\ Pure(s_fp[i], tx)
        BY <1>1, <2>1, <3>1, ExpiredOpen DEF FlowsPure
      <4> QED
        BY <1>1, <1>2, <3>1, <4>1 DEF Pure, Key
    <3> QED
      BY <3>1
  <2>3. /\ \A i \in Slots : s_fp'[i].active /\ s_fp'[i].key = fr.key =>
             \A k \in s_fp'[i].frame_mask : s_fp'[i].data[k] = fr.msg
        /\ out' # None =>
             \A k \in 1 .. ExpectedFrames(out'.total_len) - 1 : out'.data[k] = out'.data[0]
    <3> HIDE DEF fr
    <3> QED
      BY <1>1, <2>2, FeedPure
  <2>4. KeysDistinct'
    BY <1>5, <2>1, KeysDistinctKept
  <2>5. FlowsPure'
    <3>1. ASSUME NEW i \in Slots, s_fp'[i].active, s_fp'[i].key \in FlowKeys
          PROVE  Pure(s_fp'[i], tx')
      <4>1. CASE s_fp'[i].key = fr.key
        <5>1. \A t \in Senders : tx'[t].pc # "idle" /\ KeyOf(t, tx'[t].n) = fr.key =>
                fr.msg = <<t, tx'[t].n>>
          BY <1>1, <1>2, <1>5, <2>1 DEF BusyKept, KeysDistinct, Key
        <5>2. fr.msg \in Msgs
          BY <1>1, FrameTyped
        <5> HIDE DEF fr
        <5> QED
          BY <2>3, <3>1, <4>1, <5>1, <5>2 DEF Pure
      <4>2. CASE s_fp'[i].key # fr.key
        <5>1. s_fp'[i] = Expired[i]
          BY <1>1, <3>1, <4>2, FeedOthers
        <5>2. Pure(s_fp[i], tx) /\ s_fp'[i] = s_fp[i]
          BY <2>1, <3>1, <5>1, ExpiredOpen DEF FlowsPure
        <5>3. Pure(s_fp[i], tx')
          BY <1>5, <5>2, PureKept
        <5> QED
          BY <5>2, <5>3
      <4> QED
        BY <4>1, <4>2
    <3> QED
      BY <3>1 DEF FlowsPure
  <2>6. CleanHeld'
    <3>1. ASSUME NEW t \in Senders, tx'[t].clean, tx'[t].num > 0
          PROVE  \E i \in Slots : Holds(s_fp[i], t)'
      <4>1. CASE t = s
        <5>1. /\ tx[s].num # ExpectedFrames(Length[s]) - 1
              /\ tx'[s].n = tx[s].n /\ tx'[s].num = tx[s].num + 1
              /\ tx[s].clean /\ Arrives(s, dlc)
          BY <1>4, <3>1, <4>1 DEF Idle
        <5>2. \E i \in Slots :
                HasFrames(s_fp'[i], Key(s), Length[s], tx[s].num + 1, <<s, tx[s].n>>)
          BY <2>1, <5>1, CleanFrame
        <5> QED
          BY <4>1, <5>1, <5>2 DEF Holds, Key
      <4>2. CASE t # s
        <5>1. SameMessage(t) /\ (tx'[t].clean => ~Evicted(t))
          BY <1>3, <4>2
        <5>2. tx[t].pc # "idle"
          BY <3>1, <5>1 DEF SameMessage, SendersOK, InOrder
        <5>3. Key(t) # fr.key
          BY <1>1, <1>2, <2>1, <4>2, <5>2 DEF KeysDistinct
        <5> HIDE DEF fr
        <5> QED
          BY <1>1, <2>1, <3>1, <5>1, <5>3, HeldKept
      <4> QED
        BY <4>1, <4>2
    <3> QED
      BY <3>1 DEF CleanHeld
  <2> QED
    BY <2>3, <2>4, <2>5, <2>6 DEF Unmixed
<1> QED
  BY <1>1, <1>6 DEF MixInv, Unmixed

\* A sender that starts a message takes a key that no open session and no other
\* message has, unless two of them race for it.
LEMMA LoadMix ==
  ASSUME Patient, SendersOK, MixInv, NEW s \in Senders, LoadSequence(s)
  PROVE  MixInv'
<1>1. out' = None /\ UNCHANGED s_fp /\ s_fp_tx_seq \in Counts
  BY DEF LoadSequence, SendersOK, BusTypeOK
<1>2. /\ tx'[s].pc = "loaded" /\ tx'[s].n = s_fp_tx_seq /\ tx'[s].num = 0
      /\ \A t \in Senders \ {s} : tx'[t] = tx[t]
  BY DEF LoadSequence, SendersOK, BusTypeOK, Idle
<1>3. ASSUME ~raced' PROVE KeysDistinct' /\ FlowsPure' /\ CleanHeld'
  <2>1. /\ ~raced
        /\ ~Open(s_fp, KeyOf(s, s_fp_tx_seq)) /\ ~InProgress(KeyOf(s, s_fp_tx_seq))
    BY <1>3 DEF LoadSequence
  <2>2. KeysDistinct /\ FlowsPure /\ CleanHeld
    BY <2>1 DEF MixInv
  <2>3. KeysDistinct'
    BY <1>2, <2>1, <2>2 DEF KeysDistinct, InProgress, Key
  <2>4. FlowsPure'
    <3>1. ASSUME NEW i \in Slots, s_fp[i].active, s_fp[i].age < TTL, s_fp[i].key \in FlowKeys
          PROVE  Pure(s_fp[i], tx')
      <4>1. Pure(s_fp[i], tx) /\ s_fp[i].key # KeyOf(s, s_fp_tx_seq)
        BY <2>1, <2>2, <3>1 DEF FlowsPure, Open
      <4> QED
        BY <1>2, <4>1 DEF Pure
    <3> QED
      BY <1>1, <3>1 DEF FlowsPure
  <2>5. CleanHeld'
    <3>1. ASSUME NEW t \in Senders, tx'[t].clean, tx'[t].num > 0
          PROVE  \E i \in Slots : Holds(s_fp[i], t)'
      <4>1. tx'[t] = tx[t]
        BY <1>2, <3>1
      <4>2. PICK i \in Slots : Holds(s_fp[i], t)
        BY <2>2, <3>1, <4>1 DEF CleanHeld
      <4> QED
        BY <1>1, <4>1, <4>2 DEF Holds, Key
    <3> QED
      BY <3>1 DEF CleanHeld
  <2> QED
    BY <2>3, <2>4, <2>5
<1> QED
  BY <1>1, <1>3 DEF MixInv, Unmixed

LEMMA QuietMix ==
  ASSUME SendersOK, MixInv, NEW s \in Senders,
         StoreSequence(s) \/ FrameLost(s) \/ SendFails(s)
  PROVE  MixInv'
<1>1. out' = None /\ UNCHANGED <<s_fp, raced>>
  BY DEF StoreSequence, FrameLost, SendFails, Sent
<1>2. \A t \in Senders : tx[t] \in Message /\ InOrder(t)
  BY DEF SendersOK, BusTypeOK
<1>3. BusyKept /\ \A t \in Senders : tx'[t].clean /\ tx'[t].num > 0 => SameMessage(t)
  <2>1. CASE StoreSequence(s)
    <3>1. /\ tx'[s].pc = "sending" /\ tx'[s].n = tx[s].n /\ tx'[s].num = 0 /\ tx[s].pc = "loaded"
          /\ \A t \in Senders \ {s} : tx'[t] = tx[t]
      BY <1>2, <2>1 DEF StoreSequence, SendersOK, BusTypeOK, Message, InOrder
    <3> QED
      BY <1>2, <3>1 DEF BusyKept, SameMessage
  <2>2. CASE SendFails(s)
    <3>1. tx'[s] = Idle /\ \A t \in Senders \ {s} : tx'[t] = tx[t]
      BY <2>2 DEF SendFails, SendersOK, BusTypeOK
    <3> QED
      BY <1>2, <3>1 DEF BusyKept, SameMessage, Idle
  <2>3. CASE FrameLost(s)
    <3>1. Sending(s) /\ Sent(s, FALSE) /\ tx[s].pc = "sending"
      BY <2>3 DEF FrameLost, Sending
    <3>2. \A t \in Senders \ {s} : SameMessage(t)
      BY <3>1, SentCorrect
    <3>3. tx'[s] = Idle \/ (tx'[s].n = tx[s].n /\ ~tx'[s].clean)
      BY <3>1, SentCorrect
    <3> QED
      BY <3>1, <3>2, <3>3 DEF BusyKept, SameMessage, Idle
  <2> QED
    BY <2>1, <2>2, <2>3
<1>4. ASSUME ~raced PROVE KeysDistinct' /\ FlowsPure' /\ CleanHeld'
  BY <1>1, <1>3, <1>4, TableKept DEF MixInv
<1> QED
  BY <1>1, <1>4 DEF MixInv, Unmixed

LEMMA MixStart == Init => MixInv
<1> SUFFICES ASSUME Init PROVE MixInv
  OBVIOUS
<1>1. \A s \in Senders : tx[s].pc = "idle" /\ ~tx[s].clean
  BY DEF Init, Idle
<1>2. \A i \in Slots : ~s_fp[i].active
  BY DEF Init, FpInit, FreeSession
<1> QED
  BY <1>1, <1>2 DEF MixInv, KeysDistinct, FlowsPure, CleanHeld, Unmixed, Init, FpInit

LEMMA MixStep ==
  ASSUME Patient
  PROVE  FpInv /\ FpInv' /\ SendersOK /\ MixInv /\ [Next]_vars => MixInv'
<1> SUFFICES ASSUME FpInv, FpInv', SendersOK, MixInv, [Next]_vars PROVE MixInv'
  OBVIOUS
<1>1. CASE UNCHANGED vars
  BY <1>1 DEF vars, MixInv, KeysDistinct, FlowsPure, CleanHeld, Holds, Pure, Unmixed, Key
<1>2. CASE Tick
  BY <1>2, TickMix
<1>3. ASSUME NEW fr \in StrangeFrames, StrangeFrame(fr) PROVE MixInv'
  BY <1>3, StrangeMix
<1>4. ASSUME NEW s \in Senders, LoadSequence(s) PROVE MixInv'
  BY <1>4, LoadMix
<1>5. ASSUME NEW s \in Senders, StoreSequence(s) \/ FrameLost(s) \/ SendFails(s) PROVE MixInv'
  BY <1>5, QuietMix
<1>6. ASSUME NEW s \in Senders, NEW dlc \in Dlcs, FrameArrives(s, dlc) PROVE MixInv'
  BY <1>6, ArrivesMix
<1> QED
  BY <1>1, <1>2, <1>3, <1>4, <1>5, <1>6 DEF Next

BusInv == FpInv /\ SendersOK /\ MixInv

LEMMA BusInvariant ==
  ASSUME Patient
  PROVE  Spec => []BusInv
<1>1. Init => BusInv
  BY SendersStart, FpStart, MixStart DEF Init, BusInv
<1>2. BusInv /\ [Next]_vars => BusInv'
  BY SendersStep, BusStep, FpStep, MixStep DEF BusInv
<1> QED
  BY <1>1, <1>2, PTL DEF Spec

\* No payload mixes two messages, for any number of senders, sessions, strangers and
\* sequence numbers, while a key is not used again within the TTL of a session and
\* no two tasks have incremented s_fp_tx_seq at the same time.
THEOREM UnmixedCorrect ==
  ASSUME Patient
  PROVE  Spec => []Unmixed
<1>1. BusInv => Unmixed
  BY DEF BusInv, MixInv
<1> QED
  BY <1>1, BusInvariant, PTL

\* Under the same conditions a message whose frames all arrived, without a pause
\* and without an eviction, is handed to the handler with its last frame.
THEOREM DeliveredCorrect ==
  ASSUME Patient
  PROVE  Spec => ReceivedIsDelivered
<1> DEFINE A == \A s \in Senders, dlc \in Dlcs :
       /\ ~raced
       /\ tx[s].clean /\ Arrives(s, dlc)
       /\ tx[s].offset + Take(s) = Length[s]
       /\ FrameArrives(s, dlc)
       => /\ out' # None
          /\ out'.key = Key(s)
          /\ out'.total_len = Length[s]
          /\ \A k \in 0 .. tx[s].num : out'.data[k] = <<s, tx[s].n>>
<1>1. BusInv => A
  <2> SUFFICES ASSUME BusInv, NEW s \in Senders, NEW dlc \in Dlcs,
                      ~raced, tx[s].clean, Arrives(s, dlc),
                      tx[s].offset + Take(s) = Length[s], FrameArrives(s, dlc)
               PROVE  /\ out' # None
                      /\ out'.key = Key(s)
                      /\ out'.total_len = Length[s]
                      /\ \A k \in 0 .. tx[s].num : out'.data[k] = <<s, tx[s].n>>
    OBVIOUS
  <2>1. FpInv /\ SendersOK /\ CleanHeld
    BY DEF BusInv, MixInv
  <2>2. Arrives(s, dlc) \in BOOLEAN /\ Sending(s) /\ Sent(s, Arrives(s, dlc))
    BY DEF Arrives, FrameArrives
  <2>3. tx[s].num = ExpectedFrames(Length[s]) - 1
    BY <2>1, <2>2, SentCorrect
  <2> QED
    BY <2>1, <2>3, CleanFrame
<1>2. BusInv /\ [Next]_vars => [A]_vars
  BY <1>1
<1> QED
  BY <1>2, BusInvariant, PTL DEF Spec, ReceivedIsDelivered
=============================================================================
