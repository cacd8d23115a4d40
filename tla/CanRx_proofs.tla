----------------------------- MODULE CanRx_proofs -----------------------------
(***************************************************************************)
(* Proofs about reception, for queues of any length and any number of      *)
(* frames and bus-offs.                                                    *)
(***************************************************************************)
EXTENDS CanRx, FiniteSetTheorems, SequenceTheorems, TLAPS

\* What is known of the alerts while the driver runs, and in each of the states a
\* bus-off takes it through.  From the serving of the bus-off to twai_start no
\* alert makes the task touch the driver's queue.
Running ==
  twai = "running" =>
    /\ {"BUS_OFF", "BUS_RECOVERED"} \cap (alerts \cup read) = {}
    /\ flushed = skipped

Off ==
  twai = "bus_off" =>
    /\ "BUS_RECOVERED" \notin alerts \cup read
    /\ "BUS_OFF" \in alerts \/ "BUS_OFF" \in read
    /\ "BUS_OFF" \in alerts => "BUS_OFF" \notin read
    /\ "BUS_OFF" \in read => alerts = {} /\ pc = "serve"
    /\ flushed = skipped

Recovering ==
  twai = "recovering" =>
    /\ alerts = {} /\ read = {} /\ pc = "wait"
    /\ skipped = flushed \cup Range(rx_queue)

Stopped ==
  twai = "stopped" =>
    /\ \/ alerts = {"BUS_RECOVERED"} /\ read = {} /\ pc = "wait"
       \/ alerts = {} /\ read = {"BUS_RECOVERED"} /\ pc = "serve"
    /\ skipped = flushed \cup Range(rx_queue)

BusOffInv ==
  /\ twai \in {"running", "bus_off", "recovering", "stopped"}
  /\ pc # "serve" => read = {}
  /\ Running /\ Off /\ Recovering /\ Stopped

\* A step of the task that leaves the driver, its alerts and the histories alone,
\* and does not look at more alerts than it has read.
LEMMA QueueStep ==
  ASSUME BusOffInv,
         twai' = twai, alerts' = alerts, UNCHANGED history,
         pc # "wait" \/ pc' = pc,
         rx_queue' = rx_queue \/ pc = "drain",
         read' = read, pc # "serve", pc' # "serve"
  PROVE  BusOffInv'
BY DEF BusOffInv, Running, Off, Recovering, Stopped, history

LEMMA DriverCorrect ==
  ASSUME BusOffInv,
         FrameArrives \/ (\E overrun \in BOOLEAN : OtherAlert(overrun)) \/ BusOff \/ BusRecovers
  PROVE  BusOffInv'
<1>1. CASE FrameArrives
  <2>1. /\ twai = "running"
        /\ alerts' \in {alerts \cup {"RX_DATA"}, alerts \cup {"RX_QUEUE_FULL"}}
        /\ UNCHANGED <<twai, pc, read, skipped, flushed>>
    BY <1>1 DEF FrameArrives, history
  <2> QED
    BY <2>1 DEF BusOffInv, Running, Off, Recovering, Stopped
<1>2. ASSUME NEW overrun \in BOOLEAN, OtherAlert(overrun) PROVE BusOffInv'
  <2>1. /\ twai = "running"
        /\ alerts' = alerts \cup {"OTHER"}
        /\ UNCHANGED <<twai, pc, read, skipped, flushed>>
    BY <1>2 DEF OtherAlert, history
  <2> QED
    BY <2>1 DEF BusOffInv, Running, Off, Recovering, Stopped
<1>3. CASE BusOff
  BY <1>3 DEF BusOff, BusOffInv, Running, Off, Recovering, Stopped, history
<1>4. CASE BusRecovers
  BY <1>4 DEF BusRecovers, BusOffInv, Running, Off, Recovering, Stopped, history
<1> QED
  BY <1>1, <1>2, <1>3, <1>4

LEMMA AlertsCorrect ==
  ASSUME BusOffInv, ReadAlerts \/ ServeBusOff \/ ServeRecovered \/ ServeRest
  PROVE  BusOffInv'
<1>1. CASE ReadAlerts
  BY <1>1 DEF ReadAlerts, BusOffInv, Running, Off, Recovering, Stopped, history
<1>2. CASE ServeBusOff
  <2>1. twai = "bus_off" /\ alerts = {} /\ flushed = skipped
    BY <1>2 DEF ServeBusOff, BusOffInv, Running, Off, Recovering, Stopped
  <2>2. /\ twai' = "recovering" /\ alerts' = {} /\ read' = {} /\ pc' = "wait"
        /\ skipped' = skipped \cup Range(rx_queue)
        /\ UNCHANGED <<rx_queue, flushed>>
    BY <1>2, <2>1 DEF ServeBusOff
  <2> QED
    BY <2>1, <2>2 DEF BusOffInv, Running, Off, Recovering, Stopped
<1>3. CASE ServeRecovered
  <2>1. twai = "stopped" /\ alerts = {} /\ read = {"BUS_RECOVERED"} /\ pc = "serve"
    BY <1>3 DEF ServeRecovered, BusOffInv, Running, Off, Recovering, Stopped
  <2>2. /\ twai' = "running" /\ alerts' = {} /\ read' = {} /\ pc' = "serve"
        /\ flushed' = flushed \cup Range(rx_queue)
        /\ skipped' = skipped
    BY <1>3, <2>1 DEF ServeRecovered
  <2> QED
    BY <2>1, <2>2 DEF BusOffInv, Running, Off, Recovering, Stopped
<1>4. CASE ServeRest
  <2>1. /\ read \cap {"BUS_OFF", "BUS_RECOVERED"} = {}
        /\ pc = "serve" /\ pc' \in {"drain", "wait"} /\ read' = {}
        /\ UNCHANGED <<twai, alerts, rx_queue, skipped, flushed>>
    BY <1>4 DEF ServeRest, driver, history
  <2> QED
    BY <2>1 DEF BusOffInv, Running, Off, Recovering, Stopped
<1> QED
  BY <1>1, <1>2, <1>3, <1>4

LEMMA BusOffStart == Init => BusOffInv
BY DEF Init, BusOffInv, Running, Off, Recovering, Stopped

LEMMA BusOffStep == BusOffInv /\ [Next]_vars => BusOffInv'
<1> SUFFICES ASSUME BusOffInv, [Next]_vars PROVE BusOffInv'
  OBVIOUS
<1>1. CASE UNCHANGED vars \/ ReadTimesOut
  <2>1. UNCHANGED <<twai, alerts, rx_queue, pc, read, skipped, flushed>>
    BY <1>1 DEF vars, driver, history, ReadTimesOut
  <2> QED
    BY <2>1 DEF BusOffInv, Running, Off, Recovering, Stopped
<1>2. CASE FrameArrives \/ (\E overrun \in BOOLEAN : OtherAlert(overrun)) \/ BusOff \/ BusRecovers
  BY <1>2, DriverCorrect
<1>3. CASE ReadAlerts \/ ServeBusOff \/ ServeRecovered \/ ServeRest
  BY <1>3, AlertsCorrect
<1>4. CASE TakeMessage
  BY <1>4, QueueStep DEF TakeMessage
<1>5. CASE Drained
  BY <1>5, QueueStep DEF Drained, driver
<1>6. CASE Enqueue
  BY <1>6, QueueStep DEF Enqueue, driver
<1>7. CASE CountEnqueued
  BY <1>7, QueueStep DEF CountEnqueued, driver
<1>8. CASE DropMessage
  BY <1>8, QueueStep DEF DropMessage, driver
<1>9. CASE HandleFrame
  <2>1. UNCHANGED <<twai, alerts, rx_queue, pc, read, skipped, flushed>>
    BY <1>9 DEF HandleFrame, driver, history
  <2> QED
    BY <2>1 DEF BusOffInv, Running, Off, Recovering, Stopped
<1> QED
  BY <1>1, <1>2, <1>3, <1>4, <1>5, <1>6, <1>7, <1>8, <1>9 DEF Next, RxTask

\* However frames, alerts and bus-offs are ordered: whenever the driver runs, the
\* frames that twai_start has thrown away are those that waited in its queue when
\* a bus-off was served.
THEOREM BusOffCorrect == Spec => []BusOffLosesTheQueue
<1>1. BusOffInv => BusOffLosesTheQueue
  BY DEF BusOffInv, Running, BusOffLosesTheQueue
<1> QED
  BY <1>1, BusOffStart, BusOffStep, PTL DEF Spec

-----------------------------------------------------------------------------
(* The queues. *)

Increasing(q) == \A i, j \in 1 .. Len(q) : i < j => q[i] < q[j]

LEMMA RangeElements ==
  ASSUME NEW S, NEW q \in Seq(S)
  PROVE  /\ Range(q) = {q[i] : i \in 1 .. Len(q)}
         /\ Range(q) \subseteq S
BY LenProperties, ElementOfSeq DEF Range

\* Putting a frame that is newer than all the others at the end of a queue.
LEMMA AppendNewer ==
  ASSUME NEW S, S \subseteq Nat, NEW q \in Seq(S), NEW e \in S, Increasing(q),
         \A x \in Range(q) : x < e
  PROVE  /\ Append(q, e) \in Seq(S)
         /\ Len(Append(q, e)) = Len(q) + 1
         /\ Range(Append(q, e)) = Range(q) \cup {e}
         /\ Increasing(Append(q, e))
<1> DEFINE a == Append(q, e)
<1>1. /\ a \in Seq(S) /\ Len(a) = Len(q) + 1
      /\ \A i \in 1 .. Len(q) : a[i] = q[i]
      /\ a[Len(q) + 1] = e
  BY AppendProperties
<1>2. Len(q) \in Nat /\ Range(q) = {q[i] : i \in 1 .. Len(q)} /\ Range(a) = {a[i] : i \in 1 .. Len(a)}
  BY <1>1, LenProperties, RangeElements
<1> HIDE DEF a
<1>3. \A i \in 1 .. Len(a) : i \in 1 .. Len(q) \/ i = Len(q) + 1
  BY <1>1, <1>2
<1>4. Range(a) = Range(q) \cup {e}
  <2>1. \A i \in 1 .. Len(a) : a[i] \in Range(q) \cup {e}
    BY <1>1, <1>2, <1>3
  <2>2. \A i \in 1 .. Len(q) : i \in 1 .. Len(a) /\ a[i] = q[i]
    BY <1>1, <1>2
  <2>3. Len(q) + 1 \in 1 .. Len(a) /\ a[Len(q) + 1] = e
    BY <1>1, <1>2
  <2> QED
    BY <1>2, <2>1, <2>2, <2>3
<1>5. Increasing(a)
  <2> SUFFICES ASSUME NEW i \in 1 .. Len(a), NEW j \in 1 .. Len(a), i < j PROVE a[i] < a[j]
    BY DEF Increasing
  <2>1. i \in 1 .. Len(q)
    BY <1>1, <1>2
  <2>2. CASE j \in 1 .. Len(q)
    BY <1>1, <2>1, <2>2 DEF Increasing
  <2>3. CASE j = Len(q) + 1
    BY <1>1, <1>2, <2>1, <2>3
  <2> QED
    BY <1>3, <2>2, <2>3
<1> QED
  BY <1>1, <1>4, <1>5 DEF a

\* Taking the first frame of a queue.
LEMMA TakeFirst ==
  ASSUME NEW S, S \subseteq Nat, NEW q \in Seq(S), q # <<>>, Increasing(q)
  PROVE  /\ Head(q) \in Range(q) /\ Head(q) \in S
         /\ Tail(q) \in Seq(S) /\ Len(Tail(q)) = Len(q) - 1
         /\ Range(Tail(q)) = Range(q) \ {Head(q)}
         /\ \A x \in Range(Tail(q)) : Head(q) < x
         /\ Increasing(Tail(q))
<1> DEFINE t == Tail(q)
           h == Head(q)
<1>1. /\ h \in S /\ t \in Seq(S) /\ Len(t) = Len(q) - 1
      /\ \A i \in 1 .. Len(t) : t[i] = q[i + 1]
  BY HeadTailProperties
<1>2. Len(q) \in Nat \ {0} /\ Range(q) = {q[i] : i \in 1 .. Len(q)} /\ Range(t) = {t[i] : i \in 1 .. Len(t)}
  BY <1>1, EmptySeq, RangeElements
<1>3. h = q[1] /\ \A i \in 1 .. Len(q) : q[i] \in Nat
  <2>1. \A i \in 1 .. Len(q) : q[i] \in S
    BY ElementOfSeq
  <2>2. Head(q) = q[1]
    BY <1>2
  <2> QED
    BY <2>1, <2>2
<1> HIDE DEF t, h
<1>4. \A i \in 1 .. Len(t) : i + 1 \in 1 .. Len(q) /\ h < q[i + 1]
  BY <1>1, <1>2, <1>3 DEF Increasing
<1>5. \A i \in 1 .. Len(q) : i = 1 \/ (i - 1 \in 1 .. Len(t) /\ t[i - 1] = q[i])
  BY <1>1, <1>2
<1>6. Range(t) = Range(q) \ {h}
  <2>1. \A x \in Range(t) : x \in Range(q) /\ x # h
    BY <1>1, <1>2, <1>3, <1>4
  <2>2. \A x \in Range(q) : x = h \/ x \in Range(t)
    BY <1>2, <1>3, <1>5
  <2> QED
    BY <2>1, <2>2
<1>7. \A x \in Range(t) : h < x
  BY <1>1, <1>2, <1>4
<1>8. Increasing(t)
  BY <1>1, <1>2, <1>4 DEF Increasing
<1>9. h \in Range(q)
  BY <1>2, <1>3
<1> QED
  BY <1>1, <1>6, <1>7, <1>8, <1>9 DEF t, h

-----------------------------------------------------------------------------
(* The frames under way: a is what is in s_app_rx_queue, m what the task holds,  *)
(* r what is in the driver's queue, h the last frame that was handled.           *)

\* They are handled in the order in which they came.
Ordered(h, a, m, r) ==
  /\ \A x \in a : h < x /\ (m # 0 => x < m)
  /\ m # 0 => h < m
  /\ \A y \in r : h < y /\ m < y /\ \A x \in a : x < y

InTurn ==
  /\ Increasing(rx_queue) /\ Increasing(s_app_rx_queue)
  /\ message # 0 <=> pc = "enqueue"
  /\ Ordered(handled, Range(s_app_rx_queue), message, Range(rx_queue))

\* A frame is thrown away, or under way, or neither, in which case it is counted.
Apart == flushed \cap UnderWay = {}

Accounted ==
  arrived = missed + Cardinality(flushed \cup UnderWay)
              + s_stats["app_rx_queue_full"] + s_stats["app_rx_processed"]

RxInv == TypeOK /\ InTurn /\ Apart /\ Accounted

LEMMA UnderWayFinite ==
  ASSUME TypeOK
  PROVE  /\ UnderWay \subseteq 1 .. arrived
         /\ IsFiniteSet(UnderWay) /\ IsFiniteSet(flushed) /\ IsFiniteSet(flushed \cup UnderWay)
         /\ Cardinality(flushed \cup UnderWay) \in Nat
<1>1. rx_queue \in Seq(1 .. arrived) /\ s_app_rx_queue \in Seq(1 .. arrived)
      /\ message \in 0 .. arrived /\ arrived \in Nat /\ flushed \subseteq 1 .. arrived
  BY DEF TypeOK
<1>2. Range(rx_queue) \subseteq 1 .. arrived /\ Range(s_app_rx_queue) \subseteq 1 .. arrived
  BY <1>1, RangeElements
<1>3. UnderWay \subseteq 1 .. arrived
  BY <1>1, <1>2 DEF UnderWay
<1>4. IsFiniteSet(1 .. arrived)
  BY <1>1, FS_Interval
<1>5. \A S \in SUBSET (1 .. arrived) : IsFiniteSet(S)
  BY <1>4, FS_Subset
<1>6. IsFiniteSet(flushed \cup UnderWay)
  BY <1>1, <1>3, <1>5
<1> QED
  BY <1>1, <1>3, <1>5, <1>6, FS_CardinalityType

\* A frame leaves, and is counted.
LEMMA FrameLeaves ==
  ASSUME TypeOK, TypeOK', Apart, Accounted, NEW x \in UnderWay,
         UnderWay' = UnderWay \ {x}, UNCHANGED <<arrived, missed, flushed>>,
         s_stats'["app_rx_queue_full"] + s_stats'["app_rx_processed"]
           = s_stats["app_rx_queue_full"] + s_stats["app_rx_processed"] + 1
  PROVE  Apart' /\ Accounted'
<1>1. Apart'
  BY DEF Apart
<1>2. flushed' \cup UnderWay' = (flushed \cup UnderWay) \ {x} /\ x \in flushed \cup UnderWay
  BY DEF Apart
<1>3. Cardinality(flushed' \cup UnderWay') = Cardinality(flushed \cup UnderWay) - 1
  BY <1>2, UnderWayFinite, FS_RemoveElement
<1>4. /\ Cardinality(flushed \cup UnderWay) \in Nat
      /\ \A c \in Counters : s_stats[c] \in Nat /\ s_stats'[c] \in Nat
      /\ arrived \in Nat /\ missed \in Nat
  BY UnderWayFinite DEF TypeOK
<1>5. s_stats["app_rx_queue_full"] \in Nat /\ s_stats["app_rx_processed"] \in Nat
      /\ s_stats'["app_rx_queue_full"] \in Nat /\ s_stats'["app_rx_processed"] \in Nat
  BY <1>4 DEF Counters
<1> QED
  BY <1>1, <1>3, <1>4, <1>5 DEF Accounted

\* No frame leaves, and none comes.
LEMMA FramesStay ==
  ASSUME Accounted, flushed' \cup UnderWay' = flushed \cup UnderWay,
         UNCHANGED <<arrived, missed>>,
         s_stats'["app_rx_queue_full"] = s_stats["app_rx_queue_full"],
         s_stats'["app_rx_processed"] = s_stats["app_rx_processed"]
  PROVE  Accounted'
BY DEF Accounted

\* A step that neither touches the queues nor the counts of what left them.
LEMMA StepAside ==
  ASSUME RxInv, TypeOK',
         UNCHANGED <<rx_queue, s_app_rx_queue, message, handled, arrived, missed, flushed>>,
         pc' = "enqueue" <=> pc = "enqueue",
         s_stats'["app_rx_queue_full"] = s_stats["app_rx_queue_full"],
         s_stats'["app_rx_processed"] = s_stats["app_rx_processed"]
  PROVE  RxInv' /\ UNCHANGED <<arrived, UnderWay, handled>>
<1>1. UnderWay' = UnderWay
  BY DEF UnderWay
<1>2. Apart' /\ Accounted'
  BY <1>1, FramesStay DEF RxInv, Apart
<1>3. InTurn'
  BY DEF RxInv, InTurn
<1> QED
  BY <1>1, <1>2, <1>3 DEF RxInv

LEMMA Counting ==
  ASSUME TypeOK, NEW c \in Counters, Count(c)
  PROVE  /\ s_stats' \in [Counters -> Nat]
         /\ s_stats'[c] = s_stats[c] + 1
         /\ \A d \in Counters \ {c} : s_stats'[d] = s_stats[d]
BY DEF TypeOK, Count

\* The types of the queues, and what follows from them.
LEMMA QueueTypes ==
  ASSUME RxInv
  PROVE  /\ arrived \in Nat /\ missed \in 0 .. arrived /\ handled \in 0 .. arrived
         /\ message \in 0 .. arrived
         /\ rx_queue \in Seq(1 .. arrived) /\ Len(rx_queue) \in Nat
         /\ s_app_rx_queue \in Seq(1 .. arrived) /\ Len(s_app_rx_queue) \in Nat
         /\ Range(rx_queue) \subseteq 1 .. arrived
         /\ Range(s_app_rx_queue) \subseteq 1 .. arrived
         /\ 1 .. arrived \subseteq Nat /\ 1 .. arrived \subseteq 1 .. arrived + 1
<1>1. /\ arrived \in Nat /\ missed \in 0 .. arrived /\ handled \in 0 .. arrived
      /\ message \in 0 .. arrived
      /\ rx_queue \in Seq(1 .. arrived) /\ s_app_rx_queue \in Seq(1 .. arrived)
  BY DEF RxInv, TypeOK
<1> QED
  BY <1>1, RangeElements, LenProperties

\* What stays typed when one more frame has arrived.
LEMMA MoreFrames ==
  ASSUME RxInv, arrived' = arrived + 1,
         UNCHANGED <<s_app_rx_queue, pc, read, message, s_stats, handled, history>>,
         twai' = twai, alerts' \subseteq Alerts, missed' \in {missed, missed + 1},
         rx_queue' \in Seq(1 .. arrived'), Len(rx_queue') <= RxLen
  PROVE  TypeOK'
<1>1. arrived' \in Nat /\ missed' \in 0 .. arrived' /\ handled \in 0 .. arrived' /\ message \in 0 .. arrived'
  BY QueueTypes
<1>2. s_app_rx_queue \in Seq(1 .. arrived')
  BY QueueTypes, SeqMonotonic
<1>3. skipped \subseteq 1 .. arrived' /\ flushed \subseteq 1 .. arrived'
  BY QueueTypes DEF RxInv, TypeOK
<1>4. /\ twai \in {"running", "bus_off", "recovering", "stopped"}
      /\ Len(s_app_rx_queue) <= CAN_APP_RX_QUEUE_LEN
      /\ pc \in {"wait", "serve", "drain", "enqueue", "count"}
      /\ read \subseteq Alerts
      /\ s_stats \in [Counters -> Nat]
  BY DEF RxInv, TypeOK
<1> QED
  BY <1>1, <1>2, <1>3, <1>4 DEF TypeOK, history

LEMMA FrameArrivesCorrect ==
  ASSUME RxInv, FrameArrives
  PROVE  RxInv' /\ Channel!Arrive
<1>1. arrived' = arrived + 1 /\ arrived' \in 1 .. arrived' /\ arrived' \notin flushed \cup UnderWay
      /\ UNCHANGED <<twai, s_app_rx_queue, pc, read, message, s_stats, handled, history>>
  <2>1. flushed \subseteq 1 .. arrived /\ UnderWay \subseteq 1 .. arrived
    BY UnderWayFinite DEF RxInv, TypeOK
  <2> QED
    BY <2>1, QueueTypes DEF FrameArrives
<1>2. CASE Len(rx_queue) < RxLen
  <2>1. /\ rx_queue' = Append(rx_queue, arrived') /\ missed' = missed
        /\ alerts' = alerts \cup {"RX_DATA"}
    BY <1>2 DEF FrameArrives
  <2>2. rx_queue \in Seq(1 .. arrived') /\ 1 .. arrived' \subseteq Nat
    BY <1>1, QueueTypes, SeqMonotonic
  <2>3. \A x \in Range(rx_queue) : x < arrived'
    BY <1>1, QueueTypes
  <2>4. /\ rx_queue' \in Seq(1 .. arrived') /\ Len(rx_queue') = Len(rx_queue) + 1
        /\ Range(rx_queue') = Range(rx_queue) \cup {arrived'} /\ Increasing(rx_queue')
    <3>1. Increasing(rx_queue)
      BY DEF RxInv, InTurn
    <3> QED
      BY <1>1, <2>1, <2>2, <2>3, <3>1, AppendNewer
  <2>5. TypeOK'
    <3>1. Len(rx_queue') <= RxLen
      BY <1>2, <2>4, QueueTypes, CanRxAssumption
    <3>2. alerts' \subseteq Alerts
      BY <2>1 DEF RxInv, TypeOK, Alerts
    <3> QED
      BY <1>1, <2>1, <2>4, <3>1, <3>2, MoreFrames
  <2>6. UnderWay' = UnderWay \cup {arrived'}
    BY <1>1, <2>4 DEF UnderWay
  <2>7. InTurn'
    <3>1. Ordered(handled, Range(s_app_rx_queue), message, Range(rx_queue) \cup {arrived'})
      BY <1>1, QueueTypes DEF RxInv, InTurn, Ordered
    <3> QED
      BY <1>1, <2>4, <3>1 DEF RxInv, InTurn
  <2>8. Apart'
    BY <1>1, <2>6 DEF RxInv, Apart, history
  <2>9. Accounted'
    <3>1. flushed' \cup UnderWay' = (flushed \cup UnderWay) \cup {arrived'}
      BY <1>1, <2>6 DEF history
    <3>2. Cardinality(flushed' \cup UnderWay') = Cardinality(flushed \cup UnderWay) + 1
      BY <1>1, <3>1, UnderWayFinite, FS_AddElement DEF RxInv
    <3>3. /\ Cardinality(flushed \cup UnderWay) \in Nat /\ missed \in Nat
          /\ s_stats["app_rx_queue_full"] \in Nat /\ s_stats["app_rx_processed"] \in Nat
      BY UnderWayFinite DEF RxInv, TypeOK, Counters
    <3> QED
      BY <1>1, <2>1, <3>2, <3>3 DEF RxInv, Accounted
  <2> QED
    BY <1>1, <2>5, <2>6, <2>7, <2>8, <2>9 DEF RxInv, Channel!Arrive
<1>3. CASE ~(Len(rx_queue) < RxLen)
  <2>1. rx_queue' = rx_queue /\ missed' = missed + 1 /\ alerts' = alerts \cup {"RX_QUEUE_FULL"}
    BY <1>3 DEF FrameArrives
  <2>2. rx_queue \in Seq(1 .. arrived') /\ Len(rx_queue) <= RxLen
    BY <1>1, QueueTypes, SeqMonotonic DEF RxInv, TypeOK
  <2>3. TypeOK'
    <3>1. alerts' \subseteq Alerts
      BY <2>1 DEF RxInv, TypeOK, Alerts
    <3> QED
      BY <1>1, <2>1, <2>2, <3>1, MoreFrames
  <2>4. UnderWay' = UnderWay
    BY <1>1, <2>1 DEF UnderWay
  <2>5. InTurn' /\ Apart'
    BY <1>1, <2>1, <2>4 DEF RxInv, InTurn, Apart, history
  <2>6. Accounted'
    <3>1. /\ Cardinality(flushed \cup UnderWay) \in Nat /\ missed \in Nat
          /\ s_stats["app_rx_queue_full"] \in Nat /\ s_stats["app_rx_processed"] \in Nat
      BY UnderWayFinite DEF RxInv, TypeOK, Counters
    <3> QED
      BY <1>1, <2>1, <2>4, <3>1 DEF RxInv, Accounted, history
  <2> QED
    BY <1>1, <2>3, <2>4, <2>5, <2>6 DEF RxInv, Channel!Arrive
<1> QED
  BY <1>2, <1>3

\* What has to be known of such a step.
LEMMA Aside ==
  ASSUME RxInv,
         UNCHANGED <<rx_queue, s_app_rx_queue, message, handled, arrived, missed, flushed>>,
         twai' \in {"running", "bus_off", "recovering", "stopped"},
         alerts' \subseteq Alerts, read' \subseteq Alerts, skipped' \subseteq 1 .. arrived,
         pc' \in {"wait", "serve", "drain", "enqueue", "count"},
         pc' = "enqueue" <=> pc = "enqueue",
         \/ UNCHANGED s_stats
         \/ \E c \in Counters \ {"app_rx_queue_full", "app_rx_processed"} : Count(c)
  PROVE  RxInv' /\ UNCHANGED Channel!fifo
<1>1. TypeOK
  BY DEF RxInv
<1>2. /\ s_stats' \in [Counters -> Nat]
      /\ s_stats'["app_rx_queue_full"] = s_stats["app_rx_queue_full"]
      /\ s_stats'["app_rx_processed"] = s_stats["app_rx_processed"]
  <2>1. CASE UNCHANGED s_stats
    BY <1>1, <2>1 DEF TypeOK
  <2>2. ASSUME NEW c \in Counters \ {"app_rx_queue_full", "app_rx_processed"}, Count(c)
        PROVE  <1>2!1 /\ <1>2!2 /\ <1>2!3
    BY <1>1, <2>2, Counting DEF Counters
  <2> QED
    BY <2>1, <2>2
<1>3. TypeOK'
  BY <1>1, <1>2 DEF TypeOK
<1> QED
  BY <1>2, <1>3, StepAside DEF Channel!fifo

LEMMA AsideCorrect ==
  ASSUME RxInv, BusOff \/ BusRecovers \/ ReadAlerts \/ ServeBusOff \/ ServeRest
                  \/ Drained \/ CountEnqueued \/ ReadTimesOut \/ UNCHANGED vars
  PROVE  RxInv' /\ UNCHANGED Channel!fifo
<1>1. /\ twai \in {"running", "bus_off", "recovering", "stopped"}
      /\ alerts \subseteq Alerts /\ read \subseteq Alerts /\ skipped \subseteq 1 .. arrived
      /\ pc \in {"wait", "serve", "drain", "enqueue", "count"}
  BY DEF RxInv, TypeOK
<1>2. \A c \in {"twai_bus_off", "twai_rx_queue_full", "app_rx_enqueued"} :
        c \in Counters \ {"app_rx_queue_full", "app_rx_processed"}
  BY DEF Counters
<1>3. "BUS_OFF" \in Alerts /\ "BUS_RECOVERED" \in Alerts
  BY DEF Alerts
<1>4. CASE BusOff
  BY <1>1, <1>3, <1>4, Aside DEF BusOff, history
<1>5. CASE BusRecovers
  BY <1>1, <1>3, <1>5, Aside DEF BusRecovers, history
<1>6. CASE ReadAlerts
  BY <1>1, <1>6, Aside DEF ReadAlerts, history
<1>7. CASE ServeBusOff
  <2>1. Range(rx_queue) \subseteq 1 .. arrived
    BY QueueTypes
  <2>2. skipped' \subseteq 1 .. arrived
    BY <1>1, <1>7, <2>1 DEF ServeBusOff
  <2>3. /\ twai' \in {"running", "bus_off", "recovering", "stopped"}
        /\ alerts' \subseteq Alerts /\ read' \subseteq Alerts
        /\ pc = "serve" /\ pc' = "wait" /\ Count("twai_bus_off")
        /\ UNCHANGED <<rx_queue, s_app_rx_queue, message, handled, arrived, missed, flushed>>
    BY <1>1, <1>7 DEF ServeBusOff
  <2> QED
    BY <1>2, <2>2, <2>3, Aside
<1>8. CASE ServeRest
  <2>1. /\ alerts' \subseteq Alerts /\ read' \subseteq Alerts
        /\ pc = "serve" /\ pc' \in {"drain", "wait"}
        /\ Count("twai_rx_queue_full") \/ UNCHANGED s_stats
        /\ UNCHANGED <<twai, rx_queue, s_app_rx_queue, message, handled, arrived, missed,
                       skipped, flushed>>
    BY <1>1, <1>8 DEF ServeRest, driver, history
  <2> QED
    BY <1>1, <1>2, <2>1, Aside
<1>9. CASE Drained
  BY <1>1, <1>9, Aside DEF Drained, driver, history
<1>10. CASE CountEnqueued
  BY <1>1, <1>2, <1>10, Aside DEF CountEnqueued, driver, history
<1>11. CASE ReadTimesOut \/ UNCHANGED vars
  BY <1>1, <1>11, Aside DEF ReadTimesOut, vars, driver, history
<1> QED
  BY <1>4, <1>5, <1>6, <1>7, <1>8, <1>9, <1>10, <1>11

LEMMA OtherAlertCorrect ==
  ASSUME RxInv, NEW overrun \in BOOLEAN, OtherAlert(overrun)
  PROVE  RxInv' /\ [Channel!Next]_(Channel!fifo)
<1>1. "OTHER" \in Alerts /\ alerts \subseteq Alerts
  BY DEF Alerts, RxInv, TypeOK
<1>2. CASE ~overrun
  <2>1. /\ UNCHANGED <<rx_queue, s_app_rx_queue, message, handled, arrived, missed, flushed,
                       skipped, twai, read, pc, s_stats>>
        /\ alerts' \subseteq Alerts
    BY <1>1, <1>2 DEF OtherAlert, history
  <2>2. /\ twai \in {"running", "bus_off", "recovering", "stopped"}
        /\ read \subseteq Alerts /\ skipped \subseteq 1 .. arrived
        /\ pc \in {"wait", "serve", "drain", "enqueue", "count"}
    BY DEF RxInv, TypeOK
  <2> QED
    BY <2>1, <2>2, Aside
<1>3. CASE overrun
  <2>1. /\ arrived' = arrived + 1 /\ missed' = missed + 1 /\ alerts' \subseteq Alerts
        /\ UNCHANGED <<twai, rx_queue, s_app_rx_queue, pc, read, message, s_stats, handled, history>>
    BY <1>1, <1>3 DEF OtherAlert
  <2>2. rx_queue \in Seq(1 .. arrived') /\ Len(rx_queue) <= RxLen
    BY <2>1, QueueTypes, SeqMonotonic DEF RxInv, TypeOK
  <2>3. TypeOK'
    BY <2>1, <2>2, MoreFrames
  <2>4. UnderWay' = UnderWay
    BY <2>1 DEF UnderWay
  <2>5. InTurn' /\ Apart'
    BY <2>1, <2>4 DEF RxInv, InTurn, Apart, history
  <2>6. Accounted'
    <3>1. /\ Cardinality(flushed \cup UnderWay) \in Nat /\ missed \in Nat
          /\ s_stats["app_rx_queue_full"] \in Nat /\ s_stats["app_rx_processed"] \in Nat
      BY UnderWayFinite DEF RxInv, TypeOK, Counters
    <3> QED
      BY <2>1, <2>4, <3>1 DEF RxInv, Accounted, history
  <2> QED
    BY <2>1, <2>3, <2>4, <2>5, <2>6 DEF RxInv, Channel!Next, Channel!Arrive
<1> QED
  BY <1>2, <1>3

LEMMA ServeRecoveredCorrect ==
  ASSUME RxInv, ServeRecovered
  PROVE  RxInv' /\ [Channel!Next]_(Channel!fifo)
<1>1. /\ pc = "serve" /\ Count("twai_bus_recovered")
      /\ read' \subseteq Alerts
      /\ UNCHANGED <<alerts, arrived, missed, s_app_rx_queue, pc, message, handled, skipped>>
  BY DEF ServeRecovered, RxInv, TypeOK
<1>2. "twai_bus_recovered" \in Counters \ {"app_rx_queue_full", "app_rx_processed"}
  BY DEF Counters
<1>3. /\ twai \in {"running", "bus_off", "recovering", "stopped"}
      /\ alerts \subseteq Alerts /\ skipped \subseteq 1 .. arrived /\ flushed \subseteq 1 .. arrived
      /\ pc \in {"wait", "serve", "drain", "enqueue", "count"}
  BY DEF RxInv, TypeOK
<1>4. CASE twai # "stopped"
  <2>1. UNCHANGED <<twai, rx_queue, flushed>>
    BY <1>4 DEF ServeRecovered
  <2> QED
    BY <1>1, <1>2, <1>3, <2>1, Aside
<1>5. CASE twai = "stopped"
  <2>1. twai' = "running" /\ rx_queue' = <<>> /\ flushed' = flushed \cup Range(rx_queue)
    BY <1>5 DEF ServeRecovered
  <2>2. Range(rx_queue') = {} /\ Increasing(rx_queue') /\ rx_queue' \in Seq(1 .. arrived)
        /\ Len(rx_queue') = 0
    BY <2>1 DEF Increasing, Range
  <2>3. TypeOK /\ InTurn /\ Apart /\ Accounted
    BY DEF RxInv
  <2>4. /\ s_stats' \in [Counters -> Nat]
        /\ s_stats'["app_rx_queue_full"] = s_stats["app_rx_queue_full"]
        /\ s_stats'["app_rx_processed"] = s_stats["app_rx_processed"]
    BY <1>1, <1>2, <2>3, Counting DEF Counters
  <2>5. flushed' \subseteq 1 .. arrived
    BY <1>3, <2>1, QueueTypes
  <2>6. TypeOK'
    BY <1>1, <1>3, <2>1, <2>2, <2>3, <2>4, <2>5, CanRxAssumption DEF TypeOK
  <2>7. UnderWay' = Range(s_app_rx_queue) \cup ({message} \ {0})
    BY <1>1, <2>2 DEF UnderWay
  <2>8. \A x \in Range(rx_queue) : x # 0 => x \notin UnderWay'
    BY <1>1, <2>3, <2>7, QueueTypes DEF InTurn, Ordered
  <2>9. Apart'
    <3>1. Range(rx_queue) \cap UnderWay' = {}
      BY <2>8, QueueTypes
    <3>2. flushed \cap UnderWay' = {}
      BY <2>3, <2>7 DEF Apart, UnderWay
    <3> QED
      BY <2>1, <3>1, <3>2 DEF Apart
  <2>10. flushed' \cup UnderWay' = flushed \cup UnderWay /\ UnderWay' \subseteq UnderWay
    BY <2>1, <2>7 DEF UnderWay
  <2>11. Accounted'
    BY <1>1, <2>3, <2>4, <2>10, FramesStay
  <2>12. InTurn'
    <3>1. Ordered(handled, Range(s_app_rx_queue), message, {})
      BY <2>3 DEF InTurn, Ordered
    <3> QED
      BY <1>1, <2>2, <2>3, <3>1 DEF InTurn
  <2> QED
    BY <1>1, <2>6, <2>9, <2>10, <2>11, <2>12 DEF RxInv, Channel!Next, Channel!Lose
<1> QED
  BY <1>4, <1>5

LEMMA TakeMessageCorrect ==
  ASSUME RxInv, TakeMessage
  PROVE  RxInv' /\ UNCHANGED Channel!fifo
<1>1. /\ pc = "drain" /\ pc' = "enqueue" /\ rx_queue # <<>>
      /\ message' = Head(rx_queue) /\ rx_queue' = Tail(rx_queue)
      /\ UNCHANGED <<twai, alerts, arrived, missed, s_app_rx_queue, read, s_stats, handled,
                     skipped, flushed>>
  BY DEF TakeMessage, history
<1>2. TypeOK /\ InTurn /\ Apart /\ Accounted
  BY DEF RxInv
<1>3. Increasing(rx_queue) /\ 1 .. arrived \subseteq Nat /\ rx_queue \in Seq(1 .. arrived)
  BY <1>2, QueueTypes DEF InTurn
<1>4. /\ message' \in Range(rx_queue) /\ message' \in 1 .. arrived
      /\ rx_queue' \in Seq(1 .. arrived) /\ Len(rx_queue') = Len(rx_queue) - 1
      /\ Range(rx_queue') = Range(rx_queue) \ {message'}
      /\ \A x \in Range(rx_queue') : message' < x
      /\ Increasing(rx_queue')
  BY <1>1, <1>3, TakeFirst
<1>5. TypeOK'
  <2>1. Len(rx_queue') <= RxLen
    <3>1. Len(rx_queue) <= RxLen
      BY <1>2 DEF TypeOK
    <3> QED
      BY <1>4, <3>1, QueueTypes, CanRxAssumption
  <2>2. message' \in 0 .. arrived
    BY <1>4, QueueTypes
  <2> QED
    BY <1>1, <1>2, <1>4, <2>1, <2>2 DEF TypeOK
<1>6. message = 0 /\ message' # 0 /\ message' \in Nat
  BY <1>1, <1>2, <1>4, QueueTypes DEF InTurn
<1>7. UnderWay' = UnderWay
  <2>1. Range(rx_queue) = {message'} \cup Range(rx_queue')
    BY <1>4
  <2>2. {message} \ {0} = {} /\ {message'} \ {0} = {message'}
    BY <1>6
  <2> QED
    BY <1>1, <2>1, <2>2 DEF UnderWay
<1>8. Apart' /\ Accounted'
  BY <1>1, <1>2, <1>7, FramesStay DEF Apart
<1>9. InTurn'
  <2>1. Ordered(handled, Range(s_app_rx_queue), 0, Range(rx_queue))
    BY <1>2, <1>6 DEF InTurn
  <2>2. \A x \in Range(s_app_rx_queue) : handled < x /\ x < message'
    BY <2>1, <1>4 DEF Ordered
  <2>3. handled < message'
    BY <2>1, <1>4 DEF Ordered
  <2>4. \A y \in Range(rx_queue') : handled < y /\ message' < y /\ \A x \in Range(s_app_rx_queue) : x < y
    BY <2>1, <1>4 DEF Ordered
  <2>5. Ordered(handled, Range(s_app_rx_queue), message', Range(rx_queue'))
    BY <2>2, <2>3, <2>4 DEF Ordered
  <2> QED
    BY <1>1, <1>2, <1>4, <1>6, <2>5 DEF InTurn
<1> QED
  BY <1>1, <1>5, <1>7, <1>8, <1>9 DEF RxInv, Channel!fifo

LEMMA EnqueueCorrect ==
  ASSUME RxInv, Enqueue
  PROVE  RxInv' /\ UNCHANGED Channel!fifo
<1>1. /\ pc = "enqueue" /\ pc' = "count" /\ Len(s_app_rx_queue) < CAN_APP_RX_QUEUE_LEN
      /\ message' = 0 /\ s_app_rx_queue' = Append(s_app_rx_queue, message)
      /\ UNCHANGED <<twai, alerts, arrived, missed, rx_queue, read, s_stats, handled,
                     skipped, flushed>>
  BY DEF Enqueue, history, driver
<1>2. TypeOK /\ InTurn /\ Apart /\ Accounted
  BY DEF RxInv
<1>3. /\ Increasing(s_app_rx_queue) /\ 1 .. arrived \subseteq Nat
      /\ s_app_rx_queue \in Seq(1 .. arrived)
      /\ Ordered(handled, Range(s_app_rx_queue), message, Range(rx_queue))
  BY <1>2, QueueTypes DEF InTurn
<1>4. message # 0 /\ message \in 1 .. arrived
  BY <1>1, <1>2, QueueTypes DEF InTurn
<1>5. \A x \in Range(s_app_rx_queue) : x < message
  BY <1>3, <1>4 DEF Ordered
<1>6. /\ s_app_rx_queue' \in Seq(1 .. arrived) /\ Len(s_app_rx_queue') = Len(s_app_rx_queue) + 1
      /\ Range(s_app_rx_queue') = Range(s_app_rx_queue) \cup {message}
      /\ Increasing(s_app_rx_queue')
  <2> DEFINE S == 1 .. arrived
             q == s_app_rx_queue
             e == message
  <2>1. S \subseteq Nat /\ q \in Seq(S) /\ e \in S /\ Increasing(q) /\ \A x \in Range(q) : x < e
    BY <1>3, <1>4, <1>5
  <2> HIDE DEF S, q, e
  <2>2. /\ Append(q, e) \in Seq(S) /\ Len(Append(q, e)) = Len(q) + 1
        /\ Range(Append(q, e)) = Range(q) \cup {e} /\ Increasing(Append(q, e))
    BY <2>1, AppendNewer, ZenonT(60)
  <2> QED
    BY <1>1, <2>2 DEF S, q, e
<1>7. TypeOK'
  <2>1. Len(s_app_rx_queue') <= CAN_APP_RX_QUEUE_LEN
    BY <1>1, <1>6, QueueTypes, CanRxAssumption
  <2>2. message' \in 0 .. arrived
    BY <1>1, QueueTypes
  <2> QED
    BY <1>1, <1>2, <1>6, <2>1, <2>2 DEF TypeOK
<1>8. UnderWay' = UnderWay
  <2>1. {message} \ {0} = {message} /\ {message'} \ {0} = {}
    BY <1>1, <1>4
  <2> QED
    BY <1>1, <1>6, <2>1 DEF UnderWay
<1>9. Apart' /\ Accounted'
  BY <1>1, <1>2, <1>8, FramesStay DEF Apart
<1>10. InTurn'
  <2>1. \A x \in Range(s_app_rx_queue') : handled < x
    BY <1>3, <1>4, <1>6 DEF Ordered
  <2>2. \A y \in Range(rx_queue) : handled < y /\ 0 < y /\ \A x \in Range(s_app_rx_queue') : x < y
    <3>1. \A y \in Range(rx_queue) : handled < y /\ message < y /\ \A x \in Range(s_app_rx_queue) : x < y
      BY <1>3 DEF Ordered
    <3>2. \A y \in Range(rx_queue) : 0 < y
      BY QueueTypes
    <3> QED
      BY <1>6, <3>1, <3>2
  <2>3. Ordered(handled, Range(s_app_rx_queue'), 0, Range(rx_queue))
    BY <2>1, <2>2 DEF Ordered
  <2> QED
    BY <1>1, <1>2, <1>6, <2>3 DEF InTurn
<1> QED
  BY <1>1, <1>7, <1>8, <1>9, <1>10 DEF RxInv, Channel!fifo

LEMMA DropMessageCorrect ==
  ASSUME RxInv, DropMessage
  PROVE  RxInv' /\ Channel!Lose
<1>1. /\ pc = "enqueue" /\ pc' = "drain" /\ message' = 0 /\ Count("app_rx_queue_full")
      /\ UNCHANGED <<twai, alerts, arrived, missed, rx_queue, s_app_rx_queue, read, handled,
                     skipped, flushed>>
  BY DEF DropMessage, history, driver
<1>2. TypeOK /\ InTurn /\ Apart /\ Accounted
  BY DEF RxInv
<1>3. Ordered(handled, Range(s_app_rx_queue), message, Range(rx_queue))
  BY <1>2 DEF InTurn
<1>4. message # 0 /\ message \in 1 .. arrived
  BY <1>1, <1>2, QueueTypes DEF InTurn
<1>5. /\ s_stats' \in [Counters -> Nat]
      /\ s_stats'["app_rx_queue_full"] = s_stats["app_rx_queue_full"] + 1
      /\ s_stats'["app_rx_processed"] = s_stats["app_rx_processed"]
  BY <1>1, <1>2, Counting DEF Counters
<1>6. TypeOK'
  <2>1. message' \in 0 .. arrived
    BY <1>1, QueueTypes
  <2> QED
    BY <1>1, <1>2, <1>5, <2>1 DEF TypeOK
<1>7. message \in UnderWay /\ UnderWay' = UnderWay \ {message}
  <2>1. {message} \ {0} = {message} /\ {message'} \ {0} = {}
    BY <1>1, <1>4
  <2>2. message \notin Range(s_app_rx_queue) /\ message \notin Range(rx_queue)
    BY <1>3, <1>4, QueueTypes DEF Ordered
  <2> QED
    BY <1>1, <2>1, <2>2 DEF UnderWay
<1>8. Apart' /\ Accounted'
  <2>1. s_stats'["app_rx_queue_full"] + s_stats'["app_rx_processed"]
          = s_stats["app_rx_queue_full"] + s_stats["app_rx_processed"] + 1
    <3>1. s_stats["app_rx_queue_full"] \in Nat /\ s_stats["app_rx_processed"] \in Nat
      BY <1>2 DEF TypeOK, Counters
    <3> QED
      BY <1>5, <3>1
  <2> QED
    BY <1>1, <1>2, <1>6, <1>7, <2>1, FrameLeaves
<1>9. InTurn'
  <2>1. Ordered(handled, Range(s_app_rx_queue), 0, Range(rx_queue))
    BY <1>3, <1>4, QueueTypes DEF Ordered
  <2> QED
    BY <1>1, <1>2, <2>1 DEF InTurn
<1> QED
  BY <1>1, <1>6, <1>7, <1>8, <1>9 DEF RxInv, Channel!Lose

LEMMA HandleFrameCorrect ==
  ASSUME RxInv, HandleFrame
  PROVE  RxInv' /\ Channel!Deliver
<1> DEFINE h == Head(s_app_rx_queue)
<1>1. /\ s_app_rx_queue # <<>> /\ handled' = h
      /\ s_app_rx_queue' = Tail(s_app_rx_queue) /\ Count("app_rx_processed")
      /\ UNCHANGED <<twai, alerts, arrived, missed, rx_queue, pc, read, message,
                     skipped, flushed>>
  BY DEF HandleFrame, history, driver
<1>2. TypeOK /\ InTurn /\ Apart /\ Accounted
  BY DEF RxInv
<1>3. /\ Increasing(s_app_rx_queue) /\ 1 .. arrived \subseteq Nat
      /\ s_app_rx_queue \in Seq(1 .. arrived)
      /\ Ordered(handled, Range(s_app_rx_queue), message, Range(rx_queue))
  BY <1>2, QueueTypes DEF InTurn
<1>4. /\ h \in Range(s_app_rx_queue) /\ h \in 1 .. arrived
      /\ s_app_rx_queue' \in Seq(1 .. arrived) /\ Len(s_app_rx_queue') = Len(s_app_rx_queue) - 1
      /\ Range(s_app_rx_queue') = Range(s_app_rx_queue) \ {h}
      /\ \A x \in Range(s_app_rx_queue') : h < x
      /\ Increasing(s_app_rx_queue')
  BY <1>1, <1>3, TakeFirst
<1> HIDE DEF h
<1>5. /\ s_stats' \in [Counters -> Nat]
      /\ s_stats'["app_rx_queue_full"] = s_stats["app_rx_queue_full"]
      /\ s_stats'["app_rx_processed"] = s_stats["app_rx_processed"] + 1
  BY <1>1, <1>2, Counting DEF Counters
<1>6. TypeOK'
  <2>1. Len(s_app_rx_queue') <= CAN_APP_RX_QUEUE_LEN
    <3>1. Len(s_app_rx_queue) <= CAN_APP_RX_QUEUE_LEN
      BY <1>2 DEF TypeOK
    <3> QED
      BY <1>4, <3>1, QueueTypes, CanRxAssumption
  <2>2. handled' \in 0 .. arrived
    BY <1>1, <1>4, QueueTypes
  <2> QED
    BY <1>1, <1>2, <1>4, <1>5, <2>1, <2>2 DEF TypeOK
<1>7. (message # 0 => h < message) /\ \A y \in Range(rx_queue) : h < y
  BY <1>3, <1>4 DEF Ordered
<1>8. h \in UnderWay /\ UnderWay' = UnderWay \ {h}
  <2>1. h \notin {message} \ {0} /\ h \notin Range(rx_queue)
    BY <1>4, <1>7, QueueTypes
  <2> QED
    BY <1>1, <1>4, <2>1 DEF UnderWay
<1>9. Apart' /\ Accounted'
  <2>1. s_stats'["app_rx_queue_full"] + s_stats'["app_rx_processed"]
          = s_stats["app_rx_queue_full"] + s_stats["app_rx_processed"] + 1
    <3>1. s_stats["app_rx_queue_full"] \in Nat /\ s_stats["app_rx_processed"] \in Nat
      BY <1>2 DEF TypeOK, Counters
    <3> QED
      BY <1>5, <3>1
  <2> QED
    BY <1>1, <1>2, <1>6, <1>8, <2>1, FrameLeaves
<1>10. InTurn'
  <2>1. Ordered(h, Range(s_app_rx_queue'), message, Range(rx_queue))
    BY <1>3, <1>4, <1>7 DEF Ordered
  <2> QED
    BY <1>1, <1>2, <1>4, <2>1 DEF InTurn
<1>11. \A j \in UnderWay : h <= j
  <2>1. \A j \in Range(s_app_rx_queue) : h <= j
    BY <1>4
  <2>2. \A j \in {message} \ {0} : h <= j
    BY <1>4, <1>7, QueueTypes
  <2>3. \A j \in Range(rx_queue) : h <= j
    BY <1>4, <1>7, QueueTypes
  <2> QED
    BY <2>1, <2>2, <2>3 DEF UnderWay
<1> QED
  BY <1>1, <1>6, <1>8, <1>9, <1>10, <1>11 DEF RxInv, Channel!Deliver

LEMMA RxStep ==
  ASSUME RxInv, [Next]_vars
  PROVE  RxInv' /\ [Channel!Next]_(Channel!fifo)
<1>1. CASE FrameArrives
  BY <1>1, FrameArrivesCorrect DEF Channel!Next
<1>2. ASSUME NEW overrun \in BOOLEAN, OtherAlert(overrun)
      PROVE  RxInv' /\ [Channel!Next]_(Channel!fifo)
  BY <1>2, OtherAlertCorrect
<1>3. CASE BusOff \/ BusRecovers \/ ReadAlerts \/ ServeBusOff \/ ServeRest
             \/ Drained \/ CountEnqueued \/ ReadTimesOut \/ UNCHANGED vars
  BY <1>3, AsideCorrect
<1>4. CASE ServeRecovered
  BY <1>4, ServeRecoveredCorrect
<1>5. CASE TakeMessage \/ Enqueue
  BY <1>5, TakeMessageCorrect, EnqueueCorrect
<1>6. CASE DropMessage
  BY <1>6, DropMessageCorrect DEF Channel!Next
<1>7. CASE HandleFrame
  BY <1>7, HandleFrameCorrect DEF Channel!Next
<1> QED
  BY <1>1, <1>2, <1>3, <1>4, <1>5, <1>6, <1>7 DEF Next, RxTask

LEMMA RxInit ==
  ASSUME Init
  PROVE  RxInv /\ Channel!Init
<1>1. /\ rx_queue = <<>> /\ s_app_rx_queue = <<>> /\ message = 0 /\ flushed = {}
      /\ arrived = 0 /\ missed = 0 /\ handled = 0 /\ pc = "wait"
      /\ s_stats["app_rx_queue_full"] = 0 /\ s_stats["app_rx_processed"] = 0
  BY DEF Init, Counters
<1>2. Range(<<>>) = {}
  BY DEF Range
<1>3. UnderWay = {}
  BY <1>1, <1>2 DEF UnderWay
<1>4. TypeOK
  BY CanRxAssumption DEF Init, TypeOK, Alerts
<1>5. InTurn
  BY <1>1, <1>2 DEF InTurn, Increasing, Ordered
<1>6. Apart /\ Accounted
  BY <1>1, <1>3, FS_EmptySet DEF Apart, Accounted
<1> QED
  BY <1>1, <1>3, <1>4, <1>5, <1>6 DEF RxInv, Channel!Init

\* The statistics say where every frame went: what is thrown away and what is
\* under way have no frame in common.
LEMMA CountedFromApart ==
  ASSUME RxInv
  PROVE  EveryFrameCounted
<1>1. Cardinality(flushed \cup UnderWay) = Cardinality(flushed) + Cardinality(UnderWay)
  <2>1. flushed \cap UnderWay = {} /\ IsFiniteSet(flushed) /\ IsFiniteSet(UnderWay)
    BY UnderWayFinite DEF RxInv, Apart
  <2>2. Cardinality(flushed \cup UnderWay)
          = Cardinality(flushed) + Cardinality(UnderWay) - Cardinality(flushed \cap UnderWay)
    BY <2>1, FS_Union
  <2>3. Cardinality(flushed \cap UnderWay) = 0
    BY <2>1, FS_EmptySet
  <2>4. Cardinality(flushed) \in Nat /\ Cardinality(UnderWay) \in Nat
    BY <2>1, FS_CardinalityType
  <2> QED
    BY <2>2, <2>3, <2>4
<1>2. /\ Cardinality(flushed) \in Nat /\ Cardinality(UnderWay) \in Nat /\ missed \in Nat
      /\ s_stats["app_rx_queue_full"] \in Nat /\ s_stats["app_rx_processed"] \in Nat
  BY UnderWayFinite, FS_CardinalityType DEF RxInv, TypeOK, Counters
<1> QED
  BY <1>1, <1>2 DEF RxInv, Accounted, EveryFrameCounted

\* However the tasks, the driver and the bus are interleaved, every variable has
\* its type; the queues are never longer than they were made.
THEOREM TypeCorrect == Spec => []TypeOK
<1>1. Init => RxInv
  BY RxInit
<1>2. RxInv /\ [Next]_vars => RxInv'
  BY RxStep
<1>3. RxInv => TypeOK
  BY DEF RxInv
<1> QED
  BY <1>1, <1>2, <1>3, PTL DEF Spec

\* Whatever is lost where, the counters of the statistics account for every frame
\* that was on the bus.
THEOREM CountedCorrect == Spec => []EveryFrameCounted
<1>1. Init => RxInv
  BY RxInit
<1>2. RxInv /\ [Next]_vars => RxInv'
  BY RxStep
<1>3. RxInv => EveryFrameCounted
  BY CountedFromApart
<1> QED
  BY <1>1, <1>2, <1>3, PTL DEF Spec

\* The driver, its queue, the task and s_app_rx_queue are together one lossy
\* queue: frames are handled in the order of the bus, none twice.  This is the
\* safety part of InOrder; that what is not lost is handled at last is its
\* fairness.
THEOREM OrderCorrect == Spec => Channel!Safety
<1>1. Init => RxInv /\ Channel!Init
  BY RxInit
<1>2. RxInv /\ [Next]_vars => RxInv' /\ [Channel!Next]_(Channel!fifo)
  BY RxStep
<1> QED
  BY <1>1, <1>2, PTL DEF Spec, Channel!Safety
-----------------------------------------------------------------------------
(* How soon the bus comes back *)

\* How many steps czone_rx_task and the driver have still to take until the driver
\* runs: a bus-off is served once the frames that were being drained are taken, which
\* none follow.
StepsToRun ==
  CASE twai = "running"    -> 0
    [] twai = "stopped"    -> IF pc = "serve" THEN 1 ELSE 2
    [] twai = "recovering" -> 3
    [] OTHER -> IF "BUS_OFF" \in read THEN 4
                ELSE CASE pc = "wait"    -> 5
                       [] pc = "drain"   -> 6 + 3 * Len(rx_queue)
                       [] pc = "count"   -> 7 + 3 * Len(rx_queue)
                       [] pc = "enqueue" -> 8 + 3 * Len(rx_queue)
                       [] OTHER          -> 7 + 3 * Len(rx_queue)

\* From a bus-off on every step of the task, and the recovery, brings the driver nearer
\* to running, and nothing puts it off: the alert it takes is never overlooked.
RecoveryNears ==
  [][twai # "running" =>
       IF UNCHANGED <<twai, pc, read>> THEN StepsToRun' = StepsToRun
       ELSE StepsToRun' \in 0 .. StepsToRun - 1]_vars

LEMMA TailShorter ==
  ASSUME NEW S, NEW q \in Seq(S), q # <<>>
  PROVE  Len(q) \in Nat /\ Len(Tail(q)) = Len(q) - 1 /\ Len(q) - 1 \in Nat
OBVIOUS

LEMMA RecoveryStep ==
  ASSUME TypeOK, BusOffInv, Next, twai # "running"
  PROVE  \/ UNCHANGED <<twai, pc, read>> /\ StepsToRun' = StepsToRun
         \/ StepsToRun' \in 0 .. StepsToRun - 1
<1>1. /\ twai \in {"stopped", "recovering", "bus_off"}
      /\ pc \in {"wait", "serve", "drain", "enqueue", "count"}
      /\ rx_queue \in Seq(1 .. arrived) /\ Len(rx_queue) \in Nat
  BY DEF TypeOK
<1>2. /\ twai = "bus_off" => /\ "BUS_OFF" \in alerts \cup read /\ "BUS_RECOVERED" \notin read
                             /\ "BUS_OFF" \in read => pc = "serve"
      /\ twai = "recovering" => alerts = {} /\ pc = "wait"
      /\ twai = "stopped" => \/ alerts = {"BUS_RECOVERED"} /\ pc = "wait"
                             \/ read = {"BUS_RECOVERED"} /\ pc = "serve"
  BY DEF BusOffInv, Off, Recovering, Stopped
<1>3. CASE HandleFrame \/ ReadTimesOut
  <2>1. UNCHANGED <<twai, pc, read, rx_queue>>
    BY <1>3 DEF HandleFrame, ReadTimesOut, driver, vars
  <2> QED
    BY <2>1 DEF StepsToRun
<1>4. CASE BusRecovers
  BY <1>2, <1>4 DEF BusRecovers, StepsToRun
<1>5. CASE ReadAlerts
  <2>1. /\ pc = "wait" /\ pc' = "serve" /\ alerts # {} /\ read' = alerts
        /\ UNCHANGED <<twai, rx_queue>>
    BY <1>5 DEF ReadAlerts
  <2>2. CASE twai = "bus_off"
    BY <1>1, <1>2, <2>1, <2>2 DEF StepsToRun
  <2>3. CASE twai = "stopped"
    BY <1>2, <2>1, <2>3 DEF StepsToRun
  <2> QED
    BY <1>1, <1>2, <2>1, <2>2, <2>3
<1>6. CASE ServeBusOff
  <2>1. twai = "bus_off"
    BY <1>1, <1>2, <1>6 DEF ServeBusOff, BusOffInv, Recovering, Stopped
  <2>2. twai' = "recovering" /\ "BUS_OFF" \in read
    BY <1>6, <2>1 DEF ServeBusOff
  <2> QED
    BY <2>1, <2>2 DEF StepsToRun
<1>7. CASE ServeRecovered
  <2>1. twai = "stopped" /\ twai' = "running" /\ pc = "serve"
    BY <1>1, <1>2, <1>7 DEF ServeRecovered
  <2> QED
    BY <2>1 DEF StepsToRun
<1>8. ASSUME pc # "wait", ~(pc = "serve" /\ "BUS_OFF" \in read), twai # "stopped"
      PROVE  twai = "bus_off" /\ "BUS_OFF" \notin read
  BY <1>1, <1>2, <1>8
<1>9. CASE ServeRest
  <2>1. /\ pc = "serve" /\ pc' \in {"drain", "wait"} /\ read' = {} /\ UNCHANGED <<twai, rx_queue>>
        /\ read \cap {"BUS_OFF", "BUS_RECOVERED"} = {}
    BY <1>9 DEF ServeRest, driver
  <2>2. twai = "bus_off" /\ "BUS_OFF" \notin read
    BY <1>2, <1>8, <2>1
  <2> QED
    BY <1>1, <2>1, <2>2 DEF StepsToRun
<1>10. CASE TakeMessage
  <2>1. /\ pc = "drain" /\ pc' = "enqueue" /\ UNCHANGED <<twai, read>>
        /\ rx_queue # <<>> /\ rx_queue' = Tail(rx_queue)
    BY <1>10 DEF TakeMessage
  <2>2. twai = "bus_off" /\ "BUS_OFF" \notin read
    BY <1>2, <1>8, <2>1
  <2>3. Len(rx_queue') = Len(rx_queue) - 1 /\ Len(rx_queue) - 1 \in Nat
    BY <1>1, <2>1, TailShorter
  <2>4. StepsToRun = 6 + 3 * Len(rx_queue) /\ StepsToRun' = 8 + 3 * Len(rx_queue')
    BY <2>1, <2>2 DEF StepsToRun
  <2> QED
    BY <1>1, <2>3, <2>4
<1>11. CASE Drained \/ Enqueue \/ CountEnqueued \/ DropMessage
  <2>1. /\ UNCHANGED <<twai, read, rx_queue>>
        /\ <<pc, pc'>> \in {<<"drain", "wait">>, <<"enqueue", "count">>, <<"count", "drain">>,
                            <<"enqueue", "drain">>}
    BY <1>11 DEF Drained, Enqueue, CountEnqueued, DropMessage, driver
  <2>2. twai = "bus_off" /\ "BUS_OFF" \notin read
    BY <1>2, <1>8, <2>1
  <2> QED
    BY <1>1, <2>1, <2>2 DEF StepsToRun
<1> QED
  BY <1>3, <1>4, <1>5, <1>6, <1>7, <1>9, <1>10, <1>11
     DEF Next, RxTask, FrameArrives, OtherAlert, BusOff

\* After a bus-off, whatever alerts are read together and however full the queues are,
\* the driver runs again after a bounded number of steps: the safety part of
\* BusComesBack, whose rest is that the task runs and the bus becomes idle.
THEOREM RecoveryCorrect == Spec => RecoveryNears
<1> DEFINE Nears == twai # "running" =>
                      IF UNCHANGED <<twai, pc, read>> THEN StepsToRun' = StepsToRun
                      ELSE StepsToRun' \in 0 .. StepsToRun - 1
<1>1. Init => RxInv /\ BusOffInv
  BY RxInit, BusOffStart
<1>2. RxInv /\ BusOffInv /\ [Next]_vars => (RxInv /\ BusOffInv)'
  BY RxStep, BusOffStep
<1>3. RxInv /\ BusOffInv /\ [Next]_vars => [Nears]_vars
  <2> SUFFICES ASSUME TypeOK, BusOffInv, Next, twai # "running",
                      ~(UNCHANGED <<twai, pc, read>> /\ StepsToRun' = StepsToRun)
               PROVE  ~UNCHANGED <<twai, pc, read>> /\ StepsToRun' \in 0 .. StepsToRun - 1
    BY DEF RxInv
  <2>1. StepsToRun' \in 0 .. StepsToRun - 1
    BY RecoveryStep
  <2>2. UNCHANGED <<twai, pc, read>> => UNCHANGED rx_queue
    BY DEF Next, RxTask, FrameArrives, OtherAlert, BusOff, BusRecovers, ReadAlerts, ServeBusOff,
       ServeRecovered, ServeRest, TakeMessage, Drained, Enqueue, CountEnqueued, DropMessage,
       ReadTimesOut, HandleFrame, driver, vars
  <2>3. UNCHANGED <<twai, pc, read>> => StepsToRun' = StepsToRun
    BY <2>2 DEF StepsToRun
  <2> QED
    BY <2>1, <2>3
<1>4. Spec => [][Nears]_vars
  BY <1>1, <1>2, <1>3, PTL DEF Spec
<1> QED
  BY <1>4 DEF RecoveryNears
=============================================================================
