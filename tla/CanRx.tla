-------------------------------- MODULE CanRx --------------------------------
(***************************************************************************)
(* How frames get from the bus to the protocol.  The TWAI driver keeps     *)
(* them in a queue of its own and raises alerts; czone_rx_task reads the   *)
(* alerts, looks after the bus and moves the frames to s_app_rx_queue;     *)
(* czone_protocol_rx_task takes them from there and handles them.          *)
(*                                                                         *)
(* Of the driver the model has what czone_can.c relies on.  A bus-off      *)
(* stops reception until twai_initiate_recovery, the recovery of the bus   *)
(* and twai_start have followed, and twai_start empties the queue.         *)
(* Reading the alerts clears them.                                         *)
(***************************************************************************)
EXTENDS Naturals, Sequences, FiniteSets, Functions

CONSTANTS
  RxLen,                 \* general.rx_queue_len
  CAN_APP_RX_QUEUE_LEN,
  MaxFrames,             \* bound of the model: frames on the bus
  MaxBusOffs             \* bound of the model: how often the bus goes off

ASSUME CanRxAssumption ==
  /\ RxLen \in Nat \ {0}
  /\ CAN_APP_RX_QUEUE_LEN \in Nat \ {0}
  /\ MaxFrames \in Nat
  /\ MaxBusOffs \in Nat

VARIABLES
  twai,            \* the state of the driver
  alerts,          \* the alerts that are raised
  rx_queue,        \* the driver's queue
  s_app_rx_queue,
  pc,              \* where czone_rx_task is
  read,            \* the alerts it has read and not served
  message,         \* the frame it holds, or 0
  s_stats,
  arrived,         \* the frames that have been on the bus; they are numbered
  missed,          \* how many of them the driver could not take
  handled,         \* the last frame that was handled
  skipped,         \* history: frames in the driver's queue when a bus-off was served
  flushed          \* history: frames that twai_start has thrown away

driver  == <<twai, alerts, rx_queue, arrived, missed>>
history == <<skipped, flushed>>
vars    == <<driver, s_app_rx_queue, pc, read, message, s_stats, handled, history>>

Alerts == {"BUS_OFF", "BUS_RECOVERED", "RX_QUEUE_FULL", "RX_DATA", "OTHER"}
Counters == {"twai_bus_off", "twai_bus_recovered", "twai_rx_queue_full",
             "app_rx_enqueued", "app_rx_queue_full", "app_rx_processed"}

Init ==
  /\ twai = "running"
  /\ alerts = {}
  /\ rx_queue = <<>>
  /\ s_app_rx_queue = <<>>
  /\ pc = "wait"
  /\ read = {}
  /\ message = 0
  /\ s_stats = [c \in Counters |-> 0]
  /\ arrived = 0
  /\ missed = 0
  /\ handled = 0
  /\ skipped = {}
  /\ flushed = {}

Count(c) == s_stats' = [s_stats EXCEPT ![c] = @ + 1]
-----------------------------------------------------------------------------
(* The driver *)

FrameArrives ==
  /\ twai = "running"
  /\ arrived < MaxFrames
  /\ arrived' = arrived + 1
  /\ IF Len(rx_queue) < RxLen
     THEN /\ rx_queue' = Append(rx_queue, arrived')
          /\ alerts' = alerts \cup {"RX_DATA"}
          /\ UNCHANGED missed
     ELSE /\ missed' = missed + 1
          /\ alerts' = alerts \cup {"RX_QUEUE_FULL"}
          /\ UNCHANGED rx_queue
  /\ UNCHANGED <<twai, s_app_rx_queue, pc, read, message, s_stats, handled, history>>

\* Alerts that are only counted: RX_FIFO_OVERRUN, which loses a frame, and the
\* errors of the bus, which do not.
OtherAlert(overrun) ==
  /\ twai = "running"
  /\ overrun => arrived < MaxFrames
  /\ arrived' = IF overrun THEN arrived + 1 ELSE arrived
  /\ missed' = IF overrun THEN missed + 1 ELSE missed
  /\ alerts' = alerts \cup {"OTHER"}
  /\ UNCHANGED <<twai, rx_queue, s_app_rx_queue, pc, read, message, s_stats, handled, history>>

BusOff ==
  /\ twai = "running"
  /\ s_stats["twai_bus_off"] < MaxBusOffs
  /\ twai' = "bus_off"
  /\ alerts' = alerts \cup {"BUS_OFF"}
  /\ UNCHANGED <<rx_queue, arrived, missed, s_app_rx_queue, pc, read, message, s_stats,
                 handled, history>>

BusRecovers ==
  /\ twai = "recovering"
  /\ twai' = "stopped"
  /\ alerts' = alerts \cup {"BUS_RECOVERED"}
  /\ UNCHANGED <<rx_queue, arrived, missed, s_app_rx_queue, pc, read, message, s_stats,
                 handled, history>>
-----------------------------------------------------------------------------
(* czone_rx_task *)

\* twai_read_alerts gives up after a second; the loop starts anew.
ReadTimesOut ==
  /\ pc = "wait"
  /\ alerts = {}
  /\ UNCHANGED vars

ReadAlerts ==
  /\ pc = "wait"
  /\ alerts # {}
  /\ read' = alerts
  /\ alerts' = {}
  /\ pc' = "serve"
  /\ UNCHANGED <<twai, rx_queue, arrived, missed, s_app_rx_queue, message, s_stats, handled,
                 history>>

\* Mutant of ServeBusOff: the task waits for the bus, but does not ask for its
\* recovery.
OnlyCountBusOff ==
  /\ pc = "serve"
  /\ "BUS_OFF" \in read
  /\ Count("twai_bus_off")
  /\ skipped' = skipped \cup Range(rx_queue)
  /\ read' = {}
  /\ pc' = "wait"
  /\ UNCHANGED <<driver, s_app_rx_queue, message, handled, flushed>>

\* Mutant of ServeBusOff: the other alerts that were read are served, too.
ServeBusOffFirst ==
  /\ pc = "serve"
  /\ "BUS_OFF" \in read
  /\ Count("twai_bus_off")
  /\ twai' = IF twai = "bus_off" THEN "recovering" ELSE twai
  /\ skipped' = skipped \cup Range(rx_queue)
  /\ read' = read \ {"BUS_OFF"}
  /\ UNCHANGED <<alerts, rx_queue, arrived, missed, s_app_rx_queue, pc, message, handled, flushed>>

\* twai_initiate_recovery, then `continue': the other alerts that were read with
\* the bus-off are forgotten.
ServeBusOff ==
  /\ pc = "serve"
  /\ "BUS_OFF" \in read
  /\ Count("twai_bus_off")
  /\ twai' = IF twai = "bus_off" THEN "recovering" ELSE twai
  /\ skipped' = skipped \cup Range(rx_queue)
  /\ read' = {}
  /\ pc' = "wait"
  /\ UNCHANGED <<alerts, rx_queue, arrived, missed, s_app_rx_queue, message, handled, flushed>>

\* twai_start
ServeRecovered ==
  /\ pc = "serve"
  /\ "BUS_OFF" \notin read
  /\ "BUS_RECOVERED" \in read
  /\ Count("twai_bus_recovered")
  /\ IF twai = "stopped"
     THEN /\ twai' = "running"
          /\ rx_queue' = <<>>
          /\ flushed' = flushed \cup Range(rx_queue)
     ELSE UNCHANGED <<twai, rx_queue, flushed>>
  /\ read' = read \ {"BUS_RECOVERED"}
  /\ UNCHANGED <<alerts, arrived, missed, s_app_rx_queue, pc, message, handled, skipped>>

ServeRest ==
  /\ pc = "serve"
  /\ read \cap {"BUS_OFF", "BUS_RECOVERED"} = {}
  /\ IF "RX_QUEUE_FULL" \in read THEN Count("twai_rx_queue_full") ELSE UNCHANGED s_stats
  /\ pc' = IF "RX_DATA" \in read THEN "drain" ELSE "wait"
  /\ read' = {}
  /\ UNCHANGED <<driver, s_app_rx_queue, message, handled, history>>

\* Mutant of TakeMessage: the result of twai_receive is not looked at.
TakeAnything ==
  /\ pc = "drain"
  /\ message' = IF rx_queue = <<>> THEN 0 ELSE Head(rx_queue)
  /\ rx_queue' = IF rx_queue = <<>> THEN <<>> ELSE Tail(rx_queue)
  /\ pc' = "enqueue"
  /\ UNCHANGED <<twai, alerts, arrived, missed, s_app_rx_queue, read, s_stats, handled, history>>

TakeMessage ==
  /\ pc = "drain"
  /\ rx_queue # <<>>
  /\ message' = Head(rx_queue)
  /\ rx_queue' = Tail(rx_queue)
  /\ pc' = "enqueue"
  /\ UNCHANGED <<twai, alerts, arrived, missed, s_app_rx_queue, read, s_stats, handled, history>>

Drained ==
  /\ pc = "drain"
  /\ rx_queue = <<>>
  /\ pc' = "wait"
  /\ UNCHANGED <<driver, s_app_rx_queue, read, message, s_stats, handled, history>>

\* Mutant of Enqueue: the frame is put in front of the queue.
EnqueueInFront ==
  /\ pc = "enqueue"
  /\ Len(s_app_rx_queue) < CAN_APP_RX_QUEUE_LEN
  /\ s_app_rx_queue' = <<message>> \o s_app_rx_queue
  /\ message' = 0
  /\ pc' = "count"
  /\ UNCHANGED <<driver, read, s_stats, handled, history>>

Enqueue ==
  /\ pc = "enqueue"
  /\ Len(s_app_rx_queue) < CAN_APP_RX_QUEUE_LEN
  /\ s_app_rx_queue' = Append(s_app_rx_queue, message)
  /\ message' = 0
  /\ pc' = "count"
  /\ UNCHANGED <<driver, read, s_stats, handled, history>>

\* The frame may have been handled by now.
CountEnqueued ==
  /\ pc = "count"
  /\ Count("app_rx_enqueued")
  /\ pc' = "drain"
  /\ UNCHANGED <<driver, s_app_rx_queue, read, message, handled, history>>

\* Mutant of DropMessage: the loss is not counted.
DropSilently ==
  /\ pc = "enqueue"
  /\ Len(s_app_rx_queue) = CAN_APP_RX_QUEUE_LEN
  /\ message' = 0
  /\ pc' = "drain"
  /\ UNCHANGED <<driver, s_app_rx_queue, read, s_stats, handled, history>>

DropMessage ==
  /\ pc = "enqueue"
  /\ Len(s_app_rx_queue) = CAN_APP_RX_QUEUE_LEN
  /\ Count("app_rx_queue_full")
  /\ message' = 0
  /\ pc' = "drain"
  /\ UNCHANGED <<driver, s_app_rx_queue, read, handled, history>>
-----------------------------------------------------------------------------
\* czone_protocol_rx_task
HandleFrame ==
  /\ s_app_rx_queue # <<>>
  /\ handled' = Head(s_app_rx_queue)
  /\ s_app_rx_queue' = Tail(s_app_rx_queue)
  /\ Count("app_rx_processed")
  /\ UNCHANGED <<driver, pc, read, message, history>>

RxTask == \/ ReadAlerts \/ ServeBusOff \/ ServeRecovered \/ ServeRest
          \/ TakeMessage \/ Drained \/ Enqueue \/ CountEnqueued \/ DropMessage

Next == \/ FrameArrives \/ \E overrun \in BOOLEAN : OtherAlert(overrun)
        \/ BusOff \/ BusRecovers
        \/ RxTask \/ ReadTimesOut
        \/ HandleFrame

Spec == Init /\ [][Next]_vars

\* Both tasks run, and a bus on which recovery was asked for becomes idle.
Fairness == WF_vars(RxTask) /\ WF_vars(HandleFrame) /\ WF_vars(BusRecovers)

FairSpec == Spec /\ Fairness
-----------------------------------------------------------------------------
UnderWay == Range(s_app_rx_queue) \cup ({message} \ {0}) \cup Range(rx_queue)

TypeOK ==
  /\ twai \in {"running", "bus_off", "recovering", "stopped"}
  /\ alerts \subseteq Alerts
  /\ rx_queue \in Seq(1 .. arrived) /\ Len(rx_queue) <= RxLen
  /\ s_app_rx_queue \in Seq(1 .. arrived) /\ Len(s_app_rx_queue) <= CAN_APP_RX_QUEUE_LEN
  /\ pc \in {"wait", "serve", "drain", "enqueue", "count"}
  /\ read \subseteq Alerts
  /\ message \in 0 .. arrived
  /\ s_stats \in [Counters -> Nat]
  /\ arrived \in Nat /\ missed \in 0 .. arrived /\ handled \in 0 .. arrived
  /\ skipped \subseteq 1 .. arrived
  /\ flushed \subseteq 1 .. arrived

\* What the protocol layer sees of the bus: through two queues, two tasks and any
\* number of bus-offs the frames come in order, none twice, and none stays behind.
Channel == INSTANCE LossyFifo WITH pending <- UnderWay, last <- handled
InOrder == Channel!Spec

\* The task serves a bus-off without draining the queue, and nothing else makes
\* it drain before twai_start empties it: of the frames that were received, a
\* bus-off loses exactly those that waited in the driver's queue when it was
\* served.
BusOffLosesTheQueue == twai = "running" => flushed = skipped

\* The statistics and the frames under way account for every frame that was on
\* the bus, except that twai_start counts nothing: what the driver missed, what
\* did not fit into s_app_rx_queue, what was handled.
EveryFrameCounted ==
  arrived = missed + Cardinality(flushed) + Cardinality(UnderWay)
              + s_stats["app_rx_queue_full"] + s_stats["app_rx_processed"]

\* A bus-off is not the end: whatever alerts come together, the bus runs again.
BusComesBack == twai # "running" ~> twai = "running"
=============================================================================
