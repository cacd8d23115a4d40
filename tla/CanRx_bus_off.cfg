CONSTANTS
  RxLen = 2
  CAN_APP_RX_QUEUE_LEN = 2
  MaxFrames = 5
  MaxBusOffs = 2
SPECIFICATION FairSpec
INVARIANT TypeOK
INVARIANT BusOffLosesTheQueue
INVARIANT EveryFrameCounted
PROPERTY InOrder
PROPERTY BusComesBack
