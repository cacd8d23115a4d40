CONSTANTS
  f1 = f1
  k1 = k1
  s1 = s1
  s2 = s2
  None = None
  Senders = {s1, s2}
  Flows = {f1}
  Flow <- MCFlow
  Strangers = {k1}
  Announced = {14, 224}
  StrangeNums = {0, 2}
  SeqMod = 2
  Length <- MCLength
  Patient = TRUE
  Keys <- MCKeys
  Slots <- MCSlots
  TTL = 2
  Lengths = {8, 14, 224}
  Nums = {0, 1, 2}
  Dlcs = {2, 8}
  Msgs <- MCMsgs
  Turns = {FALSE, TRUE}

SYMMETRY Symmetry
SPECIFICATION Spec
INVARIANT OneSessionPerKey
INVARIANT CompletePayload
INVARIANT Unmixed
PROPERTY ReceivedIsDelivered
