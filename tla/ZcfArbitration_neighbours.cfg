CONSTANTS
  Boards = {24, 32}
  Holders = {24, 32}
  Version <- MCVersion
  TriggerDelay = 75
  ClaimWindow = 3
  BlockTime = 2
  MaxRequests = 1
SPECIFICATION Spec
INVARIANT SingleSender
