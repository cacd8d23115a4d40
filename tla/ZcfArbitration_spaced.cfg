CONSTANTS
  Boards = {16, 24, 48, 80}
  Holders = {24, 48, 80}
  Version <- MCVersion
  TriggerDelay = 75
  ClaimWindow = 3
  BlockTime = 2
  MaxRequests = 2
SPECIFICATION FairSpec
INVARIANT TypeOK
 
 
PROPERTY RequestAnswered
