CONSTANTS
  Nodes = {1, 2, 3}
  Name <- MCName
  Preferred <- MCPreferred
  ADDRESS_CLAIM_MAX_ADDRESS = 1
  MaxBoots = 3
  Destinations = {0, 1, 255}
  QueueLength = 2
  Global = 255
  MaxLost = 1
  MaxRequests = 1
CHECK_DEADLOCK FALSE
SPECIFICATION FairSpec
INVARIANT TypeOK
INVARIANT SettledDistinct
INVARIANT LowestKeepsAddress
PROPERTY AddressesSettle
