CONSTANTS
  short = short
  exact = exact
  tiny = tiny
  m1 = m1
  NoFile = NoFile
  Configs = {short, tiny}
  Size <- MCSize
  Chunk = 2
  Modules = {m1}
  ZCF_SEND_MAX_RETRIES = 2
  Lossy = TRUE
  Rejects = TRUE
  Replaced = TRUE
  MaxInFlight = 2

SPECIFICATION FairSpec
INVARIANT TypeOK
INVARIANT ReceivedIsPrefix
PROPERTY SentIsReceived
PROPERTY DownloadEnds
