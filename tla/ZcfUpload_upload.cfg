CONSTANTS
  short = short
  exact = exact
  tiny = tiny
  long = long
  NoFile = NoFile
  None = None
  t1 = t1
  t2 = t2
  Configs = {short, exact, tiny}
  Tools = {t1}
  Impatient = {}
  Lossy = TRUE
  CanCrash = FALSE
  Faults = {}
  MaxInFlight = 3
  MaxFile = 5
  Chunk = 2
  Size <- MCSize
  CrcValid <- MCCrcValid
SPECIFICATION FairSpec
INVARIANT TypeOK
PROPERTY ReAckedIsStored
PROPERTY ImplementsConfigStore
PROPERTY UploadCompletes
