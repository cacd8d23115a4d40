CONSTANTS
  short = short
  exact = exact
  tiny = tiny
  long = long
  NoFile = NoFile
  None = None
  t1 = t1
  t2 = t2
  Configs = {short, long}
  Tools = {t1, t2}
  Impatient = {t1, t2}
  Lossy = TRUE
  CanCrash = TRUE
  Faults = {}
  MaxInFlight = 2
  MaxFile = 5
  Chunk = 2
  Size <- MCSize
  CrcValid <- MCCrcValid
SPECIFICATION Spec
INVARIANT SavedIsValid
INVARIANT StoredInOrder
 
