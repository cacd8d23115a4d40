CONSTANTS
  short = short
  exact = exact
  tiny = tiny
  long = long
  NoFile = NoFile
  None = None
  t1 = t1
  t2 = t2
  Configs = {short, exact}
  Tools = {t1}
  Impatient = {t1}
  Lossy = FALSE
  CanCrash = TRUE
  Faults = {"begin", "append", "read", "remove", "rename"}
  MaxInFlight = 2
  MaxFile = 4
  Chunk = 2
  Size <- MCSize
  CrcValid <- MCCrcValid
SPECIFICATION Spec
INVARIANT SavedStartsValid
