CONSTANTS
  decoy = decoy
  plain = plain
  junk = junk
  tiny = tiny
  NoFile = NoFile
  NoRecords = NoRecords
  Unset = Unset
  Files = {decoy, plain, junk, tiny}
  Bytes <- MCBytes
  Meant <- MCMeant
  Word = 1073741824
  ZCF_MAX_FILE_BYTES = 200
  ZCF_NAME_MAX = 3
  Dipswitches = {24, 25}
  CZONE_DEVICE_DIPSWITCH = 24
  CZONE_DEVICE_MODULE_TYPE = 28
  Circuits = {5, 13, 269}
  Fallback <- MCFallback
  ZCF_MAP_MAX = 2
  NvsFails = TRUE
  LoadsFail = TRUE
  Overlap = FALSE
SPECIFICATION Spec
INVARIANT TypeOK
INVARIANT MapIsOfFile
INVARIANT DipswitchKept
PROPERTY PressFollowsFile
