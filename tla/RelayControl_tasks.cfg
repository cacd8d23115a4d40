CONSTANTS
  CZONE_DEVICE_MODULE_TYPE = 28
  Dipswitch = 24
  None = None
  Circuits <- MCCircuits
  BankCommands <- MCBankCommands
  TermOps <- MCTermOps
  MaxCommands = 2
  I2cFails = TRUE
  SendFails = TRUE
SPECIFICATION FairSpec
INVARIANT TypeOK
INVARIANT OutputsMatch
INVARIANT CircuitInStep
PROPERTY OperationsAreAtomic
PROPERTY BankKeepsOthers
PROPERTY StatusConverges
PROPERTY CommandsFinish
