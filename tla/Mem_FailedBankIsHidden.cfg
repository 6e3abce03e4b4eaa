\* What a comment in SetPMMUTables says of a bank that fails its test, and TLC refutes.
SPECIFICATION Spec
CONSTANTS
  NSlots = 2
  Simms <- MCSimms
  MaxKeys = 0
  MaxResets = 0
INVARIANT FailedBankIsHidden
CHECK_DEADLOCK FALSE
