\* Detection, memory test and warm start: two banks, eleven SIMM sides, one key, two resets
\* or power cycles. A machine may rest in its beep loop, hang or running system.
SPECIFICATION FairSpec
CONSTANTS
  NSlots = 2
  Simms <- MCSimms
  MaxKeys = 1
  MaxResets = 2
INVARIANTS TypeOK NoMirrors WarmMapsOnlyTested LowMemoryIsSound
PROPERTIES WarmOnlyAfterFullStart StartEnds
CHECK_DEADLOCK FALSE
