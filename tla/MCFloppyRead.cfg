CONSTANTS
  None = None
  NoDisk = None
  Disks <- MCDisks
  MaxLoads = 2
  MaxErrors = 1
SPECIFICATION Spec
INVARIANTS TypeOK ReadReported FileLoaded LoadOutcome
PROPERTY DiskLoadEnds
