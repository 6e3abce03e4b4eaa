\* What the code's comment says of the boot loop, and TLC refutes: DiskTriedDespiteCompInd.
SPECIFICATION Spec
CONSTANTS
  NPolls = 1
  RomImages <- MCRomImages
  Disks <- MCDisks
  MaxKeys = 1
  MaxResets = 0
  MaxErrors = 0
INVARIANT DiskTriedDespiteCompInd
CHECK_DEADLOCK FALSE
