\* The boot loop: four ROM images, eight floppies, two keys or disk changes, one reset,
\* one read error. The processor may rest where nothing is left to do (a started system, a
\* pause nobody ends), so deadlock is not checked.
SPECIFICATION FairSpec
CONSTANTS
  NPolls = 2
  RomImages <- MCRomImages
  Disks <- MCDisks
  MaxKeys = 2
  MaxResets = 1
  MaxErrors = 1
INVARIANTS TypeOK StartsInOrder UnpacksWhatWasFetched ColdStartRunsFresh
PROPERTIES KeepsPromise GoodDiskBoots
CHECK_DEADLOCK FALSE
