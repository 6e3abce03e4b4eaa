\* The PCI setup with the VGA card's in between: the cards of MCPciInit in three slots, the NVRAM
\* in all its states, a VGA card left in every way, and what its BIOS may write.
SPECIFICATION SetupSpec
CONSTANTS
  Machines <- MCSetups
INVARIANTS SetupTypeOK WindowsApart ResourcesTell InterruptsRouted NvramIsSound CardIsSetUp
PROPERTY ConfigKept
CHECK_DEADLOCK FALSE
