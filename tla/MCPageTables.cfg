\* Init_PMMU at the real addresses: two banks, three sizes of ST-RAM, with and without the
\* ROM port emulation and a VME card, up to two allocations of the PCI setup.
SPECIFICATION Spec
CONSTANTS
  NSlots = 2
  Types <- MCTypes
  PciAmounts = {20, 700}
  MaxPci = 2
  VmeBase = 131072
INVARIANTS TypeOK TablesApart TablesUncached RamIsWhole TosIsProtected AliasesAgree
PROPERTY MappingsStay
CHECK_DEADLOCK FALSE
