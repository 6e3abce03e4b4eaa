\* A card with a 64-bit register before or behind another card.
SPECIFICATION Spec
CONSTANTS
  Machines <- WideMachines
INVARIANT OthersAsAsked
CHECK_DEADLOCK FALSE
