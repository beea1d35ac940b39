CONSTANTS
  Groups <- AllGroups
  Order <- TableOrder
  Software = "software"
  Need <- TableNeed
  Slots = 6
  Unreliable = {"icache", "float"}
  ExitCodes = {0, 1}
  Signals = {9}
SPECIFICATION Spec
INVARIANTS PlanPartitions Uncontended RowComplete EachPassItsStatus
