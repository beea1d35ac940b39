CONSTANTS
  NoCore = NoCore
  MinTicks = 2
  NumCores = 2
  Hosts <- Machines
  Requests <- AllRequests
  Flags <- AllFlags
  MaxTicks = 2
  Process = Process
  NoSlots = NoSlots
SPECIFICATION FeatureSpec
INVARIANTS HardwareGrouped RowsWhole SlotsOwnRow FeaturesComparable
CHECK_DEADLOCK FALSE
