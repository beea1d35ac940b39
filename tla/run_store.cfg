CONSTANTS
  o1 = o1
  o2 = o2
  k1 = k1
  k2 = k2
  NoRun = NoRun
  NoStore = NoStore
  NoRow = NoRow
  Runs = {r1, r2}
  Outputs = {o1}
  OutputOf <- SharedOutputs
  Keys = {k1, k2}
  KeyChoices <- OwnOrShared
  Stores = {s1, s2}
  OptionSets <- ThisBuild
  Versions = {0, 1, 5}
  BATCH = 1
  MaxIngests = 3
  MaxRotations = 1
SPECIFICATION Spec
INVARIANTS NeverInterleaved SkipsOnlyStored HostIsOwn VersionIsTrue
 
SYMMETRY Symmetry
CHECK_DEADLOCK FALSE
