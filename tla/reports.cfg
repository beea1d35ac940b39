CONSTANTS
  w1 = w1
  w2 = w2
  r1 = r1
  r2 = r2
  r3 = r3
  fa = fa
  fb = fb
  fc = fc
  Absentee = Absentee
  Absent = Absent
  NoRun = NoRun
  Unavailable = Unavailable
  Names = {w1, w2}
  Editors = {1, 2}
  Lists <- SomeLists
  Indexes <- SomeIndexes
  Profiles <- SomeProfiles
  Features <- SomeFeatures
  Pools <- SomePools
  Counts = {2, 3}
  Iterations = 5
  Scale = 12
  Databases <- SomeDatabases
  Summaries <- SomeSummaries
  PhaseMeans <- SomeMeans
  EnvFields = {"memory_total_kb", "cpu_governor"}
  MinRuns = 2
  MaxCv = 5
  MinEnvScore = 75
  TreePairs <- SomeTrees
  Unnamed = Unnamed
  Threshold = 1
SPECIFICATION Spec
INVARIANTS
  ReportFromEvidence 
  NearestAtRest
  ScoredFromEvidence
  BaselineIsBucket VerdictOfAllPairs
  DiffBySignature DiffBalances
CHECK_DEADLOCK FALSE
