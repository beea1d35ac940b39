CONSTANTS
  x = x
  NoId = NoId
  NoJob = NoJob
  Jobs = {1, 2}
  Runners = {r1, r2}
  Requeuers = {q1}
  RunIds = {x}
  RunId <- SameRunId
  Invalid = {}
  Web = TRUE
  Kills = TRUE
  LiveRequeue = FALSE
  MaxRequeues = 1
SPECIFICATION QueueSpec
SYMMETRY Symmetry
INVARIANTS OneState ResultAgrees OneRunPerDir NeverLost
