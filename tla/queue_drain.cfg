CONSTANTS
  x = x
  NoId = NoId
  NoJob = NoJob
  Jobs = {1, 2}
  Runners = {r1, r2}
  Requeuers = {q1}
  RunIds = {x}
  RunId <- NoRunId
  Invalid = {2}
  Web = FALSE
  Kills = FALSE
  LiveRequeue = FALSE
  MaxRequeues = 1
SPECIFICATION CronSpec
INVARIANT NoSilentRetry
 
