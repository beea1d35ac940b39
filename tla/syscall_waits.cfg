CONSTANTS
  p1 = p1
  p2 = p2
  Pids = {p1, p2}
  Root = p1
  PidReuse = FALSE
  SigKill = TRUE
  Rematch = FALSE
  MaxBirths = 2
  MaxExecs = 1
  MaxNoise = 0
  Calls = {"futex_wait", "futex_wake", "clone", "execve", "exit"}
  Options = {"futex"}
  MaxCalls = 3
SPECIFICATION WaitsSpec
INVARIANT WaitsAreOwn
