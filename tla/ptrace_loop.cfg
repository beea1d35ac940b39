CONSTANTS
  p1 = p1
  p2 = p2
  Pids = {p1, p2}
  Root = p1
  PidReuse = FALSE
  SigKill = TRUE
  Rematch = FALSE
  MaxBirths = 2
  MaxExecs = 2
  MaxNoise = 1
SPECIFICATION FairSpec
INVARIANT CountersClosedAtExit
PROPERTIES KeepsPromise Terminates
