CONSTANTS
  p1 = p1
  p2 = p2
  p3 = p3
  Pids = {p1, p2, p3}
  Root = p1
  PidReuse = FALSE
  SigKill = FALSE
  Rematch = FALSE
  MaxBirths = 3
  MaxExecs = 1
  MaxNoise = 0
  MaxLines = 7
  MaxInc = 2
SPECIFICATION MCSpec
SYMMETRY Symmetry
INVARIANTS TreeRebuilt EdgesKept
