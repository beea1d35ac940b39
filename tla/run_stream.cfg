CONSTANTS
  k1 = k1
  r1 = r1
  r2 = r2
  s1 = s1
  Keys = {k1}
  Requests = {r1, r2}
  Streams = {s1}
  NoState = NoState
  Images = 2
  MaxOutput = 1
  MaxRestarts = 1
SPECIFICATION StreamSpec
INVARIANT StreamedWhole
PROPERTY EveryStreamEnds
CHECK_DEADLOCK FALSE
