SPECIFICATION SamplesSpec
CONSTANTS
  Intervals = {0, 1, 2}
  Rate = 3
  MaxTime = 8
  DataSize = 16
  MaxPayload = 7
  MaxWords = 5
  RawWords = {5, 7}
  Capacity = 1
  MaxEvents = 7
  Shapes <- RingShapes
INVARIANTS TailRowWhole WindowsTile NeverSilent DrainedExactly
PROPERTIES TwoSamplesChange
