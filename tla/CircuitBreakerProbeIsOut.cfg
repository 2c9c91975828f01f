SPECIFICATION Spec
CONSTANTS
  Requests = {r1, r2, r3, r4}
  NoOne = NoOne
  SleepWindow = 1
  WindowSize = 1
  MinRequests = 1
  ThresholdNum = 1
  ThresholdDen = 2
  MaxNow = 2
SYMMETRY Symmetry
INVARIANT ProbeIsOut
