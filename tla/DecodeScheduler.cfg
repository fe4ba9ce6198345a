SPECIFICATION Spec
CONSTANTS
  Req = {r1, r2}
  Budget = 2
  PerStep = 2
  MaxReports = 1
  MinCap = 1
  MaxCap = 2
  Unit = 20
  MaxLevel = 2
  LowLevel = 1
  HighLevel = 2
  Warmup = 2
  ProbeWindow = 2
SYMMETRY ReqSymmetry
CHECK_DEADLOCK FALSE
INVARIANTS
  CapSound
  NothingLeftOpen
PROPERTIES
  CapGrowsWhenFilled
