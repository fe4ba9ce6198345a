SPECIFICATION Spec
CONSTANTS
  Calibration <- MCCalibration
  SpecRatio <- MCSpecRatio
  FullBudget = 2
  FullXfer = 16
  MoeBackends = {"AUTO", "CUTLASS", "TRITON", "DEEPGEMM"}
  Start <- MCStart
  Runs <- MCRuns
  Tables <- MCTables
  PrefillTps = {2, 4}
  DecodeTps = {2, 4, 8}
  Slo <- MCSlo
  Hw <- MCHw
  Window <- MCWindow
  SimResults <- MCSimResults
  Tolerance <- MCTolerance
  Targets = {11, 30}
INVARIANTS
  AdviceConsistent
  ModelConsistent
  JudgedFairly
  PlacedRight
PROPERTIES
  FollowingHelps
