SPECIFICATION Spec
CONSTANTS
  Concurrency = 3
  PrefillWorkers = {p1, p2}
  DecodeWorkers = {d1, d2}
  Chunks = 2
  Osl = 3
  TokensPerStep = {1, 2}
  XferConcurrency = 1
  TotalBlocks = 5
  NeedBlocks = 2
  WatermarkBlocks = 1
  TransferMs = 1
INVARIANTS
  ResourcesExact
  ClosedLoop
  NoLostWakeup
PROPERTIES
  ClientsReturn
