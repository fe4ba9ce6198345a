SPECIFICATION FairPrefillSpec
CONSTANTS
  NumReq = 3
  Prompts <- MCPrompts
  ChunkTokens = 3
  MaxSeqs = 2
  DemoteHopeless = TRUE
  Rates = {1, 2}
  Pools = {6, 8}
  Reserve = 1
  BlockSize = 1
  Ttft = 2
  MaxNow = 4
CHECK_DEADLOCK FALSE
INVARIANTS
  BooksBalanced
  OrderingOptimal
PROPERTIES
  BatchMeetsDeadlines
  StillServed
