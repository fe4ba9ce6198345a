SPECIFICATION PrefillSpec
CONSTANTS
  NumReq = 2
  Prompts <- MCPairs
  ChunkTokens = 4
  MaxSeqs = 2
  DemoteHopeless = TRUE
  Rates = {1}
  Pools = {3}
  Reserve = 0
  BlockSize = 1
  Ttft = 3
  MaxNow = 4
CHECK_DEADLOCK FALSE
INVARIANT BookedIsComputed
