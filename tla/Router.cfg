SPECIFICATION RouterSpec
CONSTANTS
  PrefillIds = {1, 2}
  DecodeIds = {11, 12}
  Prompts <- MCPrompts
  PrefillLoads <- MCPrefillLoads
  DecodeLoads <- MCDecodeLoads
  StaleAfter = 1
  Ttl = 1
  DefaultRate = 1
  InitialCap = 2
  KvTransfer = 1
  TtftBudget = 2
  MinPrefixTokens = 1
  MaxNodes = 4
  MaxTime = 2
  MaxNotes = 3
  MaxReports = 2
INVARIANTS
  IndexBounded
  IndexFaithful
  RoutedWell
