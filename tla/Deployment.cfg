SPECIFICATION Spec
CONSTANTS
  r1 = r1
  r2 = r2
  r3 = r3
  Requests = {r1, r2, r3}
  Streaming = {r2, r3}
  Stalling = {r2}
  MaxTokens <- MCMaxTokens
  ChannelDepth = 1
  MaxLost = 1
CHECK_DEADLOCK FALSE
INVARIANTS
  EntriesOwned
  StreamsWhole
PROPERTIES
  ReadersServed
