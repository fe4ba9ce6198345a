SPECIFICATION Spec
CONSTANTS
  MaxBatchSize = 2
  MaxNumTokens = 2
  ItlBudget = 1
  WatermarkBlocks = 1
  Requests = {1, 2, 3}
  Prompt <- MCPrompt
  MaxNew <- MCMaxNew
  KvFree = {0, 2}
  ForgetSteps = 1
  MaxSamples = 1
  Setups <- MCSetups
  MaxAge = 2
  MaxShadowSteps = 2
INVARIANTS
  BooksExact
  DecisionMaximal
  RanksAgree
PROPERTIES
  LiveCompletes
