SPECIFICATION FairHttpSpec
CONSTANTS
  r1 = r1
  r2 = r2
  r3 = r3
  Req = {r1, r2, r3}
  Controls <- MCControls
  Answers <- MCAnswers
  Endless = {r2}
  CancelMayFail = FALSE
  MaxTokens = 1
INVARIANTS
  WireExact
  StreamsReleased
  EndsOnce
  ControlsArrive
PROPERTIES
  StopReleases
