SPECIFICATION FairSpec
CONSTANTS
  Req = {1, 2, 3}
  Page = {p1, p2, p3, p4}
  Need <- MCNeed
  Reserve = 1
CHECK_DEADLOCK FALSE
INVARIANTS
  PagesAccounted
  SequencesAccounted
PROPERTIES
  SubmittedSettles
