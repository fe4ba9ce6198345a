SPECIFICATION FairSpec
CONSTANTS
  Req = {r1, r2, r3}
  NumSlots = 2
  DecodeCap = 1
  ChannelDepth = 1
  Attentive = {r1}
CHECK_DEADLOCK FALSE
INVARIANTS
  TasksAccounted
PROPERTIES
  RoutesByOneReading
  ClientsSettled
