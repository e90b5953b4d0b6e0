SPECIFICATION FairSpec
CONSTANTS
  Object = {o1, o2}
  Addrs = 2
  None = None
INVARIANTS Framed LateBounded
PROPERTIES ExhaustedIsHonest KeepsTrying RunReturns
CHECK_DEADLOCK FALSE
