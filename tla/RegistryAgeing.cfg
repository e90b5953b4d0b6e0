SPECIFICATION Spec
CONSTANTS
  Key = {k1, k2, k3, k4}
  MaxEntries = 256
  TTL = 4
INVARIANTS LiveBound SurvivesHalfTTL
PROPERTY RecentKeepsDirection
