SPECIFICATION FairSpec
CONSTANTS
  Lane = {"subtree", "block"}
  Held = {"block"}
  FailN = 2
  OKN = 3
INVARIANTS ReadyMeansBound LagBounded
PROPERTIES RoleByStreak RoleSettles LostLaneShows NoLimbo
