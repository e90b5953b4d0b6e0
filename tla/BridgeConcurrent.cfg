SPECIFICATION FairSpec
CONSTANTS
  s = s
  b = b
  l = l
  c1 = c1
  c3 = c3
  NoObj = NoObj
  Key = {s, b, l}
  Block = {b}
  Local = {l}
  SubtreeConn = {c1}
  BlockConn = {c3}
  Roots <- MCRoots
  Size <- MCSize
  Sink = FALSE
  MineTag = TRUE
  CacheBytes = 6
  Ageing = FALSE
  MayCrash = FALSE
  MaxEntries = 512
INVARIANTS EchoSuppressed NoReannounce ServableWhenTold
PROPERTY SelfHealing
