SPECIFICATION Spec
CONSTANTS
  s = s
  b = b
  l = l
  c1 = c1
  c3 = c3
  NoObj = NoObj
  Key = {s, b}
  Block = {b}
  Local = {}
  SubtreeConn = {}
  BlockConn = {c3}
  Roots <- MCRoots
  Size <- MCSize
  Sink = FALSE
  MineTag = FALSE
  CacheBytes = 2
  Ageing = TRUE
  MayCrash = TRUE
  MaxEntries = 128
INVARIANT AnnouncedIsTold
