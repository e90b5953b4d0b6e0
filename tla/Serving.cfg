SPECIFICATION Spec
CONSTANTS
  Refused = Refused
  None = None
  HeaderLen = 2
  HashLen = 2
  Key <- MCKey
  Nodes <- MCNodes
  BlockOf <- MCBlockOf
  Bodies <- MCBodies
  Placeholder <- MCPlaceholder
  Size <- MCSize
  MaxBytes = 4864
  BodyIds = 2
INVARIANTS TypeOK HonestBody MissIsEarned RoundTrip TruncationRefused
PROPERTY ImplementsStore
