SPECIFICATION FairSpec
CONSTANTS
  p = p
  c = c
  b1 = b1
  b2 = b2
  Tx = {p, c}
  Builder = {b1, b2}
  Parents <- MCParents
  TxBytes <- MCTxBytes
  BatchTxs = 2
  BatchBytes = 3
  Inflight = 1
  RetryAttempts = 2
  QueueRuns = 2
  Backoffs = 3
  RunCap = 2
  Lines = {"retry", "final", "foreign", "anonymous"}
  MayCancel = TRUE
INVARIANTS Conservation HonestAtShutdown AcceptedLanded BatchContract
PROPERTIES Drains Settles
