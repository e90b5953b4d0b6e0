SPECIFICATION Spec
CONSTANTS
  t1 = t1
  t2 = t2
  c1 = c1
  Garbage = Garbage
  Tx = {t1, t2}
  Conn = {c1}
  Feed <- MCFeed
  TxBytes <- MCTxBytes
  MaxBytes = 2
  RunCap = 2
  QueueRuns = 1
  DrainModes = {TRUE}
  NilModes = {FALSE}
  MayFail = TRUE
INVARIANTS LosslessAlways
