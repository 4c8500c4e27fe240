CONSTANTS
  s1 = s1
  s2 = s2
  c1 = c1
  c2 = c2
  f1 = f1
  NoRes = NoRes
  Sectors <- MCSectors
  Callers <- MCCallers
  Flushers <- MCFlushers
  MaxPreCommitBatch = 2
  PreCommitBatchWait = 2
  PreCommitBatchSlack = 1
  CutoffDistances <- MCCutoffDistances
  ConfigMayFail = FALSE
SYMMETRY MCSymmetry
SPECIFICATION Spec
PROPERTIES
  BatchWaitPositive
