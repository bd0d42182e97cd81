SPECIFICATION FairSpec
CONSTANTS
  u1 = u1
  u2 = u2
  u3 = u3
  Units = {u1}
  Callers = {c1}
  Window = 1
  Batch = 1
  TxnLimits <- Stepped
  UnitLimits <- Wide
  LegacyLogs <- NoLegacy
  LateCommit = FALSE
  MaxSeq = 3
  MaxCrashes = 0
PROPERTIES
  CompactAnswered
  BacklogEnds
