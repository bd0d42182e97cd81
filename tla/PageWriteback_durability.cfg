SPECIFICATION Spec
CONSTANTS
  u1 = u1
  u2 = u2
  u3 = u3
  Units = {u1, u2}
  Callers = {c1}
  Window = 1
  Batch = 1
  TxnLimits <- Stepped
  UnitLimits <- Stepped
  LegacyLogs <- LegacyTxns
  LateCommit = FALSE
  MaxSeq = 2
  MaxCrashes = 1
INVARIANTS
  TypeOK
  Recoverable
  StateKept
  SchedulingKept
PROPERTIES
  CompactIsDurable
  LedgerSpec
