SPECIFICATION Spec
CONSTANTS
  InputCap = 3
  StateCap = 5
  MaxReplay = 2
  MaxPending = 2
  BaseSoft = 1
  MaxSoft = 2
  Hard = 8
  Still = 0
  Dirs <- OneWay
  MaxSeq = 3
  MaxTick = 4
  MaxEvents = 1
  Kinds = {"push", "drift", "teleport", "status", "lose", "rejoin", "rtt"}
INVARIANTS BufferOK SettlesTogether StopsTogether
CHECK_DEADLOCK FALSE
