SPECIFICATION FairSpec
CONSTANTS
  MaxReconnects = 2
  LaneTries = 1
  MaxSessions = 2
  MaxTick = 2
  MaxEvents = 3
  Kinds = {"say", "fault", "life", "quit", "expire", "refuse"}
CHECK_DEADLOCK FALSE
INVARIANTS
  LinkOK
  AppFollows
  LaneIsDriven
PROPERTIES
  ServesOrGivesUp
  QuitStops
