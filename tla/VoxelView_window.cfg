SPECIFICATION FairSpec
CONSTANTS
  FirstChunk = 0
  LastChunk = 2
  NoCenter = NoCenter
  Spawns <- Middle
  Cached <- Middle
  TileSize = 1
  Radius = 1
  LightChunk = 2
  MaxRetries = 1
  Budget = 2
  MaxEvents = 2
  Kinds = {"edit", "move", "light", "fault", "save", "restart"}
CHECK_DEADLOCK FALSE
INVARIANTS
  StoreOK
  MeshCurrent
  SubscribedIsCurrent
PROPERTY WindowConverges
