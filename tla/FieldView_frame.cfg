CONSTANTS
  ChunkSize = 2
  MicroSize = 2
  r1 = r1
  r2 = r2
  Gone = Gone
  NaN = NaN
  Chunks <- MCChunks
  Regions <- MCRegions
  ChunkOf <- MCChunkOf
  Messages <- MCMessages
  Starts <- MCStarts
  MaxEvents = 3
  MaxInbox = 2
  Steps = {1, 2}
  Budget = 1
  MaxBolts = 2
  BoltLife = 2
  MaxSmoke = 3
  SmokeLife = 3
  MaxSpawn = 2
  MaxDebris = 3
  DebrisLife = 2
  BurstSize = 1
SPECIFICATION FairSpec
INVARIANTS EffectsOK TerrainIsWorld OverlaysAreField ReadoutFollowsField
PROPERTIES QueueDrains
