SPECIFICATION FairSpec
CONSTANTS
  g1 = g1
  g2 = g2
  s1 = s1
  s2 = s2
  Gates = {g1, g2}
  Scenes = {s1, s2}
  MaxCrossings = 1
  MaxHeats = 0
  MaxEffects = 0
  MaxFaults = 0
PROPERTY CallsEnd
CHECK_DEADLOCK FALSE
