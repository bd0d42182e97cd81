SPECIFICATION Spec
CONSTANTS
  g1 = g1
  g2 = g2
  s1 = s1
  s2 = s2
  Gates = {g1, g2}
  Scenes = {s1, s2}
  MaxCrossings = 2
  MaxHeats = 1
  MaxEffects = 2
  MaxFaults = 2
SYMMETRY Symmetric
INVARIANTS
  SessionsOK
  EffectsDurable
  NeverOvertaken
  HeatKept
PROPERTIES
  OwnershipSpec
CHECK_DEADLOCK FALSE
CONSTRAINT AloneOrFew
