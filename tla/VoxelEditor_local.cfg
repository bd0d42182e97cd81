SPECIFICATION Spec
CONSTANTS
  dirt = dirt
  stone = stone
  Edge = 2
  Materials = {dirt, stone}
  First = dirt
  Floor <- Plane
  Cells <- Near
  Pokes <- Corners
  Builtins <- Shapes
  Captures <- Mine
  Turns = {1}
  Normals <- Up
  MaxEdits = 4
INVARIANTS
  WorldOK
  ShownIsWorld
PROPERTY
  PrefabWhole
CHECK_DEADLOCK FALSE
