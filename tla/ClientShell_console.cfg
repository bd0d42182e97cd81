SPECIFICATION Spec
CONSTANTS
  me = me
  ann = ann
  npc = npc
  none = none
  chunk = chunk
  Me = me
  Actors = {ann, npc}
  Npcs = {npc}
  Chunks = {chunk}
  None = none
  MaxAttempts = 1
  MaxSamples = 1
  MaxEvents = 4
  MaxTyped = 1
INVARIANTS
  ShellOK
  GaveUpIsSaid
PROPERTY
  ResyncsAsked
CHECK_DEADLOCK FALSE
