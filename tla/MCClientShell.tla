--------------------------- MODULE MCClientShell ---------------------------
EXTENDS ClientShell

CONSTANTS me, ann, npc, none, chunk
============================================================================
