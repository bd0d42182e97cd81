SPECIFICATION Spec
CONSTANTS
  Messages <- MCMessages
  Followers <- MCFollowers
  Requests <- MCRequests
  MaxSent = 2
  Pieces = {1, 3, 60, 1000}
INVARIANTS
  FramesInOrder
  CutIsRefused
  ReadBack
CHECK_DEADLOCK FALSE
