SPECIFICATION FairSpec
CONSTANTS
  Programs = {"block_subscribe"}
  MaxBuffer = 1
  Garbled = {}
  MaxNotes = 1
  MaxBreaks = 1
CHECK_DEADLOCK FALSE
INVARIANTS NobodyForgotten
