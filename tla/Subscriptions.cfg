SPECIFICATION FairSpec
CONSTANTS
  Programs = {"block_subscribe", "event_subscribe"}
  MaxBuffer = 2
  Garbled = {5}
  MaxNotes = 5
  MaxBreaks = 2
CHECK_DEADLOCK FALSE
INVARIANTS TypeOK NotesInOrder WriteLock DroppedOnlyWhenFull
PROPERTIES DispatchGoesOn FetchReturns DropReported LossReported
