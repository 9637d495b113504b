SPECIFICATION FairSpec
CONSTANTS
  c1 = c1
  c2 = c2
  Closers = {c1, c2}
  Broken = {4}
  Garbled = {5}
  Capacity = 1
  MaxBuffer = 1
  MaxLogs = 5
INVARIANTS TypeOK EventsInOrder UnsubscribeReleases ReasonGiven
CHECK_DEADLOCK FALSE
PROPERTIES UnsubscribeEnds EndsOnError
