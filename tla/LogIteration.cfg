SPECIFICATION FairSpec
CONSTANTS
  l1 = l1
  l2 = l2
  l3 = l3
  c1 = c1
  c2 = c2
  Logs = {l1, l2, l3}
  Answers <- UpToThree
  Broken <- MiddleBroken
  Capacity = 2
  Closers = {c1, c2}
INVARIANTS TypeOK CompleteUnlessClosed CloseReleasesProducer
PROPERTIES ImplementsStream NextReturns CloseEndsProducer
