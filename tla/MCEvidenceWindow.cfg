SPECIFICATION Spec
CONSTANTS
  N = 2
  MaxTime = 4
  Lookback = 1
  EndSlack = 0
  ProofSlack = 0
  EventTail = 1
  StaleAfter = 2
  Ahead = 1
  Behind = 1
  Skews <- SkewsAre
INVARIANTS
  TypeOK
  WindowCoversTest
  ReadyStaysReady
PROPERTY CoveredIsOwn
CHECK_DEADLOCK FALSE
