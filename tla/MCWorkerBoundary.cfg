SPECIFICATION FairSpec
CONSTANTS
  Limit = 1
  ResponseMax = 1
  Chunk = 2
  Pipe = 2
  Most = 2
INVARIANTS
  TypeOK
  ReportIsTrue
  ObservedIsWhole
  CauseIsReal
  OnlyLateOverflowRefused
PROPERTIES
  Ends
