SPECIFICATION FairSpec
CONSTANT N = 2
INVARIANTS
  TypeOK
  OneEntryPerTest
  MeasuredAreCleaned
PROPERTIES
  IsCampaign
  Ends
