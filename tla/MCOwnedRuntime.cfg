SPECIFICATION FairSpec
CONSTANTS
  MaxDisturbances = 1
  Editing = TRUE
INVARIANTS
  TypeOK
  PassMeansClean
  NoUnreportedResidue
  PassMeansRecordedSource
PROPERTIES
  OnlyOwnRemoved
  Reports
  IsEphemeral
