SPECIFICATION Spec
CONSTANT MaxDisturbances = 2
INVARIANTS
  TypeOK
  VerifiedMeansGone
PROPERTY IsEphemeral
