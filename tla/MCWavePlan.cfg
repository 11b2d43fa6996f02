SPECIFICATION Spec
CONSTANTS
  Packages = {"p1", "p2", "p3", "p4"}
  Tags = {"lab", "qga", "caldera"}
  TagSets <- TagSetsAre
  Kinds <- KindsAre
  HeldSets <- HeldSetsAre
  Scores = {0, 1}
  Id <- IdIs
  Slots = 4
INVARIANTS
  TypeOK
  NoOverlap
  CopiesAgree
CHECK_DEADLOCK FALSE
