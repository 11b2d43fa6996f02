SPECIFICATION FairSpec
CONSTANTS
  Packages = {"p1", "p2", "p3"}
  Agents = {"a1"}
  AgentWork <- AgentWorkIs
  Profiles = {"f1"}
  LastWave = 2
  Order <- OrderIs
  Wave <- WaveIs
  DependsOn <- DependsIs
  Parallelizable = {"p1", "p2"}
  NeedsEnv = {"p1"}
  EnvReady = {"p1", "p2", "p3"}
  Stage <- StageIs
  Conflict <- ConflictIs
  Commands <- CommandsIs
  ContinueOnFailure = {}
  MaxOutputs <- OutputsIs
  MaxResets = 1
  MaxDispatches = 1
INVARIANTS
  TypeOK
  OneRunner
  ResultsPassIsCurrent
  OverlapsSerialized
  DependentsAfterEvidence
PROPERTIES
  IsLease
  Ends
CHECK_DEADLOCK FALSE
