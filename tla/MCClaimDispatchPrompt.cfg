SPECIFICATION Spec
CONSTANTS
  Packages = {"p1", "p2", "p3"}
  Agents = {"a1"}
  AgentWork <- PromptedWork
  Profiles = {"f1"}
  LastWave = 2
  Order <- OrderIs
  Wave <- WaveIs
  DependsOn <- DependsIs
  Parallelizable = {"p1", "p2"}
  NeedsEnv = {"p1"}
  EnvReady = {"p1", "p2", "p3"}
  Stage <- StageIs
  Conflict <- ConflictIs
  Commands <- CommandsIs
  ContinueOnFailure = {}
  MaxOutputs <- OutputsIs
  MaxResets = 0
  MaxDispatches = 1
INVARIANT NotRefusedByOwnLock
CHECK_DEADLOCK FALSE
