SPECIFICATION Spec
CONSTANTS
  Packages = {"p1", "p2", "p3", "p4"}
  Agents = {}
  AgentWork <- AgentWorkIs
  Profiles = {"f1"}
  LastWave = 3
  Order <- OrderIs
  Wave <- WaveIs
  DependsOn <- DependsIs
  Parallelizable = {"p1", "p2"}
  NeedsEnv = {}
  EnvReady = {"p1", "p2", "p3", "p4"}
  Stage <- StageIs
  Conflict <- ConflictIs
  Commands <- CommandsIs
  ContinueOnFailure = {}
  MaxOutputs <- OneOutput
  MaxResets = 0
  MaxDispatches = 1
PROPERTY GreenWavesGoOn
CHECK_DEADLOCK FALSE
