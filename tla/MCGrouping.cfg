SPECIFICATION Spec
CONSTANTS
  Devices <- MCDevices
  TaskOptions <- MCTaskOptions
  Modules <- MCModules
  Options <- MCOptions
  NumIterations = 3
  MemoryRatio = 1
  CrossMeshRatio = 10
  LargeBufferSize = 8
INVARIANTS TypeOK OutputsPreserved CyclesAreCaught EverythingIsInATask EveryOutputIsRead WorkIsDoneOnce
PROPERTY FailsOnlyOnCycleOrSplitIndex
