SPECIFICATION Spec
CONSTANTS
  Devices <- MCDevices
  TaskOptions <- MCTaskOptions
  Modules <- Crossings
  Options <- MCOptions
  NumIterations = 3
  MemoryRatio = 1
  CrossMeshRatio = 10
  LargeBufferSize = 8
INVARIANT FusionKeepsOrder
