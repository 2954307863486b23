SPECIFICATION Spec
CONSTANTS
  Configs <- WavefrontConfigs
  DeviceLists = {g0, g1, g2, all}
  AllDevices = all
  Names = {"a", "b", "c", "d"}
  MaxIterations = 2
  MaxStages = 2
  MaxNumStages = 2
  all = all
  g0 = g0
  g1 = g1
  g2 = g2
INVARIANT
  EveryIterationScheduled
