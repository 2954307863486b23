SPECIFICATION Spec
CONSTANTS
  Configs <- AllConfigs
  DeviceLists = {g0, g1, g2, all}
  AllDevices = all
  Names = {"a", "b", "c", "d"}
  MaxIterations = 5
  MaxStages = 4
  MaxNumStages = 2
  all = all
  g0 = g0
  g1 = g1
  g2 = g2
INVARIANTS
  TypeOK
  ScheduledAtMostOnce
  RespectsDataflow
  SchedulesEveryTask
  BoundedInFlight
  FollowsCustomSchedule
