SPECIFICATION UnrollSpec
CONSTANTS
  Configs <- UnrollConfigs
  DeviceLists = {g0, g1, all}
  AllDevices = all
  Names = {0, 1, 2, 3, 4}
  MaxIterations = 3
  Layers = 4
  all = all
  g0 = g0
  g1 = g1
INVARIANTS
  UnrollTypeOK
  UnrolledGraphAcyclic
  DeviceOrderTotal
  UnrolledDataflow
