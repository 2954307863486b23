SPECIFICATION Spec
CONSTANTS
  c1 = c1
  c2 = c2
  m1 = m1
  m2 = m2
  m3 = m3
  Clients = {c1}
  Devices = {0, 1, 2}
  Modules = {m1, m2, m3}
  NoDevice = NoDevice
  Schedule <- OneClient
  FastPath = {}
INVARIANTS
  TypeOK
  CompiledOnce
  FenceMeansCompiled
PROPERTY
  EveryTaskEnds
CHECK_DEADLOCK FALSE
