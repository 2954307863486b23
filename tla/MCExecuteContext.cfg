SPECIFICATION Spec
CONSTANTS
  Processes = {"p", "q"}
  Devices = {0, 1, 2}
  Owner <- ThreeDevices
  Programs <- TwoRunsOrOverlapping
INVARIANTS TypeOK LaunchedInOrder CollectivesAgree FutureMeansDone StopWaitsForTasks
PROPERTY EverythingEnds
CHECK_DEADLOCK FALSE
