SPECIFICATION Spec
CONSTANTS
  Devices <- MCDevices
  TaskOptions <- MCTaskOptions
  Programs <- MCPrograms
  ContextStacks <- MCContextStacks
  Options <- MCOptions
  NumIterations = 3
  MinInstructionsToVisit = 6
  MaxInstructionsInTree = 2
INVARIANTS TypeOK OutputsPreserved EveryInstructionColored ScopesHonoured OutputsAreOwned
PROPERTY ColorsNeverChange
