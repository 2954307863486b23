SPECIFICATION Spec
CONSTANTS
  Programs <- MCCrossings
  AllDevices <- MCAllDevices
INVARIANT
  StoresAreUnique
CHECK_DEADLOCK FALSE
