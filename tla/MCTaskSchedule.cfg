SPECIFICATION Spec
CONSTANTS
  Programs <- MCPrograms
  AllDevices <- MCAllDevices
INVARIANTS
  TypeOK
  NamesAreExclusive
  ValuesArePlaced
  ScheduleFollowsDataflow
  ReadsOwnValues
PROPERTY
  ImplementsDataflow
CHECK_DEADLOCK FALSE
