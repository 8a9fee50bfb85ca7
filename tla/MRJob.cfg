SPECIFICATION Spec
CONSTANTS
  w1 = w1
  w2 = w2
  w3 = w3
  Worker <- Workers3
  NMap = 2
  Emits <- EmitsOne
  Records = 1
  MaxCrashes = 1
  MaxLate = 1
INVARIANTS
  TasksAccounted
  FilesListedOnce
  OutputRight
PROPERTIES
  Finishes
CHECK_DEADLOCK FALSE
