CONSTANTS
  s1 = s1
  s2 = s2
  s3 = s3
  Server <- Servers3
  Command <- Servers3
  Submits <- OwnCommand
  NoCommand = NoCommand
  Unvote = Unvote
  MaxTerm = 1
  MaxIndex = 3
  MaxSnapshot = 1
  MaxCrashes = 0
  MaxInFlight = 2
  MaxCopies = 1
SPECIFICATION SpecSnapshot
SYMMETRY SymmetryElected
INVARIANTS TypeOK ApplyInOrder
PROPERTIES AppliedStable
CHECK_DEADLOCK FALSE
