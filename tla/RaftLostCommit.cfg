CONSTANTS
  s1 = s1
  s2 = s2
  s3 = s3
  Server <- Servers3
  Command <- Servers3
  Submits <- OwnCommand
  NoCommand = NoCommand
  Unvote = Unvote
  MaxTerm = 2
  MaxIndex = 2
  MaxSnapshot = 1
  MaxCrashes = 0
  MaxInFlight = 1
  MaxCopies = 1
SPECIFICATION SpecElected
SYMMETRY SymmetryElected
INVARIANTS StateMachineSafety
CHECK_DEADLOCK FALSE
