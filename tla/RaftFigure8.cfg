CONSTANTS
  s1 = s1
  s2 = s2
  s3 = s3
  Server <- Servers3
  Command <- Servers3
  Submits <- OwnCommand
  NoCommand = NoCommand
  Unvote = Unvote
  MaxTerm = 4
  MaxIndex = 1
  MaxSnapshot = 0
  MaxCrashes = 0
  MaxInFlight = 1
  MaxCopies = 1
SPECIFICATION SpecUrgent
SYMMETRY Symmetry
INVARIANTS LeaderCompleteness
CHECK_DEADLOCK FALSE
