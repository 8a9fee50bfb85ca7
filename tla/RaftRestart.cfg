CONSTANTS
  s1 = s1
  s2 = s2
  s3 = s3
  Server <- Servers3
  Command <- Servers3
  Submits <- OwnCommand
  NoCommand = NoCommand
  Unvote = Unvote
  MaxTerm = 2
  MaxIndex = 1
  MaxSnapshot = 1
  MaxCrashes = 1
  MaxInFlight = 1
  MaxCopies = 1
SPECIFICATION Spec
SYMMETRY Symmetry
INVARIANTS  ElectionSafety TimerArmed
PROPERTIES VoteDurable
CHECK_DEADLOCK FALSE
