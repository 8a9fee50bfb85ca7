CONSTANTS
  s1 = s1
  s2 = s2
  s3 = s3
  Server <- Servers3
  Command <- Servers3
  Submits <- OwnCommand
  NoCommand = NoCommand
  Unvote = Unvote
  MaxTerm = 3
  MaxIndex = 2
  MaxSnapshot = 0
  MaxCrashes = 0
  MaxInFlight = 2
  MaxCopies = 1
SPECIFICATION SpecConflict
SYMMETRY SymmetryElected
INVARIANTS TermsSorted LogMatching MatchIndexTrue NextIndexInLog StateMachineSafety
CHECK_DEADLOCK FALSE
