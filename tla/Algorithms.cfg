CONSTANTS
  MaxLen = 5
  MaxTerm = 3
  ShardCounts = {3, 5}
  Gid = {1, 2, 3, 4}
  MaxMoves = 1
  Checks <- MCChecks
SPECIFICATION AnySpec
INVARIANTS Correct Balanced OrderIrrelevant Verdict LongestPartial
PROPERTIES Terminates FewestMoves Decides
CHECK_DEADLOCK FALSE
