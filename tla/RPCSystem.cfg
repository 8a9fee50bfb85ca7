SPECIFICATION MCSpec
CONSTANTS
  c1 = c1
  c2 = c2
  p = p
  k = k
  End <- Ends
  Servername <- Names
  connections <- ConnectionsOf
  Client <- Clients
  Programs <- Programs2
  Peer <- Peers
  Host = "host"
  Callers <- CallerSets
  MaxCalls = 1
  MaxRestarts = 2
INVARIANTS
  ResultsForgotten
  ConfirmedSurvives
PROPERTIES
  Linearizable
  CallsReturn
  CallReturns
CHECK_DEADLOCK FALSE
