SPECIFICATION Spec
CONSTANTS
  c1 = c1
  c2 = c2
  NServers = 2
  Client <- Clients
  Scenarios <- MCScenarios
INVARIANTS ReplicasAgree
PROPERTIES Linearizable CallsReturn
CHECK_DEADLOCK FALSE
