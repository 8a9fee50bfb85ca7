SPECIFICATION Spec
CONSTANTS
  g1 = g1
  g2 = g2
  r1 = r1
  r2 = r2
  r3 = r3
  c1 = c1
  c2 = c2
  k1 = k1
  k2 = k2
  Group = {g1, g2}
  Replica = {r1, r2, r3}
  Client = {c1, c2}
  Key = {k1, k2}
  Shard = {1, 2}
  key2shard <- MCkey2shard
  Scenarios <- MCLeaveScenarios
PROPERTY ServesItsShards
CHECK_DEADLOCK FALSE
