--------------------------- MODULE MCShardCtrler ---------------------------
(***************************************************************************)
(* ShardCtrler for model checking: one clerk with two calls, or two clerks *)
(* with one call each, as tests and shardkv servers make them.             *)
(***************************************************************************)
EXTENDS ShardCtrler

CONSTANTS c1, c2

Clients == {c1, c2}

Scenario(first, second, n, m) ==
  [program |-> [c \in Clients |-> IF c = c1 THEN first ELSE second],
   events |-> n, restarts |-> m]

MCScenarios ==
  {Scenario(<<Join, Query(-1)>>, <<>>, 1, 0), Scenario(<<Leave, Query(1)>>, <<>>, 0, 1),
   Scenario(<<Move>>, <<>>, 1, 1), Scenario(<<Join>>, <<Query(-1)>>, 1, 0)}

=============================================================================
