------------------------------ MODULE MCKVRaft ------------------------------
(***************************************************************************)
(* KVRaft for model checking: one clerk with two calls, of which the first *)
(* may linger, or two clerks with one call each.                           *)
(***************************************************************************)
EXTENDS KVRaft

CONSTANTS c1, c2

Clients == {c1, c2}

Scenario(first, second, n) ==
  [program |-> [c \in Clients |-> IF c = c1 THEN first ELSE second], events |-> n]

MCScenarios ==
  {Scenario(<<"Append", "Get">>, <<>>, 2), Scenario(<<"Put", "Append">>, <<>>, 2),
   Scenario(<<"Append">>, <<"Get">>, 1)}

=============================================================================
