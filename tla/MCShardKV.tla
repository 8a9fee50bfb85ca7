----------------------------- MODULE MCShardKV -----------------------------
(***************************************************************************)
(* Two groups and two shards of one key each.  A shard moves, comes back,  *)
(* and moves once more, or two shards change places.  Group g1 has one     *)
(* replica, or two; one or two clerks call, or none; and what goes wrong   *)
(* is bounded for each combination.                                        *)
(***************************************************************************)
EXTENDS ShardKV, TLC

CONSTANTS g1, g2, r1, r2, r3, c1, c2, k1, k2

Single == g1 :> <<r1>> @@ g2 :> <<r3>>
Double == g1 :> <<r1, r2>> @@ g2 :> <<r3>>
MCkey2shard == k1 :> 1 @@ k2 :> 2

op(kind, key) == [kind |-> kind, key |-> key]

Scenario(s, p, h, n) ==
  [servers |-> s, program |-> p, history |-> h, newest |-> 0,
   faults |-> Fault, events |-> n]

\* The controller has decided all configurations before the groups start, and
\* nothing goes wrong but that a shard is fetched again.
DataAgain(scenario) ==
  [scenario EXCEPT !.newest = Len(scenario.history), !.faults = {"data again"}]

Clerks(a, b) == c1 :> a @@ c2 :> b

PutA    == op("Put", k1)
AppendA == op("Append", k1)
GetA    == op("Get", k1)

Stay == << <<g1, g2>> >>
Move == << <<g1, g1>>, <<g2, g1>> >>
Back == << <<g1, g1>>, <<g2, g1>>, <<g1, g1>> >>
BackAndForth == Back \o << <<g2, g1>> >>
Swap == << <<g1, g2>>, <<g2, g1>> >>

MCScenarios ==
  {Scenario(Single, Clerks(<<AppendA, GetA>>, <<>>), Stay, 1),
   Scenario(Single, Clerks(<<PutA>>, <<>>), Stay, 2),
   Scenario(Single, Clerks(<<AppendA>>, <<>>), Move, 1),
   Scenario(Single, Clerks(<<AppendA>>, <<GetA>>), Move, 0),
   DataAgain(Scenario(Single, Clerks(<<AppendA>>, <<>>), Back, 1)),
   DataAgain(Scenario(Single, Clerks(<<>>, <<>>), BackAndForth, 1)),
   Scenario(Single, Clerks(<<PutA>>, <<>>), Swap, 0),
   Scenario(Single, Clerks(<<>>, <<>>), Move, 2),
   Scenario(Double, Clerks(<<>>, <<>>), Move, 1),
   Scenario(Double, Clerks(<<AppendA>>, <<>>), Stay, 1),
   Scenario(Double, Clerks(<<AppendA>>, <<>>), Move, 0)}

\* All groups leave, and one joins again.
LeaveAndJoin == << <<g1, g2>>, <<InvalidGid, InvalidGid>>, <<g1, g1>> >>

MCLeaveScenarios == {Scenario(Single, Clerks(<<>>, <<>>), LeaveAndJoin, 0)}

=============================================================================
