---------------------------- MODULE MCAlgorithms ----------------------------
(***************************************************************************)
(* The sequential algorithms of the repository, one at a time: the search  *)
(* in Raft's log, the balance of the shards, the linearizability checker.  *)
(***************************************************************************)
EXTENDS FindFirstIndex, ShardBalance, Porcupine

VARIABLE algorithm

allVars == <<algorithm, vars, balanceVars, checkerVars>>

NoSearch ==
  /\ log = <<[Term |-> 0]>> /\ term = 0
  /\ low = 0 /\ high = 0 /\ result = 0

NoBalance == Shards = <<>> /\ Groups = {} /\ moves = 0

NoCheck ==
  /\ check = [history |-> <<>>, verbose |-> FALSE, timeout |-> FALSE]
  /\ partition = <<>> /\ entries = <<>> /\ search = <<>> /\ results = <<>>
  /\ kill = FALSE /\ ok = TRUE /\ timedOut = FALSE /\ count = 0
  /\ verdict = Undecided

AnyInit ==
  \/ algorithm = "findFirstIndex" /\ Init /\ NoBalance /\ NoCheck
  \/ algorithm = "makeShardBalance" /\ BalanceInit /\ NoSearch /\ NoCheck
  \/ algorithm = "checkOperations" /\ CheckerInit /\ NoSearch /\ NoBalance

SearchStep ==
  /\ algorithm = "findFirstIndex" /\ Next
  /\ UNCHANGED <<algorithm, balanceVars, checkerVars>>

BalanceStep ==
  /\ algorithm = "makeShardBalance" /\ BalanceNext
  /\ UNCHANGED <<algorithm, vars, checkerVars>>

CheckerStep ==
  /\ algorithm = "checkOperations" /\ CheckerNext
  /\ UNCHANGED <<algorithm, vars, balanceVars>>

AnyNext == SearchStep \/ BalanceStep \/ CheckerStep

AnySpec == AnyInit /\ [][AnyNext]_allVars /\ WF_allVars(SearchStep \/ CheckerStep)

-----------------------------------------------------------------------------
(***************************************************************************)
(* The histories that are checked.                                         *)
(***************************************************************************)

A == <<"a">>
B == <<"b">>

Get(out)        == [op |-> "get", value |-> <<>>, out |-> out]
Put(v)          == [op |-> "put", value |-> v, out |-> <<>>]
AppendB         == [op |-> "append", value |-> B, out |-> <<>>]
AppendGetB(out) == [op |-> "appendGet", value |-> B, out |-> out]

\* Three operations on one key that some orders explain and others do not.
Triples ==
  {<<Put(A), AppendB, Get(out)>> : out \in {<<>>, A, B, A \o B}} \cup
  {<<Put(A), AppendGetB(A), Get(A \o B)>>,
   <<Put(A), Get(<<>>), Get(A)>>,
   <<Get(<<>>), Get(<<>>), Get(A)>>}

\* Apart, overlapping, and touching at one instant.
Intervals == {<<1, 2>>, <<2, 3>>, <<1, 3>>, <<3, 3>>}

During(o, key, interval) ==
  [key |-> key, op |-> o.op, value |-> o.value, out |-> o.out,
   call |-> interval[1], return |-> interval[2]]

OneKey ==
  {[i \in 1 .. 3 |-> During(triple[i], 1, times[i])] :
     triple \in Triples, times \in [1 .. 3 -> Intervals]}

\* Two keys, each with a Put and a Get that may be wrong; nothing at all.
TwoKeys ==
  {<<During(Put(A), 1, <<1, 2>>), During(Put(A), 2, <<1, 2>>),
     During(Get(out1), 1, <<2, 3>>), During(Get(out2), 2, <<3, 3>>)>> :
     out1 \in {A, B}, out2 \in {A, <<>>}}

MCChecks ==
  [history : OneKey, verbose : {TRUE}, timeout : {FALSE}] \cup
  [history : TwoKeys \cup {<<>>}, verbose : BOOLEAN, timeout : BOOLEAN]

=============================================================================
