---------------------------- MODULE ShardBalance ----------------------------
(***************************************************************************)
(* How the shard controller of src/src/shardctrler/server.go makes one     *)
(* configuration from the last: execJoin(), execLeave(), execMove() and    *)
(* makeShardBalance().  A configuration is the shards' owners and the set  *)
(* of groups; the names of a group's servers do not matter here.           *)
(***************************************************************************)
EXTENDS Integers, Sequences, FiniteSets, FiniteSetsExt, SequencesExt

CONSTANTS
  ShardCounts,   \* values of the constant NShards (10 in common.go)
  Gid,           \* group ids clients use
  MaxMoves       \* bound: Move operations between two balanced configurations

InvalidGid == 0

ASSUME ShardsAssumption == ShardCounts \subseteq Nat \ {0}
ASSUME GidAssumption == IsFiniteSet(Gid) /\ Gid \subseteq Nat \ {InvalidGid}
ASSUME MovesAssumption == MaxMoves \in Nat

VARIABLES
  Shards,   \* shard -> gid
  Groups,
  moves     \* Move operations since the last Join or Leave

balanceVars == <<Shards, Groups, moves>>

Shard == DOMAIN Shards

NShards == Cardinality(Shard)

-----------------------------------------------------------------------------
(***************************************************************************)
(* makeShardBalance(): x shards for every group, and one more for r groups.*)
(***************************************************************************)

x(groups) == NShards \div Cardinality(groups)
r(groups) == NShards % Cardinality(groups)

\* Mutant of Keep: no group keeps more than x shards.
Keep_NoExtra(acc, i, shards, groups) ==
  LET gid == shards[i] IN
  IF gid \in groups /\ acc.cnt[gid] < x(groups)
  THEN [acc EXCEPT !.cnt[gid] = @ + 1]
  ELSE [acc EXCEPT !.surplus = Append(@, i)]

\* The first loop at shard i: its group keeps it, or it is surplus.
Keep(acc, i, shards, groups) ==
  LET gid == shards[i] IN
  IF gid \in groups /\ acc.cnt[gid] < x(groups)
  THEN [acc EXCEPT !.cnt[gid] = @ + 1]
  ELSE IF gid \in groups /\ acc.cnt[gid] = x(groups) /\ acc.r > 0
  THEN [acc EXCEPT !.cnt[gid] = @ + 1, !.r = @ - 1]
  ELSE [acc EXCEPT !.surplus = Append(@, i)]

Scan(shards, groups) ==
  FoldLeft(LAMBDA acc, i : Keep(acc, i, shards, groups),
           [cnt |-> [g \in groups |-> 0], r |-> r(groups), surplus |-> <<>>],
           [n \in 1 .. NShards |-> n - 1])

\* Mutant of Lacks: the remainder is not handed out.
Lacks_NoExtra(acc, gid, groups) ==
  IF acc.cnt[gid] <= x(groups) THEN x(groups) - acc.cnt[gid] ELSE 0

\* How many shards the second loop gives to gid.
Lacks(acc, gid, groups) ==
  IF acc.cnt[gid] <= x(groups)
  THEN x(groups) - acc.cnt[gid] + (IF acc.r > 0 THEN 1 ELSE 0)
  ELSE 0

\* The second loop at gid: it takes shards from the end of the surplus.
Fill(acc, gid, groups) ==
  LET n    == Lacks(acc, gid, groups)
      left == Len(acc.surplus) - n
      mine == {acc.surplus[k] : k \in left + 1 .. Len(acc.surplus)}
  IN  [acc EXCEPT
         !.shards  = [i \in Shard |-> IF i \in mine THEN gid ELSE @[i]],
         !.surplus = SubSeq(@, 1, left),
         !.r       = IF acc.cnt[gid] <= x(groups) /\ @ > 0 THEN @ - 1 ELSE @]

\* Mutant of SortGids: the groups stay in the order of the map.
SortGids_NoSort(order) == order

\* sort.SliceStable() on what `for gid := range config.Groups` has delivered.
SortGids(order) == SortSeq(order, LAMBDA g, h : g < h)

\* order: the one in which Go happens to iterate over the map Groups.
makeShardBalance(shards, groups, order) ==
  IF groups = {} THEN [i \in Shard |-> InvalidGid]
  ELSE LET scan == Scan(shards, groups) IN
       FoldLeft(LAMBDA acc, gid : Fill(acc, gid, groups),
                [shards |-> shards, surplus |-> scan.surplus, r |-> scan.r,
                 cnt |-> scan.cnt],
                SortGids(order)).shards

-----------------------------------------------------------------------------

\* The configuration 0 of StartServer().
BalanceInit ==
  /\ \E n \in ShardCounts : Shards = [i \in 0 .. n - 1 |-> InvalidGid]
  /\ Groups = {}
  /\ moves  = 0

\* SetToSeq is some order of the map; OrderIrrelevant says that any will do.
execJoin(gids) ==
  /\ Groups' = Groups \cup gids
  /\ Shards' = makeShardBalance(Shards, Groups', SetToSeq(Groups'))
  /\ moves'  = 0

execLeave(gids) ==
  /\ Groups' = Groups \ gids
  /\ Shards' = makeShardBalance(Shards, Groups', SetToSeq(Groups'))
  /\ moves'  = 0

execMove(shard, gid) ==
  /\ moves < MaxMoves
  /\ Shards' = [Shards EXCEPT ![shard] = gid]
  /\ moves'  = moves + 1
  /\ UNCHANGED Groups

BalanceNext ==
  \/ \E gids \in SUBSET Gid : execJoin(gids)
  \/ \E gids \in SUBSET Gid : execLeave(gids)
  \/ \E shard \in Shard, gid \in Gid : execMove(shard, gid)

-----------------------------------------------------------------------------

Load(shards, g) == Cardinality({i \in Shard : shards[i] = g})

IsBalanced(shards, groups) ==
  /\ groups = {} => shards = [i \in Shard |-> InvalidGid]
  /\ groups # {} => Range(shards) \subseteq groups
  /\ \A g, h \in groups : Load(shards, g) <= Load(shards, h) + 1

\* After a Join or Leave every shard belongs to a group of the configuration,
\* and no group has two shards more than another: with no group, with more
\* groups than shards, and after Moves to anyone (what check() of
\* shardctrler/test_test.go tests for some sequences).
Balanced == moves = 0 => IsBalanced(Shards, Groups)

\* A Join or Leave moves no shard it need not move: to leave one more of them
\* where it is makes balance impossible, wherever the others go (the
\* MinimalTransfer tests look at a few joins and leaves).
FewestMoves ==
  [][moves' = 0 =>
       \A stay \in kSubset(1 + Cardinality({i \in Shard : Shards[i] = Shards'[i]}), Shard) :
       \A others \in [Shard \ stay -> Groups'] :
         ~IsBalanced([i \in Shard |-> IF i \in stay THEN Shards[i] ELSE others[i]], Groups')]_balanceVars

\* Replicas compute the same configuration, although each iterates over the map
\* of groups in an order of its own.
OrderIrrelevant ==
  \A order \in SetToSeqs(Groups) :
    makeShardBalance(Shards, Groups, order) = makeShardBalance(Shards, Groups, SetToSeq(Groups))

=============================================================================
