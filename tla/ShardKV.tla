------------------------------ MODULE ShardKV ------------------------------
(***************************************************************************)
(* The sharded key/value service of src/src/shardkv: clerks that look up   *)
(* the group of a shard, the replicas of the groups, and the goroutines    *)
(* that follow the configurations of the shard controller, fetch shards    *)
(* from their former owners and have the fetched copies deleted.           *)
(*                                                                         *)
(* The controller is a history of configurations of which the first        *)
(* "newest" are decided.  Raft is what the service sees of it: each group  *)
(* has one log; Start() takes a command or says that the replica is no     *)
(* leader; a command it took is appended later, once, or is lost; and all  *)
(* replicas execute the log in its order.                                  *)
(***************************************************************************)
EXTENDS Integers, Sequences, FiniteSets, Bags

CONSTANTS
  Group,       \* gids
  Replica,
  Client,      \* clerks
  Key, Shard,
  key2shard,   \* key -> its shard
  Scenarios    \* the replicas of the groups, what clerks may call, what the
               \* controller may decide, and how much may go wrong

InvalidGid == 0

\* What delays a call or has it made again, and what a server does seldom.
Fault == {"refusal", "timeout", "config again", "data again", "gc again", "loss", "query",
          "snapshot", "crash"}

ASSUME KeyAssumption == key2shard \in [Key -> Shard]
ASSUME ScenarioAssumption ==
  Scenarios \subseteq [servers : [Group -> Seq(Replica)],
                       program : [Client -> Seq([kind : {"Get", "Put", "Append"}, key : Key])],
                       history : Seq([Shard -> Group \cup {InvalidGid}]),
                       newest  : Nat,
                       faults  : SUBSET Fault,
                       events  : Nat]

VARIABLES
  servers,     \* Config.Groups: gid -> sequence of its replicas
  history,     \* the configurations of this behaviour, from number 1
  newest,      \* number of the newest configuration
  started,     \* gid -> bag of commands in some leader's log, not committed
  log,         \* gid -> committed commands
  final,       \* gid -> the state that its whole log leads to
  kv,          \* replica -> its state
  snapshot,    \* replica -> the snapshot in its persister
  gcCalls,     \* GC RPCs in progress
  querying,    \* replicas that wait for the controller, with kv.mu held
  program,     \* the calls the clerks make in this behaviour
  NextCallID,
  config,      \* clerk -> number of its configuration
  trying,      \* clerk -> index of the server called, or one of the two below
  rpc,         \* clerk -> RPCs it gave up
  requests,    \* RPCs of the clerks on their way or being handled
  answer,      \* clerk -> what its last call returned
  faults,      \* bound: what may happen, of the kinds in Fault
  events       \* bound: how often still

NotCalling == 0
Asking     == -1      \* about to ask the controller for its configuration

groupVars == <<started, log, final, kv, snapshot, gcCalls>>
clerkVars == <<NextCallID, config, trying, rpc, requests, answer>>
given     == <<servers, history, program, faults>>
control   == <<newest, querying>>
vars      == <<given, control, groupVars, clerkVars, events>>

Event(fault) == fault \in faults /\ events > 0 /\ events' = events - 1

\* A step that is a fault only if this holds.
EventIf(fault, test) == (test /\ Event(fault)) \/ (~test /\ UNCHANGED events)

Shards(n) == IF n = 0 THEN [s \in Shard |-> InvalidGid] ELSE history[n]

ServersOf(g) == {servers[g][i] : i \in DOMAIN servers[g]}

Server == UNION {ServersOf(g) : g \in Group}

gid(r) == CHOOSE g \in Group : r \in ServersOf(g)

NoOp == [CallId |-> -1, Result |-> <<>>]     \* no entry in LastOp

\* What is asked of the operation op of a clerk.
Kind(op) == program[op.ClientId][op.CallId + 1].kind
KeyOf(op) == program[op.ClientId][op.CallId + 1].key

-----------------------------------------------------------------------------
(***************************************************************************)
(* The state of a replica and the execution of a command.                  *)
(***************************************************************************)

\* StartServer(): an absent key has the empty value.
NewServer ==
  [LastApplied      |-> 0,
   Data             |-> [k \in Key |-> <<>>],
   LastOp           |-> [c \in Client |-> NoOp],
   Config           |-> 0,
   MyShards         |-> {},
   DataForMigration |-> {},
   ShardDataReqs    |-> {},
   GCList           |-> {}]

checkRightGroup(s, k) == key2shard[k] \in s.MyShards

DataOf(s, shard) ==
  [k \in {k \in Key : key2shard[k] = shard /\ s.Data[k] # <<>>} |-> s.Data[k]]

Executed(s, op) == s.LastOp[op.ClientId].CallId >= op.CallId

Effect(kind, old, op) ==
  CASE kind = "Get"    -> old
    [] kind = "Put"    -> <<op>>
    [] kind = "Append" -> Append(old, op)

execOp(s, op) ==
  LET k == KeyOf(op)
      result == IF Kind(op) = "Get" THEN s.Data[k] ELSE <<>>
  IN
  IF Executed(s, op) \/ ~checkRightGroup(s, k) THEN s
  ELSE [s EXCEPT !.Data[k] = Effect(Kind(op), @, op),
                 !.LastOp[op.ClientId] = [CallId |-> op.CallId, Result |-> result]]

\* The gained shards that another group has; nobody had one before the first
\* configuration.
ToFetch(s, gained) == IF s.Config = 0 THEN {} ELSE gained

execApplyConfig(s, g, n) ==
  LET gained == {i \in Shard : Shards(n)[i] = g /\ Shards(s.Config)[i] # g}
      lost   == {i \in Shard : Shards(n)[i] # g /\ Shards(s.Config)[i] = g}
  IN
  IF n <= s.Config THEN s
  ELSE [s EXCEPT
          !.Config   = n,
          !.MyShards = (@ \cup (gained \ ToFetch(s, gained))) \ lost,
          !.Data     = [k \in Key |-> IF key2shard[k] \in lost THEN <<>> ELSE @[k]],
          !.ShardDataReqs =
             {q \in @ : q.Shard \notin ToFetch(s, gained)}
               \cup [Shard : ToFetch(s, gained), ConfigNum : {s.Config}],
          !.DataForMigration =
             @ \cup {[ConfigNum |-> s.Config, Shard |-> i, Data |-> DataOf(s, i)] : i \in lost}]

\* Mutant of Merge: the new owner does not learn which calls were executed.
Merge_Forget(mine, theirs) == mine

\* The LastOp of a replica after it takes over the one of a former owner.
Merge(mine, theirs) ==
  [c \in Client |-> IF mine[c].CallId <= theirs[c].CallId THEN theirs[c] ELSE mine[c]]

\* Mutant of Expected: late data is taken for the data that is waited for.
Expected_Late(s, m) == m.ConfigNum < s.Config

\* Mutant of Expected: off by one.
Expected_Now(s, m) == m.ConfigNum = s.Config

\* The data is of the configuration before the one of the replica.
Expected(s, m) == m.ConfigNum = s.Config - 1

execMigrationDataSync(s, m) ==
  LET fresh == m.Shard \notin s.MyShards
      req   == [Shard |-> m.Shard, ConfigNum |-> m.ConfigNum]
      asked == {q \in s.ShardDataReqs : q.Shard = m.Shard}
  IN
  IF ~Expected(s, m) THEN s
  ELSE [s EXCEPT
          !.MyShards = @ \cup {m.Shard},
          !.Data     = [k \in Key |-> IF fresh /\ k \in DOMAIN m.Data THEN m.Data[k] ELSE @[k]],
          !.LastOp   = IF fresh THEN Merge(@, m.LastOperation) ELSE @,
          !.ShardDataReqs = @ \ asked,
          !.GCList   = IF asked = {} THEN @ ELSE @ \cup {req}]

\* Mutant of execGC: the copy of a later loss of the shard is deleted, too.
execGC_Shard(s, c) ==
  [s EXCEPT !.DataForMigration = {d \in @ : d.Shard # c.Shard}]

execGC(s, c) ==
  [s EXCEPT !.DataForMigration =
     {d \in @ : d.ConfigNum # c.ConfigNum \/ d.Shard # c.Shard}]

\* execCommand() on the state s of a replica of group g.
execCommand(s, g, c) ==
  LET t == CASE c.type = "config"  -> execApplyConfig(s, g, c.Num)
             [] c.type = "migrate" -> execMigrationDataSync(s, c)
             [] c.type = "gc"      -> execGC(s, c)
             [] c.type = "op"      -> execOp(s, c.op)
  IN  [t EXCEPT !.LastApplied = @ + 1]

-----------------------------------------------------------------------------
(***************************************************************************)
(* The goroutines of a replica.                                            *)
(***************************************************************************)

\* rf.Start(c) at a replica of group g that is its leader.
Start(g, c) == started' = [started EXCEPT ![g] = @ (+) SetToBag({c})]

\* A command with this property is in the log of g, or on its way there.
Pending(g, Test(_)) ==
  \/ \E c \in DOMAIN started[g] : Test(c)
  \/ \E i \in DOMAIN log[g] : Test(log[g][i])

\* kv.mu of r can be taken.
Free(r) == r \notin querying

\* sc.Query() is called with kv.mu held and does not return at once: the
\* controller has no leader, or calls to it are lost.
Query(r) ==
  /\ Free(r)
  /\ Event("query")
  /\ querying' = querying \cup {r}
  /\ UNCHANGED <<given, newest, groupVars, clerkVars>>

\* sc.Query() returns in tryReqShardData() or tryGC(), or in queryConfig() with
\* no later configuration.
QueryReturns(r) ==
  /\ r \in querying
  /\ querying' = querying \ {r}
  /\ UNCHANGED <<given, newest, groupVars, clerkVars, events>>

MayAdvance(s) == s.ShardDataReqs = {}

\* queryConfig(): nothing is executed between the test and Start(), however long
\* the query takes.  If r is no leader nothing happens.
queryConfig(r) ==
  LET next == kv[r].Config + 1 IN
  /\ MayAdvance(kv[r])
  /\ next <= newest
  /\ querying' = querying \ {r}
  /\ EventIf("config again", Pending(gid(r), LAMBDA c : c.type = "config" /\ c.Num = next))
  /\ Start(gid(r), [type |-> "config", Num |-> next])
  /\ UNCHANGED <<given, newest, log, final, kv, snapshot, gcCalls, clerkVars>>

\* Config.Groups[gid] for the group that has the shard in configuration num.
Owners(num, shard) ==
  UNION {ServersOf(g) : g \in {Shards(num)[shard]} \ {InvalidGid}}

\* MigrateShard() at a leader q: the reply, if the data is there.
MigrateShard(q, num, shard) ==
  {[type |-> "migrate", ConfigNum |-> num, Shard |-> shard,
    Data |-> d.Data, LastOperation |-> kv[q].LastOp] :
   d \in {d \in kv[q].DataForMigration :
            Free(q) /\ num <= kv[q].Config /\ d.ConfigNum = num /\ d.Shard = shard}}

\* tryReqShardData(): r asks the group that had the shard and starts the reply.
\* A call that fails is made again in the next round.  A reply that arrives after
\* another one was executed differs in nothing that its execution looks at.
tryReqShardData(r) ==
  /\ Free(r)
  /\ \E req \in kv[r].ShardDataReqs :
     \E q \in Owners(req.ConfigNum, req.Shard) :
     \E reply \in MigrateShard(q, req.ConfigNum, req.Shard) :
       /\ EventIf("data again", Pending(gid(r), LAMBDA c : /\ c.type = "migrate"
                                             /\ c.ConfigNum = req.ConfigNum
                                             /\ c.Shard = req.Shard))
       /\ Start(gid(r), reply)
  /\ UNCHANGED <<given, control, log, final, kv, snapshot, gcCalls, clerkVars>>

\* tryGC(), and GC() at a leader q of the former owner up to its wait.
tryGC(r) ==
  \E req \in kv[r].GCList :
  \E q \in Owners(req.ConfigNum, req.Shard) :
    LET call == [by |-> r, at |-> q, ConfigNum |-> req.ConfigNum, Shard |-> req.Shard,
                 done |-> FALSE]
    IN
    /\ Free(r)
    /\ \A c \in gcCalls : c.by # r \/ c.ConfigNum # req.ConfigNum \/ c.Shard # req.Shard
    /\ EventIf("gc again", Pending(gid(q), LAMBDA c : /\ c.type = "gc"
                                          /\ c.ConfigNum = req.ConfigNum
                                          /\ c.Shard = req.Shard))
    /\ gcCalls' = gcCalls \cup {call}
    /\ Start(gid(q), [type |-> "gc", ConfigNum |-> req.ConfigNum, Shard |-> req.Shard])
    /\ UNCHANGED <<given, control, log, final, kv, snapshot, clerkVars>>

\* The end of the call in tryGC(), or its timeout.  Only this replica forgets
\* the shard.
GCReply(r) ==
  \E c \in gcCalls :
    /\ c.by = r
    /\ gcCalls' = gcCalls \ {c}
    /\ \/ /\ c.done /\ Free(r)
          /\ kv' = [kv EXCEPT ![r].GCList = @ \ {[Shard |-> c.Shard, ConfigNum |-> c.ConfigNum]}]
          /\ UNCHANGED events
       \/ Event("timeout") /\ UNCHANGED kv
    /\ UNCHANGED <<given, control, started, log, final, snapshot, clerkVars>>

\* The handler of a clerk's RPC that started the command c.
HandlerOf(c) == {h \in requests : c.type = "op" /\ h.op = c.op /\ h.at = c.at /\ h.rpc = c.rpc}

\* The GC call g started the command c.
Collects(c, g) == c.type = "gc" /\ g.ConfigNum = c.ConfigNum /\ g.Shard = c.Shard

\* Who waits at r for the index of c is told what r executed there: c itself, or
\* that the shard of c has moved (ErrChangeGroup).  A handler of an older term
\* may wait for the same index and take the message; then the right one waits
\* in vain.
Notify(r, c) ==
  LET waiting == {h \in HandlerOf(c) : h.at = r /\ h.pc = "wait"}
      moved   == /\ ~Executed(kv[r], c.op)
                 /\ ~checkRightGroup(kv[r], KeyOf(c.op))
      told    == {[h EXCEPT !.pc = IF moved THEN "moved" ELSE "same"] : h \in waiting}
  IN
  /\ \/ requests' = (requests \ waiting) \cup told /\ UNCHANGED events
     \/ waiting # {} /\ requests' = requests \ waiting /\ Event("loss")
  /\ gcCalls' = {IF g.at = r /\ Collects(c, g)
                 THEN [g EXCEPT !.done = TRUE] ELSE g : g \in gcCalls}

\* applier(): the next command of the log.
applier(r) ==
  LET c == log[gid(r)][kv[r].LastApplied + 1] IN
  /\ Free(r)
  /\ kv[r].LastApplied < Len(log[gid(r)])
  /\ kv' = [kv EXCEPT ![r] = execCommand(@, gid(r), c)]
  /\ Notify(r, c)
  /\ UNCHANGED <<given, control, started, log, final, snapshot, NextCallID, config,
                 trying, rpc, answer>>

\* makeSnapshot(): the Raft peer ignores a snapshot no newer than its last.
makeSnapshot(r) ==
  /\ Free(r)
  /\ kv[r].LastApplied > snapshot[r].LastApplied
  /\ Event("snapshot")
  /\ snapshot' = [snapshot EXCEPT ![r] = kv[r]]
  /\ UNCHANGED <<given, control, started, log, final, kv, gcCalls, clerkVars>>

\* applySnapshot(): the Raft peer has saved the snapshot of p and passes it on.
\* Nobody is told of the commands in it: their handlers wait in vain.
applySnapshot(r, p) ==
  LET skipped == {log[gid(r)][i] : i \in kv[r].LastApplied + 1 .. snapshot[p].LastApplied} IN
  /\ Free(r)
  /\ gid(r) = gid(p)
  /\ snapshot[p].LastApplied > snapshot[r].LastApplied
  /\ snapshot' = [snapshot EXCEPT ![r] = snapshot[p]]
  /\ kv' = [kv EXCEPT ![r] =
              IF snapshot[p].LastApplied < @.LastApplied THEN @ ELSE snapshot[p]]
  /\ requests' = requests \ {h \in UNION {HandlerOf(c) : c \in skipped} : h.at = r /\ h.pc = "wait"}
  /\ gcCalls'  = {g \in gcCalls : \A c \in skipped : g.at # r \/ g.done \/ ~Collects(c, g)}
  /\ UNCHANGED <<given, control, started, log, final, NextCallID, config, trying, rpc, answer,
                 events>>

\* The process of r ends; StartServer() and restoreState() bring it back.
Crash(r) ==
  /\ Event("crash")
  /\ kv'       = [kv EXCEPT ![r] = snapshot[r]]
  /\ querying' = querying \ {r}
  /\ requests' = {h \in requests : h.at # r}
  /\ gcCalls'  = {c \in gcCalls : c.by # r /\ c.at # r}
  /\ UNCHANGED <<given, newest, started, log, final, snapshot, NextCallID, config, trying,
                 rpc, answer>>

-----------------------------------------------------------------------------
(***************************************************************************)
(* Raft and the shard controller, as the service sees them.                *)
(***************************************************************************)

Commit(g) ==
  \E c \in DOMAIN started[g] :
    /\ started' = [started EXCEPT ![g] = @ (-) SetToBag({c})]
    /\ log'     = [log EXCEPT ![g] = Append(@, c)]
    /\ final'   = [final EXCEPT ![g] = execCommand(@, g, c)]
    /\ UNCHANGED <<given, control, kv, snapshot, gcCalls, clerkVars, events>>

\* A leader fails before it has replicated c, and something else takes the index
\* of c: the handler is told so, perhaps by an ErrChangeGroup or by an operation
\* of the same client that equalOp() takes for c, or it waits in vain.
Lose(g) ==
  \E c \in DOMAIN started[g] :
    /\ Event("loss")
    /\ started' = [started EXCEPT ![g] = @ (-) SetToBag({c})]
    /\ gcCalls' = {k \in gcCalls : gid(k.at) # g \/ k.done \/ ~Collects(c, k)}
    /\ \/ requests' = requests \ HandlerOf(c)
       \/ \E pc \in {"moved", "same"} :
            requests' = (requests \ HandlerOf(c)) \cup {[h EXCEPT !.pc = pc] : h \in HandlerOf(c)}
    /\ UNCHANGED <<given, control, log, final, kv, snapshot, NextCallID, config, trying, rpc,
                   answer>>

\* Join, Leave or Move at the controller.
Reconfigure ==
  /\ newest < Len(history)
  /\ newest' = newest + 1
  /\ UNCHANGED <<given, querying, groupVars, clerkVars, events>>

-----------------------------------------------------------------------------
(***************************************************************************)
(* Clerk.Get() and Clerk.PutAppend(), and their handlers.                  *)
(***************************************************************************)

\* The operation of c that has not returned.
Current(c) == [ClientId |-> c, CallId |-> NextCallID[c] - 1]

\* Config.Groups[gid] in configuration n for the shard of op.
Servers(n, op) ==
  LET g == Shards(n)[key2shard[KeyOf(op)]] IN
  IF g = InvalidGid THEN <<>> ELSE servers[g]

\* Server number i of the list is called; after the last one the clerk asks the
\* controller, and starts again.
CallServer(c, n, op, i, number, others) ==
  LET list == Servers(n, op) IN
  IF i <= Len(list)
  THEN /\ trying'   = [trying EXCEPT ![c] = i]
       /\ requests' = others \cup {[op |-> op, at |-> list[i], rpc |-> number, pc |-> "sent"]}
  ELSE trying' = [trying EXCEPT ![c] = Asking] /\ requests' = others

Invoke(c) ==
  LET op == [ClientId |-> c, CallId |-> NextCallID[c]] IN
  /\ trying[c] = NotCalling
  /\ NextCallID[c] < Len(program[c])
  /\ NextCallID' = [NextCallID EXCEPT ![c] = @ + 1]
  /\ CallServer(c, config[c], op, 1, rpc[c], requests)
  /\ UNCHANGED <<given, control, groupVars, config, rpc, answer, events>>

\* Mutant of Latest: the clerk keeps its configuration once it has one.
Latest_Keep(c) == IF config[c] = 0 THEN newest ELSE config[c]

\* sm.Query(-1).
Latest(c) == newest

AskController(c) ==
  /\ trying[c] = Asking
  /\ config' = [config EXCEPT ![c] = Latest(c)]
  /\ CallServer(c, Latest(c), Current(c), 1, rpc[c], requests)
  /\ UNCHANGED <<given, control, groupVars, NextCallID, rpc, answer, events>>

\* The clerk still waits for the reply to h.
Awaited(h) ==
  LET c == h.op.ClientId IN
  trying[c] > 0 /\ h.op = Current(c) /\ h.rpc = rpc[c]

\* makeCall() returns false: a message is lost, or ClerkRPCTimeout passes.
CallFails(c) ==
  LET open == {h \in requests : h.op.ClientId = c /\ Awaited(h)}
      number == IF open = {} THEN rpc[c] ELSE rpc[c] + 1
  IN
  /\ trying[c] > 0
  /\ EventIf("timeout", open # {})
  /\ rpc' = [rpc EXCEPT ![c] = number]
  /\ CallServer(c, config[c], Current(c), trying[c] + 1, number, requests)
  /\ UNCHANGED <<given, control, groupVars, NextCallID, config, answer>>

\* The handler h ends with ErrWrongGroup: the clerk leaves its inner loop.
WrongGroup(h) ==
  /\ requests' = requests \ {h}
  /\ trying' = IF Awaited(h) THEN [trying EXCEPT ![h.op.ClientId] = Asking] ELSE trying

\* The handler h ends with ErrWrongLeader.
WrongLeader(h) ==
  LET c == h.op.ClientId IN
  IF Awaited(h)
  THEN CallServer(c, config[c], h.op, trying[c] + 1, rpc[c], requests \ {h})
  ELSE requests' = requests \ {h} /\ UNCHANGED trying

\* Get() and PutAppend(): checkRightGroup() and Start().
Receive(h) ==
  /\ h.pc = "sent" /\ Free(h.at)
  /\ \/ /\ ~checkRightGroup(kv[h.at], KeyOf(h.op))
        /\ WrongGroup(h)
        /\ UNCHANGED <<started, events>>
     \/ /\ checkRightGroup(kv[h.at], KeyOf(h.op))
        /\ Event("refusal")                             \* !isLeader
        /\ WrongLeader(h)
        /\ UNCHANGED started
     \/ /\ checkRightGroup(kv[h.at], KeyOf(h.op))
        /\ Start(gid(h.at), [type |-> "op", op |-> h.op, at |-> h.at, rpc |-> h.rpc])
        /\ requests' = (requests \ {h}) \cup {[h EXCEPT !.pc = "wait"]}
        /\ UNCHANGED <<trying, events>>
  /\ UNCHANGED <<given, control, log, final, kv, snapshot, gcCalls, NextCallID, config, rpc,
                 answer>>

\* The end of Get() and PutAppend(), after the wait.
Reply(h) ==
  LET c    == h.op.ClientId
      last == kv[h.at].LastOp[c]
  IN
  /\ Free(h.at)
  /\ \/ h.pc = "moved" /\ WrongGroup(h) /\ UNCHANGED answer
     \/ h.pc = "same" /\ last.CallId # h.op.CallId /\ WrongLeader(h) /\ UNCHANGED answer
     \/ /\ h.pc = "same" /\ last.CallId = h.op.CallId
        /\ requests' = requests \ {h}
        /\ IF Awaited(h)
           THEN /\ trying' = [trying EXCEPT ![c] = NotCalling]
                /\ answer' = [answer EXCEPT ![c] = last.Result]
           ELSE UNCHANGED <<trying, answer>>
  /\ UNCHANGED <<given, control, groupVars, NextCallID, config, rpc, events>>

-----------------------------------------------------------------------------

Init ==
  /\ \E x \in Scenarios :
       /\ servers = x.servers /\ program = x.program
       /\ history = x.history /\ faults  = x.faults
       /\ events  = x.events  /\ newest  = x.newest
  /\ started    = [g \in Group |-> EmptyBag]
  /\ log        = [g \in Group |-> <<>>]
  /\ final      = [g \in Group |-> NewServer]
  /\ kv         = [r \in Replica |-> NewServer]
  /\ snapshot   = [r \in Replica |-> NewServer]
  /\ gcCalls    = {}
  /\ querying   = {}
  /\ NextCallID = [c \in Client |-> 0]
  /\ config     = [c \in Client |-> 0]
  /\ trying     = [c \in Client |-> NotCalling]
  /\ rpc        = [c \in Client |-> 0]
  /\ requests   = {}
  /\ answer     = [c \in Client |-> <<>>]

Next ==
  \/ Reconfigure
  \/ \E g \in Group : Commit(g) \/ Lose(g)
  \/ \E r \in Server : \/ Query(r) \/ QueryReturns(r) \/ queryConfig(r)
                        \/ tryReqShardData(r) \/ tryGC(r) \/ GCReply(r)
                        \/ applier(r) \/ makeSnapshot(r) \/ Crash(r)
  \/ \E r, p \in Server : applySnapshot(r, p)
  \/ \E c \in Client : Invoke(c) \/ AskController(c) \/ CallFails(c)
  \/ \E h \in requests : Receive(h) \/ Reply(h)

\* The goroutines of the replicas and Raft go on, and so do the clerks with the
\* handlers of their calls.  The weakest form is enough: nothing is promised to
\* one replica, group or clerk while another one still moves.
Background ==
  \/ \E g \in Group : Commit(g)
  \/ \E r \in Server : \/ QueryReturns(r) \/ queryConfig(r)
                       \/ tryReqShardData(r) \/ tryGC(r) \/ GCReply(r)
                       \/ applier(r)

Calls ==
  \/ \E c \in Client : AskController(c) \/ CallFails(c)
  \/ \E h \in requests : Receive(h) \/ Reply(h)

Fairness == WF_vars(Background) /\ WF_vars(Calls)

Spec == Init /\ [][Next]_vars /\ Fairness

-----------------------------------------------------------------------------

\* No shard is served by two groups, however far apart their configurations are.
OneServer ==
  \A g, h \in Group : g # h => final[g].MyShards \cap final[h].MyShards = {}

\* While a group waits for a shard, the former owner has it still: it has not
\* given it up yet, or keeps the copy; GC never deletes the only one.
RequestedKept ==
  \A g \in Group : \A req \in final[g].ShardDataReqs :
    LET owner == Shards(req.ConfigNum)[req.Shard] IN
    owner # InvalidGid =>
      \/ final[owner].Config <= req.ConfigNum
      \/ \E d \in final[owner].DataForMigration :
           d.ConfigNum = req.ConfigNum /\ d.Shard = req.Shard

\* The group with the last word on the calls of c.
LastGroup(c) ==
  CHOOSE g \in Group :
    \A h \in Group : final[h].LastOp[c].CallId <= final[g].LastOp[c].CallId

\* The value of k: at the group that serves it, or in the newest copy.
ValueOf(k) ==
  LET serving == {g \in Group : checkRightGroup(final[g], k)}
      copies  == UNION {{d \in final[g].DataForMigration : d.Shard = key2shard[k]} :
                        g \in Group}
      latest  == {d \in copies : \A e \in copies : e.ConfigNum <= d.ConfigNum}
  IN  IF serving # {} THEN final[CHOOSE g \in serving : TRUE].Data[k]
      ELSE IF \E d \in latest : k \in DOMAIN d.Data
      THEN (CHOOSE d \in latest : TRUE).Data[k]
      ELSE <<>>

\* What a clerk is told of the value its operation finds.
Found(what, value) == IF what.kind = "Get" THEN value ELSE <<>>

Store == INSTANCE KVStore WITH
  Operation <- [kind : {"Get", "Put", "Append"}, key : Key],
  Result   <- Found,
  issued   <- NextCallID,
  executed <- [c \in Client |-> final[LastGroup(c)].LastOp[c].CallId + 1],
  returned <- [c \in Client |-> NextCallID[c] - (IF trying[c] = NotCalling THEN 0 ELSE 1)],
  value    <- [k \in Key |-> ValueOf(k)],
  seen     <- [c \in Client |-> final[LastGroup(c)].LastOp[c].Result]

\* The groups together implement one store: each operation takes effect once,
\* between its call and its return, although the clerk repeats it at several
\* groups, shards move with the knowledge of what was executed, replicas lag
\* behind, and servers lose what they know in crashes.
Linearizable == Store!Spec

\* In the end all replicas follow the newest configuration, serve exactly the
\* shards it gives them, and have no copy of a shard left to hand out.
ServesItsShards ==
  <>[](\A r \in Server :
         /\ kv[r].Config = newest
         /\ kv[r].MyShards = {s \in Shard : Shards(newest)[s] = gid(r)}
         /\ kv[r].DataForMigration = {})

\* Every call of a clerk returns once the faults end and the shard has an owner.
CallsReturn == \A c \in Client : trying[c] # NotCalling /\ newest > 0 ~> trying[c] = NotCalling

=============================================================================
