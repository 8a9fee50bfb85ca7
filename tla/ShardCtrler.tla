---------------------------- MODULE ShardCtrler ----------------------------
(***************************************************************************)
(* The shard controller of src/src/shardctrler as a replicated service:    *)
(* its clerks, the handlers of Join, Leave, Move and Query, and the        *)
(* goroutine that applies what Raft commits.  What a configuration says is *)
(* the business of module ShardBalance; here it is the sequence of the     *)
(* operations that led to it.  Raft is what the service sees: a leader's   *)
(* Start() puts an operation at an index of its log; there it is committed *)
(* later or never; and all servers receive the committed operations.       *)
(***************************************************************************)
EXTENDS Integers, Sequences, FiniteSets

CONSTANTS
  NServers,    \* len(servers); servers are 1 .. NServers
  Client,      \* clerks
  Scenarios    \* what clerks may call: clerk -> its operations, in order; and the
               \* bounds on what may go wrong

Join      == [kind |-> "Join",  Num |-> 0]
Leave     == [kind |-> "Leave", Num |-> 0]
Move      == [kind |-> "Move",  Num |-> 0]
Query(n)  == [kind |-> "Query", Num |-> n]
Operation == [kind : {"Join", "Leave", "Move", "Query"}, Num : Int]

ASSUME ServersAssumption == NServers \in Nat \ {0}
ASSUME ScenarioAssumption ==
  Scenarios \subseteq [program : [Client -> Seq(Operation)], events : Nat, restarts : Nat]

VARIABLES
  program,      \* the calls the clerks make in this behaviour
  started,      \* operations in some leader's log, with their index
  committed,    \* the committed log
  final,        \* history: the configs and lastOp that the whole log leads to
  configs,      \* server -> operations that made its configurations 1, 2, ...
  lastOp,       \* server -> client -> CallId and Config of its last operation
  lastApplied,
  executing,    \* server -> applier() is between lastApplied++ and execOp()
  handlers,     \* running RPC handlers
  NextCallID,
  lastLeader,
  trying,       \* 0: in no call; else the clerk calls this server
  fromLeader,   \* the call is the one to lastLeader, before the loop
  rpc,          \* clerk -> RPCs it gave up
  answer,       \* clerk -> the configuration its last call returned
  events,       \* bound: calls that fail or are refused, and changes of leaders
                \* that lose operations, still to come
  restarts      \* bound: restarts still to come

raftVars  == <<started, committed, final>>
stateVars == <<configs, lastOp, lastApplied, executing>>
clerkVars == <<NextCallID, lastLeader, trying, fromLeader, rpc, answer>>
bounds    == <<events, restarts>>
vars      == <<program, raftVars, stateVars, handlers, clerkVars, bounds>>

Server        == 1 .. NServers
InvalidServer == 0
NoOp          == [CallId |-> -1, Config |-> <<>>]   \* no entry in lastOp

Event == events > 0 /\ events' = events - 1

What(op) == program[op.ClientId][op.CallId + 1]

-----------------------------------------------------------------------------
(***************************************************************************)
(* Clerk.Query(), Join(), Leave() and Move().                              *)
(***************************************************************************)

Current(c) == [ClientId |-> c, CallId |-> NextCallID[c] - 1]

\* The clerk still waits for the reply of h.
Awaited(h) ==
  LET c == h.op.ClientId IN
  trying[c] # 0 /\ h.op = Current(c) /\ h.rpc = rpc[c]

CallServer(c, op, s, number, others) ==
  /\ trying'   = [trying EXCEPT ![c] = s]
  /\ handlers' = others \cup {[op |-> op, server |-> s, rpc |-> number, pc |-> "check", index |-> 0]}

\* The top of the loop: lastLeader first, if there is one.
FirstServer(c) == IF lastLeader[c] # InvalidServer THEN lastLeader[c] ELSE 1

Invoke(c) ==
  /\ trying[c] = 0
  /\ NextCallID[c] < Len(program[c])
  /\ NextCallID' = [NextCallID EXCEPT ![c] = @ + 1]
  /\ fromLeader' = [fromLeader EXCEPT ![c] = lastLeader[c] # InvalidServer]
  /\ CallServer(c, [ClientId |-> c, CallId |-> NextCallID[c]], FirstServer(c), rpc[c], handlers)
  /\ UNCHANGED <<program, raftVars, stateVars, lastLeader, rpc, answer, bounds>>

\* The server called after this one.
NextServer(c) ==
  IF fromLeader[c] THEN 1
  ELSE IF trying[c] = NServers THEN FirstServer(c)
  ELSE trying[c] + 1

\* The call has failed; the other handlers go on.
CallNext(c, number, others) ==
  /\ fromLeader' = [fromLeader EXCEPT ![c] = /\ ~fromLeader[c] /\ trying[c] = NServers
                                             /\ lastLeader[c] # InvalidServer]
  /\ CallServer(c, Current(c), NextServer(c), number, others)

\* What the handler h sleeps for may still happen.
MayWake(h) ==
  \/ h.pc # "asleep"
  \/ h.index > Len(committed) /\ [op |-> h.op, index |-> h.index] \in started
  \/ /\ h.index \in DOMAIN committed
     /\ lastApplied[h.server] < h.index \/ executing[h.server]
     /\ lastOp[h.server][h.op.ClientId].CallId < h.op.CallId

\* Mutant of CallFails: no ClerkRPCTimeout.
CallFails_NoTimeout(c) ==
  /\ trying[c] # 0
  /\ \A h \in handlers : ~Awaited(h) \/ h.op.ClientId # c
  /\ CallNext(c, rpc[c], handlers)
  /\ UNCHANGED <<program, raftVars, stateVars, NextCallID, lastLeader, rpc, answer, bounds>>

\* makeCall() returns false: a message is lost, or ClerkRPCTimeout passes.
CallFails(c) ==
  LET open   == {h \in handlers : Awaited(h) /\ h.op.ClientId = c}
      number == IF open = {} THEN rpc[c] ELSE rpc[c] + 1
  IN
  /\ trying[c] # 0
  /\ IF \E h \in open : MayWake(h) THEN Event ELSE UNCHANGED events
  /\ rpc' = [rpc EXCEPT ![c] = number]
  /\ CallNext(c, number, handlers)
  /\ UNCHANGED <<program, raftVars, stateVars, NextCallID, lastLeader, answer, restarts>>

-----------------------------------------------------------------------------
(***************************************************************************)
(* The RPC handlers.                                                       *)
(***************************************************************************)

\* Another operation has got the index of h.
Superseded(h) == h.index \in DOMAIN committed /\ committed[h.index] # h.op

\* The handler h ends with WrongLeader.
WrongLeader(h) ==
  LET c == h.op.ClientId IN
  /\ IF Awaited(h) /\ ~Superseded(h) THEN Event ELSE UNCHANGED events
  /\ IF Awaited(h) THEN CallNext(c, rpc[c], handlers \ {h})
     ELSE handlers' = handlers \ {h} /\ UNCHANGED <<trying, fromLeader>>
  /\ UNCHANGED <<NextCallID, lastLeader, rpc, answer>>

\* The handler h ends with the Config of lastOp, which only Query looks at.  The
\* server is remembered if it was called in the loop.
Succeed(h) ==
  LET c == h.op.ClientId IN
  /\ handlers' = handlers \ {h}
  /\ IF Awaited(h)
     THEN /\ trying'     = [trying EXCEPT ![c] = 0]
          /\ lastLeader' = [lastLeader EXCEPT ![c] = IF fromLeader[c] THEN @ ELSE h.server]
          /\ answer'     = [answer EXCEPT ![c] = lastOp[h.server][c].Config]
     ELSE UNCHANGED <<trying, lastLeader, answer>>
  /\ UNCHANGED <<NextCallID, fromLeader, rpc, events>>

GoTo(h, pc, index) ==
  /\ handlers' = (handlers \ {h}) \cup {[h EXCEPT !.pc = pc, !.index = index]}
  /\ UNCHANGED clerkVars

Step(h, pc, index) == GoTo(h, pc, index) /\ UNCHANGED events

LastCall(h) == lastOp[h.server][h.op.ClientId].CallId

checkExecuted(h) ==
  /\ h.pc = "check"
  /\ \/ LastCall(h) = h.op.CallId /\ Succeed(h)
     \/ LastCall(h) > h.op.CallId /\ WrongLeader(h)
     \/ LastCall(h) < h.op.CallId /\ Step(h, "start", 0)
  /\ UNCHANGED <<program, raftVars, stateVars, restarts>>

\* The end of the longest log of a leader.
LastIndex == Len(committed) + Cardinality({e.index : e \in started})

\* rf.Start(op), without the lock.  The log of a leader holds all that is
\* committed, and all or (after a change of leaders) some of what is not.
Start(h) ==
  /\ h.pc = "start"
  /\ \/ WrongLeader(h) /\ UNCHANGED started          \* !isLeader
     \/ \E i \in Len(committed) + 1 .. LastIndex + 1 :
          /\ started' = started \cup {[op |-> h.op, index |-> i]}
          /\ GoTo(h, "test", i)
          /\ IF i = LastIndex + 1 THEN UNCHANGED events ELSE Event
  /\ UNCHANGED <<program, committed, final, stateVars, restarts>>

\* Mutant of Answer: what has reached lastApplied counts as executed.
Answer_Applied(h, sameTerm) ==
  \/ sameTerm /\ Succeed(h)
  \/ ~sameTerm /\ WrongLeader(h)

\* The reply after the wait.
Answer(h, sameTerm) ==
  LET mine == LastCall(h) = h.op.CallId IN
  \/ sameTerm /\ mine /\ Succeed(h)
  \/ ~(sameTerm /\ mine) /\ WrongLeader(h)

\* check(), notifyCond.Wait() as long as it says so, and the reply.  GetState()
\* is called twice: the term may change after the wait has ended.
Wait(h) ==
  \E before, after \in BOOLEAN :
    LET goOn == before /\ lastApplied[h.server] < h.index IN
    /\ h.pc = "test"
    /\ after => before
    /\ \/ goOn /\ Step(h, "asleep", h.index)
       \/ ~goOn /\ Answer(h, after)
    /\ UNCHANGED <<program, raftVars, stateVars, restarts>>

-----------------------------------------------------------------------------
(***************************************************************************)
(* applier().                                                              *)
(***************************************************************************)

\* The first critical section.
Advance(s) ==
  /\ ~executing[s]
  /\ lastApplied[s] < Len(committed)
  /\ lastApplied' = [lastApplied EXCEPT ![s] = @ + 1]
  /\ executing'   = [executing EXCEPT ![s] = TRUE]
  /\ UNCHANGED <<program, raftVars, configs, lastOp, handlers, clerkVars, bounds>>

Executed(last, op) == last[op.ClientId].CallId >= op.CallId

\* The configuration that a query for n gets.
Selected(n, made) == IF n = -1 \/ n > Len(made) THEN made ELSE SubSeq(made, 1, n)

\* execJoin(), execLeave(), execMove() and execQuery().
NewConfigs(made, op) == IF What(op).kind = "Query" THEN made ELSE Append(made, op)

Record(last, made, op) ==
  [last EXCEPT ![op.ClientId] =
     [CallId |-> op.CallId,
      Config |-> IF What(op).kind = "Query" THEN Selected(What(op).Num, made) ELSE <<>>]]

\* notifyCond.Broadcast() at server s.
Broadcast(s) ==
  handlers' = {IF h.server = s /\ h.pc = "asleep" THEN [h EXCEPT !.pc = "test"] ELSE h :
               h \in handlers}

\* execOp(): a repetition wakes nobody.
execOp(s) ==
  LET op == committed[lastApplied[s]] IN
  /\ executing[s]
  /\ executing' = [executing EXCEPT ![s] = FALSE]
  /\ \/ /\ Executed(lastOp[s], op)
        /\ UNCHANGED <<configs, lastOp, handlers>>
     \/ /\ ~Executed(lastOp[s], op)
        /\ configs' = [configs EXCEPT ![s] = NewConfigs(@, op)]
        /\ lastOp'  = [lastOp EXCEPT ![s] = Record(@, configs[s], op)]
        /\ Broadcast(s)
  /\ UNCHANGED <<program, raftVars, lastApplied, clerkVars, bounds>>

\* The process of s ends.  There are no snapshots: StartServer() begins with
\* configuration 0, and the log is applied again.
Crash(s) ==
  /\ restarts > 0 /\ restarts' = restarts - 1
  /\ configs'     = [configs EXCEPT ![s] = <<>>]
  /\ lastOp'      = [lastOp EXCEPT ![s] = [c \in Client |-> NoOp]]
  /\ lastApplied' = [lastApplied EXCEPT ![s] = 0]
  /\ executing'   = [executing EXCEPT ![s] = FALSE]
  /\ handlers'    = {h \in handlers : h.server # s}
  /\ UNCHANGED <<program, raftVars, clerkVars, events>>

\* Raft, as the service sees it.
Commit ==
  \E e \in started :
    /\ e.index = Len(committed) + 1
    /\ committed' = Append(committed, e.op)
    /\ started'   = {f \in started : f.index > e.index}
    /\ final'     = IF Executed(final.lastOp, e.op) THEN final
                    ELSE [configs |-> NewConfigs(final.configs, e.op),
                          lastOp  |-> Record(final.lastOp, final.configs, e.op)]
    /\ UNCHANGED <<program, stateVars, handlers, clerkVars, bounds>>

-----------------------------------------------------------------------------

Init ==
  /\ \E x \in Scenarios : program = x.program /\ events = x.events /\ restarts = x.restarts
  /\ started     = {}
  /\ committed   = <<>>
  /\ final       = [configs |-> <<>>, lastOp |-> [c \in Client |-> NoOp]]
  /\ configs     = [s \in Server |-> <<>>]
  /\ lastOp      = [s \in Server |-> [c \in Client |-> NoOp]]
  /\ lastApplied = [s \in Server |-> 0]
  /\ executing   = [s \in Server |-> FALSE]
  /\ handlers    = {}
  /\ NextCallID  = [c \in Client |-> 0]
  /\ lastLeader  = [c \in Client |-> InvalidServer]
  /\ trying      = [c \in Client |-> 0]
  /\ fromLeader  = [c \in Client |-> FALSE]
  /\ rpc         = [c \in Client |-> 0]
  /\ answer      = [c \in Client |-> <<>>]

Next ==
  \/ Commit
  \/ \E c \in Client : Invoke(c) \/ CallFails(c)
  \/ \E h \in handlers : checkExecuted(h) \/ Start(h) \/ Wait(h)
  \/ \E s \in Server : Advance(s) \/ execOp(s) \/ Crash(s)

\* Raft and the servers go on, and so do the clerks and their handlers.
Fairness ==
  /\ WF_vars(Commit \/ \E s \in Server : Advance(s) \/ execOp(s))
  /\ WF_vars(\/ \E c \in Client : CallFails(c)
             \/ \E h \in handlers : checkExecuted(h) \/ Start(h) \/ Wait(h))

Spec == Init /\ [][Next]_vars /\ Fairness

-----------------------------------------------------------------------------

\* Servers, handlers and clerks have their types; a server has a configuration
\* for each operation of its log that asks for one, and no more.
TypeOK ==
  /\ \A s \in Server :
       /\ lastApplied[s] \in 0 .. Len(committed)
       /\ Len(configs[s]) <= lastApplied[s]
       /\ \A c \in Client : lastOp[s][c].CallId \in -1 .. NextCallID[c] - 1
  /\ \A h \in handlers :
       /\ h.server \in Server /\ h.rpc \in 0 .. rpc[h.op.ClientId]
       /\ h.pc \in {"check", "start", "test", "asleep"} /\ h.index \in Nat
  /\ \A c \in Client : {trying[c], lastLeader[c]} \subseteq 0 .. NServers

Found(what, made) == IF what.kind = "Get" THEN Selected(what.Num, made) ELSE <<>>

Store == INSTANCE KVStore WITH
  Key       <- {"configs"},
  Operation <- [kind : {"Get", "Append"}, key : {"configs"}, Num : Int],
  Result    <- Found,
  program   <- [c \in Client |-> [i \in DOMAIN program[c] |->
                 [kind |-> IF program[c][i].kind = "Query" THEN "Get" ELSE "Append",
                  key  |-> "configs", Num |-> program[c][i].Num]]],
  issued    <- NextCallID,
  executed  <- [c \in Client |-> final.lastOp[c].CallId + 1],
  returned  <- [c \in Client |-> NextCallID[c] - (IF trying[c] = 0 THEN 0 ELSE 1)],
  value     <- [k \in {"configs"} |-> final.configs],
  seen      <- [c \in Client |-> final.lastOp[c].Config]

\* The controller is one sequence of configurations: every Join, Leave and Move
\* adds one, once, between its call and its return, and a Query returns the one
\* asked for, or the newest at a moment of its call.  lastApplied runs ahead of
\* what is executed, calls are repeated at other servers, and servers restart.
Linearizable == Store!Spec

\* Every call returns, although a handler whose operation turns out to be a
\* repetition, or loses its index, is never woken: the clerk gives it up.
CallsReturn == \A c \in Client : trying[c] # 0 ~> trying[c] = 0

=============================================================================
