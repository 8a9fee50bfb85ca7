------------------------------- MODULE KVRaft -------------------------------
(***************************************************************************)
(* The key/value service of src/src/kvraft: clerks that repeat a call at   *)
(* one server after the other until it succeeds, handlers that wait for    *)
(* their operation to be executed, and the replicas that execute what Raft *)
(* commits.  Raft is what the service sees: Start() takes an operation     *)
(* or says that the server is no leader; GetState() says that the term of  *)
(* Start() still lasts, or not; an operation it took may be committed      *)
(* later, once, or never; and all replicas receive the same committed      *)
(* operations in the same order.  There is one key: operations on          *)
(* different keys do not interfere.                                        *)
(***************************************************************************)
EXTENDS Integers, Sequences

CONSTANTS
  NServers,    \* len(servers); servers are 1 .. NServers
  Client,      \* clerks
  Scenarios    \* what clerks may call: clerk -> its operations, in order; and the
               \* bound on what may go wrong

ASSUME ScenarioAssumption ==
  Scenarios \subseteq [program : [Client -> Seq({"Get", "Put", "Append"})], events : Nat]
ASSUME ServersAssumption == NServers \in Nat \ {0}

VARIABLES
  program,           \* the calls the clerks make in this behaviour
  started,           \* operation -> how often it is in some leader's log, not committed
  committed,         \* the committed log
  states,            \* history: states[n + 1] is the Data and LastOp that the first n
                     \* committed operations lead to
  Data,              \* value of the key, as the sequence of values put together
  LastOp,            \* client -> CallId and Result of its last operation
  LastApplied,
  snapshot,          \* the snapshot in the server's persister
  handlers,          \* running RPC handlers
  NextCallID,
  lastLeader,
  trying,            \* 0: in no call; else the clerk's loop calls this server
  fromLeader,        \* the call is the one to lastLeader, before the loop
  rpc,               \* clerk -> RPCs it gave up
  answer,            \* what the clerk's last call returned
  events             \* bound: calls that fail or are refused, operations that are
                     \* lost, snapshots and restarts still to come

raftVars   == <<started, committed, states>>
stateVars  == <<Data, LastOp, LastApplied, snapshot>>
clerkVars  == <<NextCallID, lastLeader, trying, fromLeader, rpc, answer>>
vars       == <<program, raftVars, stateVars, handlers, clerkVars, events>>

Server        == 1 .. NServers
InvalidServer == 0
NoOp          == [CallId |-> -1, Result |-> <<>>]   \* no entry in LastOp

Event == events > 0 /\ events' = events - 1

Kind(op) == program[op.ClientId][op.CallId + 1]

-----------------------------------------------------------------------------
(***************************************************************************)
(* Clerk.Get() and Clerk.PutAppend().                                      *)
(***************************************************************************)

\* The operation of c that has not returned.
Current(c) == [ClientId |-> c, CallId |-> NextCallID[c] - 1]

\* The clerk still waits for the reply of h.
Awaited(h) ==
  LET c == h.op.ClientId IN
  trying[c] # 0 /\ h.op = Current(c) /\ h.rpc = rpc[c]

\* call().
Call(c, op, s, number, others) ==
  /\ trying'   = [trying EXCEPT ![c] = s]
  /\ handlers' = others \cup {[op |-> op, server |-> s, rpc |-> number, pc |-> "check"]}

\* The top of the loop: lastLeader first, if there is one.
FirstServer(c) == IF lastLeader[c] # InvalidServer THEN lastLeader[c] ELSE 1

Invoke(c) ==
  /\ trying[c] = 0
  /\ NextCallID[c] < Len(program[c])
  /\ NextCallID' = [NextCallID EXCEPT ![c] = @ + 1]
  /\ fromLeader' = [fromLeader EXCEPT ![c] = lastLeader[c] # InvalidServer]
  /\ Call(c, [ClientId |-> c, CallId |-> NextCallID[c]], FirstServer(c), rpc[c], handlers)
  /\ UNCHANGED <<program, raftVars, stateVars, lastLeader, rpc, answer, events>>

\* The call has failed; the next server is called, and the other handlers go on.
CallNext(c, number, others) ==
  LET restart == ~fromLeader[c] /\ trying[c] = NServers IN
  /\ fromLeader' = [fromLeader EXCEPT ![c] = restart /\ lastLeader[c] # InvalidServer]
  /\ Call(c, Current(c),
          IF fromLeader[c] THEN 1
          ELSE IF restart THEN FirstServer(c)
          ELSE trying[c] + 1,
          number, others)

\* What the handler h sleeps for may still happen.
MayWake(h) ==
  \/ h.pc # "asleep"
  \/ /\ LastOp[h.server][h.op.ClientId].CallId < h.op.CallId
     /\ \/ h.op \in DOMAIN started
        \/ \E i \in LastApplied[h.server] + 1 .. Len(committed) : committed[i] = h.op

\* Mutant of CallFails: no RPCTimeout.
CallFails_NoTimeout(c) ==
  /\ trying[c] # 0
  /\ \A h \in handlers : ~Awaited(h) \/ h.op.ClientId # c
  /\ CallNext(c, rpc[c], handlers)
  /\ UNCHANGED <<program, raftVars, stateVars, NextCallID, lastLeader, rpc, answer, events>>

\* call() returns false: a message is lost, or RPCTimeout passes.
CallFails(c) ==
  LET open   == {h \in handlers : Awaited(h) /\ h.op.ClientId = c}
      number == IF open = {} THEN rpc[c] ELSE rpc[c] + 1
  IN
  /\ trying[c] # 0
  /\ IF \E h \in open : MayWake(h) THEN Event ELSE UNCHANGED events
  /\ rpc' = [rpc EXCEPT ![c] = number]
  /\ CallNext(c, number, handlers)
  /\ UNCHANGED <<program, raftVars, stateVars, NextCallID, lastLeader, answer>>

-----------------------------------------------------------------------------
(***************************************************************************)
(* KVServer.Get(), Put() and Append().                                     *)
(***************************************************************************)

\* The handler h ends with ErrWrongLeader.
WrongLeader(h) ==
  LET c == h.op.ClientId IN
  /\ \/ Awaited(h) /\ Event /\ CallNext(c, rpc[c], handlers \ {h})
     \/ /\ ~Awaited(h)
        /\ handlers' = handlers \ {h}
        /\ UNCHANGED <<trying, fromLeader, events>>
  /\ UNCHANGED <<NextCallID, lastLeader, rpc, answer>>

\* The handler h ends with OK and the result in LastOp.
Succeed(h) ==
  LET c == h.op.ClientId IN
  /\ handlers' = handlers \ {h}
  /\ IF Awaited(h)
     THEN /\ trying'     = [trying EXCEPT ![c] = 0]
          /\ lastLeader' = [lastLeader EXCEPT ![c] = trying[c]]
          /\ answer'     = [answer EXCEPT ![c] = LastOp[h.server][c].Result]
     ELSE UNCHANGED <<trying, lastLeader, answer>>
  /\ UNCHANGED <<NextCallID, fromLeader, rpc, events>>

Step(h, pc) ==
  /\ handlers' = (handlers \ {h}) \cup {[h EXCEPT !.pc = pc]}
  /\ UNCHANGED <<clerkVars, events>>

\* The first critical section: an operation executed before is not started.
CheckExecuted(h) ==
  LET last == LastOp[h.server][h.op.ClientId].CallId IN
  /\ h.pc = "check"
  /\ \/ last = h.op.CallId /\ Succeed(h)
     \/ last > h.op.CallId /\ WrongLeader(h)
     \/ last < h.op.CallId /\ Step(h, "start")
  /\ UNCHANGED <<program, raftVars, stateVars>>

\* started with one more op.
OneMore(op) ==
  [o \in DOMAIN started \cup {op} |->
     (IF o \in DOMAIN started THEN started[o] ELSE 0) + (IF o = op THEN 1 ELSE 0)]

\* rf.Start(op), without the lock.
Start(h) ==
  /\ h.pc = "start"
  /\ \/ WrongLeader(h) /\ UNCHANGED started          \* !isLeader
     \/ started' = OneMore(h.op) /\ Step(h, "test")
  /\ UNCHANGED <<program, committed, states, stateVars>>

\* Mutant of Answer: whatever ended the wait, the reply is OK.
Answer_Unchecked(h, sameTerm) == Succeed(h)

\* The reply after the wait.
Answer(h, sameTerm) ==
  LET mine == LastOp[h.server][h.op.ClientId].CallId = h.op.CallId IN
  \/ sameTerm /\ mine /\ Succeed(h)
  \/ ~(sameTerm /\ mine) /\ WrongLeader(h)

\* Check(), applyCond.Wait() as long as it says so, and the reply.  GetState()
\* is called twice: the term may change after the wait has ended.
Wait(h) ==
  \E before, after \in BOOLEAN :
    LET goOn == before /\ LastOp[h.server][h.op.ClientId].CallId < h.op.CallId IN
    /\ h.pc = "test"
    /\ after => before
    /\ \/ goOn /\ Step(h, "asleep")
       \/ ~goOn /\ Answer(h, after)
    /\ UNCHANGED <<program, raftVars, stateVars>>

Handle(h) == CheckExecuted(h) \/ Start(h) \/ Wait(h)

\* The three RPCs.  Put and Append have no use for the result.
GetRPC(h)    == Kind(h.op) = "Get" /\ Handle(h)
PutRPC(h)    == Kind(h.op) = "Put" /\ Handle(h)
AppendRPC(h) == Kind(h.op) = "Append" /\ Handle(h)

-----------------------------------------------------------------------------
(***************************************************************************)
(* applier().                                                              *)
(***************************************************************************)

\* applyCond.Broadcast() at server s.
Broadcast(s) ==
  handlers' = {IF h.server = s /\ h.pc = "asleep" THEN [h EXCEPT !.pc = "test"] ELSE h :
               h \in handlers}

\* The value of the key after op was executed on value.
Effect(value, op) ==
  CASE Kind(op) = "Get"    -> value
    [] Kind(op) = "Put"    -> <<op>>
    [] Kind(op) = "Append" -> Append(value, op)

Executed(last, op) == last[op.ClientId].CallId >= op.CallId

\* LastOp after op was executed on value.
Record(last, value, op) ==
  [last EXCEPT ![op.ClientId] = [CallId |-> op.CallId,
                                 Result |-> IF Kind(op) = "Get" THEN value ELSE <<>>]]

execOp(s) ==
  LET op == committed[LastApplied[s] + 1] IN
  /\ LastApplied[s] < Len(committed)
  /\ LastApplied' = [LastApplied EXCEPT ![s] = @ + 1]
  /\ \/ /\ Executed(LastOp[s], op)
        /\ UNCHANGED <<Data, LastOp, handlers>>
     \/ /\ ~Executed(LastOp[s], op)
        /\ Data'   = [Data EXCEPT ![s] = Effect(@, op)]
        /\ LastOp' = [LastOp EXCEPT ![s] = Record(@, Data[s], op)]
        /\ Broadcast(s)
  /\ UNCHANGED <<program, raftVars, snapshot, clerkVars, events>>

Saved(s) == [LastApplied |-> LastApplied[s], Data |-> Data[s], LastOp |-> LastOp[s]]

\* makeSnapshot(): the Raft peer ignores a snapshot no newer than its last.
makeSnapshot(s) ==
  /\ LastApplied[s] > snapshot[s].LastApplied
  /\ Event
  /\ snapshot' = [snapshot EXCEPT ![s] = Saved(s)]
  /\ UNCHANGED <<program, raftVars, Data, LastOp, LastApplied, handlers, clerkVars>>

\* Mutant of Load: what was executed is not restored.
Load_DataOnly(s, saved) ==
  /\ LastApplied' = [LastApplied EXCEPT ![s] = saved.LastApplied]
  /\ Data'        = [Data EXCEPT ![s] = saved.Data]
  /\ UNCHANGED LastOp

Load(s, saved) ==
  /\ LastApplied' = [LastApplied EXCEPT ![s] = saved.LastApplied]
  /\ Data'        = [Data EXCEPT ![s] = saved.Data]
  /\ LastOp'      = [LastOp EXCEPT ![s] = saved.LastOp]

\* applySnapshot(): the Raft peer has saved the snapshot of p and passes it on.
\* Nobody is woken.
applySnapshot(s, p) ==
  /\ snapshot[p].LastApplied > snapshot[s].LastApplied
  /\ snapshot' = [snapshot EXCEPT ![s] = snapshot[p]]
  /\ \/ snapshot[p].LastApplied < LastApplied[s] /\ UNCHANGED <<Data, LastOp, LastApplied>>
     \/ snapshot[p].LastApplied >= LastApplied[s] /\ Load(s, snapshot[p])
  /\ UNCHANGED <<program, raftVars, handlers, clerkVars, events>>

\* The process of s ends; StartKVServer() and restoreState() bring it back.
Crash(s) ==
  /\ Event
  /\ handlers' = {h \in handlers : h.server # s}
  /\ Load(s, snapshot[s])
  /\ UNCHANGED <<program, raftVars, snapshot, clerkVars>>

-----------------------------------------------------------------------------
(***************************************************************************)
(* Raft, as the service sees it.                                           *)
(***************************************************************************)

\* started with one op less.
OneLess(op) ==
  [o \in {x \in DOMAIN started : x # op \/ started[x] > 1} |->
     started[o] - (IF o = op THEN 1 ELSE 0)]

\* The Data and LastOp that the whole log leads to.
final == states[Len(states)]

\* The Data and LastOp that op leads to.
After(state, op) ==
  IF Executed(state.LastOp, op) THEN state
  ELSE [Data   |-> Effect(state.Data, op),
        LastOp |-> Record(state.LastOp, state.Data, op)]

Commit(op) ==
  /\ committed' = Append(committed, op)
  /\ states'    = Append(states, After(final, op))
  /\ started'   = OneLess(op)
  /\ UNCHANGED <<program, stateVars, handlers, clerkVars, events>>

\* A new leader does not have it.
Lose(op) ==
  /\ Event
  /\ started' = OneLess(op)
  /\ UNCHANGED <<program, committed, states, stateVars, handlers, clerkVars>>

-----------------------------------------------------------------------------

Init ==
  /\ \E x \in Scenarios : program = x.program /\ events = x.events
  /\ started     = [o \in {} |-> 0]
  /\ committed   = <<>>
  /\ states      = <<[Data |-> <<>>, LastOp |-> [c \in Client |-> NoOp]]>>
  /\ Data        = [s \in Server |-> <<>>]
  /\ LastOp      = [s \in Server |-> [c \in Client |-> NoOp]]
  /\ LastApplied = [s \in Server |-> 0]
  /\ snapshot    = [s \in Server |-> Saved(s)]
  /\ handlers    = {}
  /\ NextCallID  = [c \in Client |-> 0]
  /\ lastLeader  = [c \in Client |-> InvalidServer]
  /\ trying      = [c \in Client |-> 0]
  /\ fromLeader  = [c \in Client |-> FALSE]
  /\ rpc         = [c \in Client |-> 0]
  /\ answer      = [c \in Client |-> <<>>]

Next ==
  \/ \E c \in Client : Invoke(c) \/ CallFails(c)
  \/ \E h \in handlers : GetRPC(h) \/ PutRPC(h) \/ AppendRPC(h)
  \/ \E s \in Server : execOp(s) \/ makeSnapshot(s) \/ Crash(s)
  \/ \E s, p \in Server : applySnapshot(s, p)
  \/ \E op \in DOMAIN started : Commit(op) \/ Lose(op)

\* Raft and the replicas go on, and so do the clerks and their handlers.
Fairness ==
  /\ WF_vars(\/ \E op \in DOMAIN started : Commit(op)
             \/ \E s \in Server : execOp(s))
  /\ WF_vars(\/ \E c \in Client : CallFails(c)
             \/ \E h \in handlers : GetRPC(h) \/ PutRPC(h) \/ AppendRPC(h))

Spec == Init /\ [][Next]_vars /\ Fairness

-----------------------------------------------------------------------------

Op      == [ClientId : Client, CallId : Nat]
Value   == Seq(Op)
LastOps == [Client -> [CallId : Nat \cup {-1}, Result : Value]]

\* Servers, handlers and clerks have their types.
TypeOK ==
  /\ program \in [Client -> Seq({"Get", "Put", "Append"})] /\ events \in Nat
  /\ DOMAIN started \subseteq Op /\ committed \in Seq(Op)
  /\ states \in Seq([Data : Value, LastOp : LastOps])
  /\ Data \in [Server -> Value] /\ LastOp \in [Server -> LastOps]
  /\ LastApplied \in [Server -> Nat]
  /\ snapshot \in [Server -> [LastApplied : Nat, Data : Value, LastOp : LastOps]]
  /\ handlers \subseteq [op : Op, server : Server, rpc : Nat,
                         pc : {"check", "start", "test", "asleep"}]
  /\ NextCallID \in [Client -> Nat] /\ rpc \in [Client -> Nat]
  /\ lastLeader \in [Client -> 0 .. NServers] /\ trying \in [Client -> 0 .. NServers]
  /\ fromLeader \in [Client -> BOOLEAN] /\ answer \in [Client -> Value]

\* op is one of the first n committed operations.
Holds(n, op) == \E p \in 1 .. n : committed[p] = op

\* The value of the key as the committed log says: each operation has its effect
\* where it stands first in the log, and nowhere else.
FirstCounts ==
  /\ states[1].Data = <<>>
  /\ \A n \in 1 .. Len(committed) :
       states[n + 1].Data = IF Holds(n - 1, committed[n]) THEN states[n].Data
                            ELSE Effect(states[n].Data, committed[n])

\* entry is what LastOp has to hold for client c after the first n committed
\* operations: its last call, and what a Get found where it stood first in the log.
EntryRight(c, entry, n) ==
  LET op == [ClientId |-> c, CallId |-> entry.CallId] IN
  \/ /\ entry = NoOp
     /\ \A p \in 1 .. n : committed[p].ClientId # c
  \/ /\ \A p \in 1 .. n : committed[p].ClientId = c => committed[p].CallId <= entry.CallId
     /\ \E p \in 1 .. n : /\ committed[p] = op /\ ~Holds(p - 1, op)
                          /\ Kind(op) = "Get" => entry.Result = states[p].Data

\* What a replica, or a snapshot, knows is what the committed log says: each
\* operation was executed once, however often clerks repeated it, and LastOp
\* holds the last call of each client with the value it saw, through snapshots,
\* their installation and restarts.
ReplicasAgree ==
  /\ FirstCounts
  /\ \A s \in Server : \A state \in {Saved(s), snapshot[s]} :
       /\ state.Data = states[state.LastApplied + 1].Data
       /\ \A c \in Client : EntryRight(c, state.LastOp[c], state.LastApplied)

\* What a clerk is told of the value its operation finds.
Found(what, value) == IF what.kind = "Get" THEN value ELSE <<>>

\* What KVStore speaks of: the calls, how many were executed and have returned,
\* the value of the key, and what the last executed call of each clerk found.
Calls    == [c \in Client |-> [i \in DOMAIN program[c] |-> [kind |-> program[c][i], key |-> "key"]]]
Done     == [c \in Client |-> final.LastOp[c].CallId + 1]
Returned == [c \in Client |-> NextCallID[c] - (IF trying[c] = 0 THEN 0 ELSE 1)]
Stored   == [k \in {"key"} |-> final.Data]
Seen     == [c \in Client |-> final.LastOp[c].Result]

Store == INSTANCE KVStore WITH
  Key <- {"key"}, Operation <- [kind : {"Get", "Put", "Append"}, key : {"key"}],
  Result <- Found, program <- Calls, issued <- NextCallID, executed <- Done,
  returned <- Returned, value <- Stored, seen <- Seen

\* The replicas implement one store: an operation takes effect where it is first
\* committed, between its call and its return and once, and a Get returns what
\* was there, whichever servers the clerk tried and whatever old leaders and
\* sleeping handlers answered.
Linearizable == Store!Spec

\* Every call returns, although a handler whose operation is lost, or comes with a
\* snapshot, is never woken: the clerk gives it up, and the next server, or the
\* same one, knows the operation or starts it again.
CallsReturn == \A c \in Client : trying[c] # 0 ~> trying[c] = 0

=============================================================================
