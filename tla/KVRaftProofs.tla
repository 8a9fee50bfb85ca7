---------------------------- MODULE KVRaftProofs ----------------------------
(***************************************************************************)
(* What the replicas of src/src/kvraft hold is what the operations they    *)
(* applied lead to, and together with their clerks they implement KVStore: *)
(* for any number of servers, clerks, calls, failures and restarts.        *)
(***************************************************************************)
EXTENDS KVRaft, TLAPS

USE ServersAssumption

-----------------------------------------------------------------------------
(***************************************************************************)
(* The inductive invariant.                                                *)
(***************************************************************************)

Handler == [op : Op, server : Server, rpc : Nat, pc : {"check", "start", "test", "asleep"}]
State   == [Data : Value, LastOp : LastOps]

\* Each call of a client that was executed is in the log.
NoGap(n) ==
  \A c \in Client : \A k \in 0 .. states[n].LastOp[c].CallId :
    Holds(n - 1, [ClientId |-> c, CallId |-> k])

\* What b knows of the clients is not older than what a knows, and the same where
\* it is about the same calls.
Later(a, b) ==
  \A c \in Client : a[c].CallId <= b[c].CallId /\ (a[c].CallId = b[c].CallId => a[c] = b[c])

\* The committed log and what its prefixes lead to.
HistoryInv ==
  /\ Len(states) = Len(committed) + 1
  /\ FirstCounts
  /\ \A n \in 1 .. Len(committed) : states[n + 1] = After(states[n], committed[n])
  /\ \A n \in 1 .. Len(states) :
       NoGap(n) /\ \A c \in Client : EntryRight(c, states[n].LastOp[c], n - 1)
  /\ \A m, n \in 1 .. Len(states) : m <= n => Later(states[m].LastOp, states[n].LastOp)

\* Only what clerks have called is in a log or a handler.
IssuedInv ==
  /\ \A op \in DOMAIN started : op.CallId < NextCallID[op.ClientId]
  /\ \A h \in handlers : h.op.CallId < NextCallID[h.op.ClientId]

\* state is what a prefix of the committed log leads to.
Knows(state) ==
  /\ state.LastApplied + 1 \in 1 .. Len(states)
  /\ state.Data = states[state.LastApplied + 1].Data
  /\ state.LastOp = states[state.LastApplied + 1].LastOp

ReplicasInv == \A s \in Server : Knows(Saved(s)) /\ Knows(snapshot[s])

\* All calls that returned are executed, and of those that did not return at most
\* one is.
ClerkOK(c) ==
  /\ NextCallID[c] <= Len(program[c])
  /\ trying[c] = 0 => final.LastOp[c].CallId = NextCallID[c] - 1
  /\ trying[c] # 0 => /\ NextCallID[c] >= 1
                      /\ final.LastOp[c].CallId \in {NextCallID[c] - 2, NextCallID[c] - 1}

\* The inductive invariant.
IInv == TypeOK /\ HistoryInv /\ IssuedInv /\ ReplicasInv /\ \A c \in Client : ClerkOK(c)

-----------------------------------------------------------------------------
(***************************************************************************)
(* What the steps do.                                                      *)
(***************************************************************************)

\* The handlers reply, or take a step.
LEMMA HandleIs ==
  ASSUME NEW h, GetRPC(h) \/ PutRPC(h) \/ AppendRPC(h)
  PROVE  /\ UNCHANGED <<program, committed, states, stateVars>>
         /\ \/ /\ Succeed(h) /\ UNCHANGED started
               /\ LastOp[h.server][h.op.ClientId].CallId = h.op.CallId
            \/ WrongLeader(h) /\ UNCHANGED started
            \/ /\ \E pc \in {"start", "test", "asleep"} : Step(h, pc)
               /\ started' = started \/ started' = OneMore(h.op)
<1>1. CASE CheckExecuted(h)
  BY Zenon, <1>1 DEF CheckExecuted, raftVars
<1>2. CASE Start(h)
  BY Zenon, <1>2 DEF Start
<1>3. CASE Wait(h)
  BY Zenon, <1>3 DEF Wait, Answer, raftVars
<1> QED
  BY Zenon, <1>1, <1>2, <1>3 DEF GetRPC, PutRPC, AppendRPC, Handle

\* The types of the clerks' variables.
LEMMA ClerkTypes ==
  ASSUME TypeOK
  PROVE  /\ NextCallID \in [Client -> Nat] /\ rpc \in [Client -> Nat] /\ events \in Nat
         /\ lastLeader \in [Client -> 0 .. NServers] /\ trying \in [Client -> 0 .. NServers]
         /\ fromLeader \in [Client -> BOOLEAN] /\ answer \in [Client -> Value]
BY Zenon DEF TypeOK

\* The first server that is called is one.
LEMMA FirstServerIs ==
  ASSUME TypeOK, NEW c \in Client
  PROVE  FirstServer(c) \in Server /\ FirstServer(c) # 0
<1>1. lastLeader[c] \in 0 .. NServers /\ NServers \in Nat \ {0}
  BY Zenon DEF TypeOK
<1> QED
  BY <1>1 DEF Server, FirstServer, InvalidServer

\* A call that fails is followed by another one.
LEMMA CallNextIs ==
  ASSUME TypeOK, NEW c \in Client, trying[c] # 0,
         NEW number, NEW others, CallNext(c, number, others)
  PROVE  /\ fromLeader' \in [Client -> BOOLEAN]
         /\ \E s \in Server :
              /\ trying' = [trying EXCEPT ![c] = s]
              /\ handlers' = others \cup {[op |-> Current(c), server |-> s, rpc |-> number,
                                           pc |-> "check"]}
<1> DEFINE s == IF fromLeader[c] THEN 1
                ELSE IF ~fromLeader[c] /\ trying[c] = NServers THEN FirstServer(c)
                ELSE trying[c] + 1
<1>1. s \in Server
  <2>1. trying[c] \in 0 .. NServers /\ NServers \in Nat \ {0}
    BY Zenon DEF TypeOK
  <2>2. FirstServer(c) \in Server
    BY Zenon, FirstServerIs
  <2>3. trying[c] # NServers => trying[c] + 1 \in Server
    BY <2>1 DEF Server
  <2>4. 1 \in Server
    BY <2>1 DEF Server
  <2> QED
    BY Zenon, <2>2, <2>3, <2>4
<1>2. fromLeader' \in [Client -> BOOLEAN]
  BY Zenon DEF CallNext, TypeOK
<1>3. /\ trying' = [trying EXCEPT ![c] = s]
      /\ handlers' = others \cup {[op |-> Current(c), server |-> s, rpc |-> number, pc |-> "check"]}
  BY Zenon DEF CallNext, Call
<1> QED
  BY Zenon, <1>1, <1>2, <1>3

\* What it calls.
LEMMA CurrentIs ==
  ASSUME TypeOK, NEW c \in Client, NextCallID[c] >= 1
  PROVE  /\ Current(c) \in Op
         /\ Current(c).ClientId = c /\ Current(c).CallId = NextCallID[c] - 1
BY DEF TypeOK, Current, Op

\* A handler is about a call.
LEMMA HandlerFields ==
  ASSUME TypeOK, NEW h \in handlers
  PROVE  /\ h \in Handler /\ h.op \in Op /\ h.server \in Server /\ h.rpc \in Nat
         /\ h.op.ClientId \in Client /\ h.op.CallId \in Nat
BY Zenon DEF TypeOK, Handler, Op

\* A reply ErrWrongLeader is followed by another call, or nobody hears it.
LEMMA WrongLeaderIs ==
  ASSUME TypeOK, NEW h \in handlers, WrongLeader(h)
  PROVE  /\ UNCHANGED <<NextCallID, lastLeader, rpc, answer>>
         /\ events' \in Nat /\ fromLeader' \in [Client -> BOOLEAN]
         /\ \/ handlers' = handlers \ {h} /\ UNCHANGED trying
            \/ \E c \in Client, s \in Server :
                 /\ trying[c] # 0
                 /\ trying' = [trying EXCEPT ![c] = s]
                 /\ handlers' = (handlers \ {h}) \cup
                      {[op |-> Current(c), server |-> s, rpc |-> rpc[c], pc |-> "check"]}
<1> DEFINE c == h.op.ClientId
<1>1. c \in Client
  BY Zenon, HandlerFields
<1>2. CASE Awaited(h) /\ Event /\ CallNext(c, rpc[c], handlers \ {h})
  <2>1. trying[c] # 0 /\ events' \in Nat
    BY <1>2 DEF Awaited, Event, TypeOK
  <2>2. \E s \in Server :
          /\ trying' = [trying EXCEPT ![c] = s]
          /\ handlers' = (handlers \ {h}) \cup
               {[op |-> Current(c), server |-> s, rpc |-> rpc[c], pc |-> "check"]}
    BY Zenon, <1>1, <1>2, <2>1, CallNextIs
  <2>3. fromLeader' \in [Client -> BOOLEAN]
    BY Zenon, <1>1, <1>2, <2>1, CallNextIs
  <2> QED
    BY Zenon, <1>1, <2>1, <2>2, <2>3 DEF WrongLeader
<1>3. CASE handlers' = handlers \ {h} /\ UNCHANGED <<trying, fromLeader, events>>
  BY Zenon, <1>3 DEF WrongLeader, TypeOK
<1> QED
  BY Zenon, <1>2, <1>3 DEF WrongLeader

\* A reply OK ends the call, or nobody hears it.
LEMMA SucceedIs ==
  ASSUME TypeOK, NEW h \in handlers, Succeed(h)
  PROVE  /\ handlers' = handlers \ {h}
         /\ UNCHANGED <<NextCallID, fromLeader, rpc, events>>
         /\ \/ UNCHANGED <<trying, lastLeader, answer>>
            \/ \E c \in Client :
                 /\ h.op = Current(c) /\ trying[c] # 0
                 /\ trying' = [trying EXCEPT ![c] = 0]
                 /\ lastLeader' = [lastLeader EXCEPT ![c] = trying[c]]
                 /\ answer' = [answer EXCEPT ![c] = LastOp[h.server][c].Result]
<1>1. h.op.ClientId \in Client
  BY Zenon, HandlerFields
<1> QED
  BY Zenon, <1>1 DEF Succeed, Awaited

-----------------------------------------------------------------------------
(***************************************************************************)
(* The steps of clerks and handlers.                                       *)
(***************************************************************************)

\* A step that leaves the log alone keeps what it says.
LEMMA HistoryFrame ==
  ASSUME HistoryInv, UNCHANGED <<program, committed, states>>
  PROVE  HistoryInv'
<1>1. ASSUME NEW n, NEW op PROVE Holds(n, op)' = Holds(n, op)
  BY Zenon DEF Holds
<1>2. FirstCounts'
  BY Zenon DEF HistoryInv, FirstCounts, Holds, Effect, Kind
<1>3. ASSUME NEW n \in 1 .. Len(states), NEW c \in Client
      PROVE  EntryRight(c, states[n].LastOp[c], n - 1)'
  <2>1. /\ \A op : Kind(op)' = Kind(op)
        /\ committed' = committed /\ states' = states
    BY Zenon DEF Kind
  <2>2. ASSUME NEW e, EntryRight(c, e, n - 1) PROVE EntryRight(c, e, n - 1)'
    BY Zenon, <1>1, <2>1, <2>2 DEF EntryRight
  <2> QED
    BY Zenon, <2>1, <2>2 DEF HistoryInv
<1>6. ASSUME NEW n \in 1 .. Len(states) PROVE NoGap(n)'
  <2>1. NoGap(n) /\ states' = states
    BY Zenon DEF HistoryInv
  <2> QED
    BY Zenon, <1>1, <2>1 DEF NoGap
<1>4. \A n \in 1 .. Len(committed) :
        After(states[n], committed[n])' = After(states[n], committed[n])
  BY Zenon DEF After, Executed, Effect, Record, Kind
<1>5. ASSUME NEW m \in 1 .. Len(states), NEW n \in 1 .. Len(states), m <= n
      PROVE  Later(states[m].LastOp, states[n].LastOp)'
  BY Zenon, <1>5 DEF HistoryInv, Later
<1> QED
  BY Zenon, <1>2, <1>3, <1>4, <1>5, <1>6 DEF HistoryInv

\* What a step that leaves the log and the replicas alone keeps.
LEMMA Frame ==
  ASSUME HistoryInv, ReplicasInv, UNCHANGED <<program, committed, states, stateVars>>
  PROVE  HistoryInv' /\ ReplicasInv'
<1>1. ReplicasInv'
  BY Zenon DEF ReplicasInv, Knows, Saved, stateVars
<1> QED
  BY Zenon, <1>1, HistoryFrame

\* The clerk is in the same call, or in none, as before.
LEMMA ClerkFrame ==
  ASSUME NEW c \in Client, ClerkOK(c), UNCHANGED <<program, states>>,
         NextCallID'[c] = NextCallID[c], trying'[c] = 0 <=> trying[c] = 0
  PROVE  ClerkOK(c)'
BY Zenon DEF ClerkOK, final

\* Handlers only wait for what was called.
LEMMA IssuedFrame ==
  ASSUME TypeOK, IssuedInv, \A c \in Client : ClerkOK(c), UNCHANGED NextCallID,
         \A op \in DOMAIN started' : \/ op \in DOMAIN started
                                     \/ \E h \in handlers : op = h.op,
         \A h \in handlers' : \/ \E k \in handlers : h.op = k.op
                              \/ \E c \in Client : h.op = Current(c) /\ trying[c] # 0
  PROVE  IssuedInv'
<1>1. ASSUME NEW c \in Client, trying[c] # 0
      PROVE  Current(c).CallId < NextCallID[Current(c).ClientId]
  <2>1. NextCallID[c] >= 1 /\ NextCallID[c] \in Nat
    BY Zenon, <1>1 DEF ClerkOK, TypeOK
  <2> QED
    BY <2>1, CurrentIs
<1> QED
  BY Zenon, <1>1 DEF IssuedInv

\* A new handler has its type.
LEMMA NewHandler ==
  ASSUME TypeOK, NEW c \in Client, ClerkOK(c), trying[c] # 0, NEW s \in Server, NEW n \in Nat
  PROVE  [op |-> Current(c), server |-> s, rpc |-> n, pc |-> "check"] \in Handler
<1>1. Current(c) \in Op
  BY Zenon, CurrentIs DEF ClerkOK
<1> QED
  BY Zenon, <1>1 DEF Handler

\* One more copy of an operation.
LEMMA OneMoreDomain ==
  ASSUME NEW op
  PROVE  DOMAIN OneMore(op) = DOMAIN started \cup {op}
BY Zenon DEF OneMore

\* Clerk.Get() and Clerk.PutAppend() begin.
LEMMA InvokeStep ==
  ASSUME IInv, NEW c \in Client, Invoke(c)
  PROVE  IInv'
<1> DEFINE op == [ClientId |-> c, CallId |-> NextCallID[c]]
           h  == [op |-> op, server |-> FirstServer(c), rpc |-> rpc[c], pc |-> "check"]
<1>0. TypeOK /\ HistoryInv /\ ReplicasInv /\ IssuedInv /\ \A d \in Client : ClerkOK(d)
  BY Zenon DEF IInv
<1>1. /\ trying[c] = 0 /\ NextCallID[c] < Len(program[c])
      /\ NextCallID' = [NextCallID EXCEPT ![c] = @ + 1]
      /\ fromLeader' = [fromLeader EXCEPT ![c] = lastLeader[c] # InvalidServer]
      /\ trying' = [trying EXCEPT ![c] = FirstServer(c)]
      /\ handlers' = handlers \cup {h}
      /\ UNCHANGED <<program, raftVars, stateVars, lastLeader, rpc, answer, events>>
  BY Zenon DEF Invoke, Call
<1>2. UNCHANGED <<program, started, committed, states, stateVars, lastLeader, rpc, answer, events>>
  BY Zenon, <1>1 DEF raftVars
<1>3. HistoryInv' /\ ReplicasInv'
  BY Zenon, <1>0, <1>2, Frame
<1>4. FirstServer(c) \in Server /\ FirstServer(c) # 0
  BY Zenon, <1>0, FirstServerIs
<1>5. /\ NextCallID \in [Client -> Nat] /\ NextCallID' \in [Client -> Nat]
      /\ NextCallID'[c] = NextCallID[c] + 1
      /\ \A d \in Client \ {c} : NextCallID'[d] = NextCallID[d]
  BY <1>0, <1>1 DEF TypeOK
<1>6. op \in Op /\ h \in Handler /\ h.op = op /\ op.ClientId = c /\ op.CallId = NextCallID[c]
  <2>1. op \in Op
    BY Zenon, <1>5 DEF Op
  <2>2. rpc[c] \in Nat
    BY Zenon, <1>0 DEF TypeOK
  <2> QED
    BY Zenon, <1>4, <2>1, <2>2 DEF Handler
<1>7. trying' \in [Client -> 0 .. NServers]
  <2>1. trying \in [Client -> 0 .. NServers]
    BY Zenon, <1>0, ClerkTypes
  <2> QED
    BY <1>1, <1>4, <2>1 DEF Server
<1>8. TypeOK'
  <2>1. handlers' \subseteq Handler
    BY Zenon, <1>0, <1>1, <1>6 DEF TypeOK, Handler
  <2>2. fromLeader' \in [Client -> BOOLEAN]
    BY Zenon, <1>0, <1>1 DEF TypeOK
  <2> QED
    BY Zenon, <1>0, <1>2, <1>5, <1>7, <2>1, <2>2 DEF TypeOK, Handler, stateVars
<1>9. IssuedInv'
  <2>1. ASSUME NEW o \in Op, o.CallId < NextCallID[o.ClientId]
        PROVE  o.CallId < NextCallID'[o.ClientId]
    BY <1>5, <2>1 DEF Op
  <2>2. DOMAIN started' \subseteq Op /\ \A k \in handlers : k.op \in Op
    BY Zenon, <1>0, <1>2, HandlerFields DEF TypeOK
  <2>3. op.CallId < NextCallID'[op.ClientId]
    BY <1>5, <1>6
  <2> QED
    BY Zenon, <1>0, <1>1, <1>2, <1>6, <2>1, <2>2, <2>3 DEF IssuedInv
<1>10. ASSUME NEW d \in Client PROVE ClerkOK(d)'
  <2>1. CASE d = c
    <3>1. trying'[c] # 0
      BY Zenon, <1>0, <1>1, <1>4 DEF TypeOK
    <3>2. final' = final
      BY Zenon, <1>2 DEF final
    <3>3. final.LastOp[c].CallId = NextCallID[c] - 1 /\ Len(program[c]) \in Nat
      BY <1>0, <1>1 DEF ClerkOK, TypeOK
    <3> QED
      BY <1>1, <1>2, <1>5, <2>1, <3>1, <3>2, <3>3 DEF ClerkOK
  <2>2. CASE d # c
    <3>1. trying'[d] = trying[d]
      BY Zenon, <1>0, <1>1, <2>2 DEF TypeOK
    <3> QED
      BY Zenon, <1>0, <1>2, <1>5, <2>2, <3>1, ClerkFrame
  <2> QED
    BY Zenon, <2>1, <2>2
<1> QED
  BY Zenon, <1>3, <1>8, <1>9, <1>10 DEF IInv

\* Clerks and handlers go on with the same calls.
LEMMA SameCalls ==
  ASSUME IInv, UNCHANGED <<program, committed, states, stateVars, NextCallID, lastLeader,
  answer>>,
         rpc' \in [Client -> Nat], events' \in Nat, fromLeader' \in [Client -> BOOLEAN],
         DOMAIN started' \subseteq Op,
         \A op \in DOMAIN started' : op \in DOMAIN started \/ \E h \in handlers : op = h.op,
         NEW others \in SUBSET Handler, \A h \in others : \E k \in handlers : h.op = k.op,
         \/ handlers' = others /\ UNCHANGED trying
         \/ \E c \in Client, s \in Server, n \in Nat :
              /\ trying[c] # 0 /\ trying' = [trying EXCEPT ![c] = s]
              /\ handlers' = others \cup
                   {[op |-> Current(c), server |-> s, rpc |-> n, pc |-> "check"]}
  PROVE  IInv'
<1>0. TypeOK /\ HistoryInv /\ ReplicasInv /\ IssuedInv /\ \A c \in Client : ClerkOK(c)
  BY Zenon DEF IInv
<1>1. HistoryInv' /\ ReplicasInv'
  BY Zenon, <1>0, Frame
<1> DEFINE Kept ==
             /\ handlers' \subseteq Handler /\ trying' \in [Client -> 0 .. NServers]
             /\ \A h \in handlers' : \/ \E k \in handlers : h.op = k.op
                                     \/ \E c \in Client : h.op = Current(c) /\ trying[c] # 0
             /\ \A c \in Client : trying'[c] = 0 <=> trying[c] = 0
<1>2. Kept
  <2>1. trying \in [Client -> 0 .. NServers]
    BY Zenon, <1>0 DEF TypeOK
  <2>2. CASE handlers' = others /\ UNCHANGED trying
    BY Zenon, <2>1, <2>2
  <2>3. ASSUME NEW c \in Client, NEW s \in Server, NEW n \in Nat, trying[c] # 0,
               trying' = [trying EXCEPT ![c] = s],
               handlers' = others \cup
                 {[op |-> Current(c), server |-> s, rpc |-> n, pc |-> "check"]}
        PROVE  Kept
    <3>1. [op |-> Current(c), server |-> s, rpc |-> n, pc |-> "check"] \in Handler
      BY Zenon, <1>0, <2>3, NewHandler
    <3>2. /\ trying' \in [Client -> 0 .. NServers]
          /\ \A d \in Client : trying'[d] = 0 <=> trying[d] = 0
      BY <2>1, <2>3 DEF Server
    <3>3. handlers' \subseteq Handler
      BY Zenon, <2>3, <3>1
    <3>4. \A h \in handlers' : \/ \E k \in handlers : h.op = k.op
                               \/ \E d \in Client : h.op = Current(d) /\ trying[d] # 0
      BY <2>3
    <3> QED
      BY Zenon, <3>2, <3>3, <3>4
  <2> HIDE DEF Kept
  <2> QED
    BY Zenon, <2>2, <2>3
<1>3. TypeOK'
  BY Zenon, <1>0, <1>2 DEF TypeOK, Handler, stateVars
<1>4. IssuedInv'
  BY Zenon, <1>0, <1>2, IssuedFrame
<1>5. \A c \in Client : ClerkOK(c)'
  BY Zenon, <1>0, <1>2, ClerkFrame
<1> QED
  BY Zenon, <1>1, <1>3, <1>4, <1>5 DEF IInv

\* call() fails.
LEMMA CallFailsStep ==
  ASSUME IInv, NEW c \in Client, CallFails(c)
  PROVE  IInv'
<1> DEFINE open   == {h \in handlers : Awaited(h) /\ h.op.ClientId = c}
           number == IF open = {} THEN rpc[c] ELSE rpc[c] + 1
<1>1. TypeOK
  BY Zenon DEF IInv
<1>2. /\ trying[c] # 0 /\ rpc' = [rpc EXCEPT ![c] = number]
      /\ CallNext(c, number, handlers)
      /\ UNCHANGED <<program, raftVars, stateVars, NextCallID, lastLeader, answer>>
      /\ IF \E h \in open : MayWake(h) THEN Event ELSE UNCHANGED events
  BY Zenon DEF CallFails
<1>3. number \in Nat /\ rpc' \in [Client -> Nat] /\ events' \in Nat
  <2>1. rpc \in [Client -> Nat] /\ events \in Nat
    BY Zenon, <1>1, ClerkTypes
  <2>2. number \in Nat
    BY <2>1
  <2>3. events' \in Nat
    BY <1>2, <2>1 DEF Event
  <2> QED
    BY Zenon, <1>2, <2>1, <2>2, <2>3
<1>4. handlers \in SUBSET Handler
  BY Zenon, <1>1 DEF TypeOK, Handler
<1> HIDE DEF number
<1>5. /\ fromLeader' \in [Client -> BOOLEAN]
      /\ \E s \in Server :
           /\ trying' = [trying EXCEPT ![c] = s]
           /\ handlers' = handlers \cup {[op |-> Current(c), server |-> s, rpc |-> number,
                                          pc |-> "check"]}
  BY Zenon, <1>1, <1>2, CallNextIs
<1>6. /\ UNCHANGED <<program, committed, states, stateVars, NextCallID, lastLeader, answer>>
      /\ started' = started /\ DOMAIN started \subseteq Op
  BY Zenon, <1>1, <1>2 DEF raftVars, TypeOK
<1> QED
  BY Zenon, <1>2, <1>3, <1>4, <1>5, <1>6, SameCalls

\* What a replica knows of a client is not newer than what the whole log says.
LEMMA ReplicaBehind ==
  ASSUME TypeOK, HistoryInv, ReplicasInv, NEW s \in Server, NEW c \in Client
  PROVE  /\ LastOp[s][c].CallId <= final.LastOp[c].CallId
         /\ LastOp[s][c].CallId = final.LastOp[c].CallId => LastOp[s][c] = final.LastOp[c]
<1>1. PICK n \in 1 .. Len(states) : LastOp[s] = states[n].LastOp
  BY Zenon DEF ReplicasInv, Knows, Saved
<1>2. Len(states) \in 1 .. Len(states) /\ n <= Len(states)
  BY DEF TypeOK
<1>3. Later(states[n].LastOp, final.LastOp)
  BY Zenon, <1>2 DEF HistoryInv, final
<1> QED
  BY Zenon, <1>1, <1>3 DEF Later

\* The handler replies OK: the call is executed.
LEMMA SucceedStep ==
  ASSUME IInv, NEW h \in handlers, Succeed(h), UNCHANGED started,
         UNCHANGED <<program, committed, states, stateVars>>,
         LastOp[h.server][h.op.ClientId].CallId = h.op.CallId
  PROVE  IInv'
<1>0. TypeOK /\ HistoryInv /\ ReplicasInv /\ IssuedInv /\ \A c \in Client : ClerkOK(c)
  BY Zenon DEF IInv
<1>1. /\ handlers' = handlers \ {h} /\ handlers' \in SUBSET Handler
      /\ UNCHANGED <<NextCallID, fromLeader, rpc, events>>
      /\ rpc' \in [Client -> Nat] /\ events' \in Nat /\ fromLeader' \in [Client -> BOOLEAN]
      /\ DOMAIN started' \subseteq Op
  BY Zenon, <1>0, SucceedIs DEF TypeOK, Handler
<1>2. CASE UNCHANGED <<trying, lastLeader, answer>>
  BY Zenon, <1>1, <1>2, SameCalls
<1>3. ASSUME NEW c \in Client, h.op = Current(c), trying[c] # 0,
             trying' = [trying EXCEPT ![c] = 0],
             lastLeader' = [lastLeader EXCEPT ![c] = trying[c]],
             answer' = [answer EXCEPT ![c] = LastOp[h.server][c].Result]
      PROVE  IInv'
  <2>1. HistoryInv' /\ ReplicasInv'
    BY Zenon, <1>0, Frame
  <2>2. h.server \in Server
    BY Zenon, <1>0, HandlerFields
  <2>3. LastOp[h.server][c].Result \in Value
    BY <1>0, <2>2 DEF TypeOK, LastOps
  <2>4. TypeOK'
    <3>1. /\ trying' \in [Client -> 0 .. NServers] /\ lastLeader' \in [Client -> 0 .. NServers]
          /\ answer' \in [Client -> Value]
      <4>1. /\ trying \in [Client -> 0 .. NServers] /\ lastLeader \in [Client -> 0 .. NServers]
            /\ answer \in [Client -> Value] /\ trying[c] \in 0 .. NServers /\ 0 \in 0 .. NServers
        BY <1>0, ClerkTypes
      <4> QED
        BY Zenon, <1>3, <2>3, <4>1
    <3> QED
      BY Zenon, <1>0, <1>1, <3>1 DEF TypeOK, Handler, stateVars
  <2>5. IssuedInv'
    BY Zenon, <1>0, <1>1 DEF IssuedInv
  <2>6. ClerkOK(c)'
    <3>1. /\ NextCallID[c] >= 1 /\ NextCallID[c] \in Nat
          /\ final.LastOp[c].CallId \in {NextCallID[c] - 2, NextCallID[c] - 1}
          /\ NextCallID[c] <= Len(program[c])
      BY Zenon, <1>0, <1>3 DEF ClerkOK, TypeOK
    <3>2. LastOp[h.server][c].CallId = NextCallID[c] - 1
      BY Zenon, <1>0, <1>3, <3>1, CurrentIs
    <3>3. LastOp[h.server][c].CallId <= final.LastOp[c].CallId
      BY Zenon, <1>0, <2>2, ReplicaBehind
    <3>4. final.LastOp[c].CallId = NextCallID[c] - 1
      BY <3>1, <3>2, <3>3
    <3>5. final' = final /\ NextCallID' = NextCallID /\ program' = program /\ trying'[c] = 0
      BY Zenon, <1>0, <1>1, <1>3 DEF final, TypeOK
    <3> QED
      BY Zenon, <3>1, <3>4, <3>5 DEF ClerkOK
  <2>7. ASSUME NEW d \in Client, d # c PROVE ClerkOK(d)'
    <3>1. trying'[d] = trying[d] /\ NextCallID'[d] = NextCallID[d]
      BY Zenon, <1>0, <1>1, <1>3, <2>7 DEF TypeOK
    <3> QED
      BY Zenon, <1>0, <3>1, ClerkFrame
  <2> QED
    BY Zenon, <2>1, <2>4, <2>5, <2>6, <2>7 DEF IInv
<1> QED
  BY Zenon, <1>0, <1>2, <1>3, SucceedIs

\* The handlers of the RPCs.
LEMMA HandlerStep ==
  ASSUME IInv, NEW h \in handlers, GetRPC(h) \/ PutRPC(h) \/ AppendRPC(h)
  PROVE  IInv'
<1>0. TypeOK /\ DOMAIN started \subseteq Op /\ handlers \subseteq Handler /\ rpc \in [Client -> Nat]
  BY Zenon DEF IInv, TypeOK, Handler
<1>1. UNCHANGED <<program, committed, states, stateVars>>
  BY Zenon, HandleIs
<1>2. CASE /\ Succeed(h) /\ UNCHANGED started
           /\ LastOp[h.server][h.op.ClientId].CallId = h.op.CallId
  BY Zenon, <1>1, <1>2, SucceedStep
<1>3. CASE WrongLeader(h) /\ UNCHANGED started
  <2> DEFINE others == handlers \ {h}
  <2>1. others \in SUBSET Handler /\ \A k \in others : \E g \in handlers : k.op = g.op
    BY Zenon, <1>0
  <2>2. /\ UNCHANGED <<NextCallID, lastLeader, rpc, answer>>
        /\ events' \in Nat /\ fromLeader' \in [Client -> BOOLEAN]
        /\ \/ handlers' = others /\ UNCHANGED trying
           \/ \E c \in Client, s \in Server :
                /\ trying[c] # 0
                /\ trying' = [trying EXCEPT ![c] = s]
                /\ handlers' = others \cup
                     {[op |-> Current(c), server |-> s, rpc |-> rpc[c], pc |-> "check"]}
    BY Zenon, <1>0, <1>3, WrongLeaderIs
  <2>3. \/ handlers' = others /\ UNCHANGED trying
        \/ \E c \in Client, s \in Server, n \in Nat :
             /\ trying[c] # 0
             /\ trying' = [trying EXCEPT ![c] = s]
             /\ handlers' = others \cup
                  {[op |-> Current(c), server |-> s, rpc |-> n, pc |-> "check"]}
    <3>1. \A c \in Client : rpc[c] \in Nat
      BY Zenon, <1>0
    <3> HIDE DEF others
    <3> QED
      BY Zenon, <2>2, <3>1
  <2> HIDE DEF others
  <2> QED
    BY <1>0, <1>1, <1>3, <2>1, <2>2, <2>3, SameCalls
<1>4. ASSUME NEW pc \in {"start", "test", "asleep"}, Step(h, pc),
             started' = started \/ started' = OneMore(h.op)
      PROVE  IInv'
  <2> DEFINE k      == [h EXCEPT !.pc = pc]
             others == (handlers \ {h}) \cup {k}
  <2>1. k \in Handler /\ k.op = h.op
    BY Zenon, <1>0 DEF Handler
  <2>2. others \in SUBSET Handler /\ \A g \in others : \E f \in handlers : g.op = f.op
    <3> HIDE DEF k
    <3> QED
      BY Zenon, <1>0, <2>1
  <2>3. UNCHANGED clerkVars /\ UNCHANGED events /\ handlers' = others
    BY Zenon, <1>4 DEF Step
  <2>4. /\ UNCHANGED <<NextCallID, lastLeader, rpc, answer>> /\ UNCHANGED trying
        /\ rpc' \in [Client -> Nat] /\ events' \in Nat /\ fromLeader' \in [Client -> BOOLEAN]
    BY Zenon, <1>0, <2>3 DEF clerkVars, TypeOK
  <2>5. /\ DOMAIN started' \subseteq Op
        /\ \A op \in DOMAIN started' : op \in DOMAIN started \/ \E g \in handlers : op = g.op
    <3>1. h.op \in Op
      BY Zenon, <1>0, HandlerFields
    <3>2. DOMAIN started' \subseteq DOMAIN started \cup {h.op}
      BY Zenon, <1>4, OneMoreDomain
    <3> QED
      BY Zenon, <1>0, <3>1, <3>2
  <2> HIDE DEF others
  <2> QED
    BY Zenon, <1>1, <2>2, <2>3, <2>4, <2>5, SameCalls
<1> QED
  BY Zenon, <1>2, <1>3, <1>4, HandleIs

-----------------------------------------------------------------------------
(***************************************************************************)
(* The steps of the replicas.                                              *)
(***************************************************************************)

SavedState == [LastApplied : Nat, Data : Value, LastOp : LastOps]

\* The types of the replicas' variables.
ReplicaTypes ==
  /\ Data \in [Server -> Value] /\ LastOp \in [Server -> LastOps]
  /\ LastApplied \in [Server -> Nat] /\ snapshot \in [Server -> SavedState]

\* Replicas may change in any way that leaves them with what a prefix of the
\* committed log leads to.
LEMMA ReplicaStep ==
  ASSUME IInv, UNCHANGED <<program, started, committed, states, clerkVars>>, events' \in Nat,
         \A h \in handlers' : h \in Handler /\ \E k \in handlers : h.op = k.op,
         ReplicaTypes', ReplicasInv'
  PROVE  IInv'
<1>0. TypeOK /\ HistoryInv /\ IssuedInv /\ \A c \in Client : ClerkOK(c)
  BY Zenon DEF IInv
<1>1. UNCHANGED <<NextCallID, lastLeader, trying, fromLeader, rpc, answer>>
  BY Zenon DEF clerkVars
<1>2. TypeOK'
  <2>1. handlers' \subseteq Handler
    BY Zenon
  <2> QED
    BY Zenon, <1>0, <1>1, <2>1 DEF TypeOK, Handler, ReplicaTypes, SavedState
<1>3. HistoryInv'
  BY Zenon, <1>0, HistoryFrame
<1>4. IssuedInv'
  BY Zenon, <1>0, <1>1, IssuedFrame
<1>5. \A c \in Client : ClerkOK(c)'
  BY Zenon, <1>0, <1>1, ClerkFrame
<1> QED
  BY Zenon, <1>2, <1>3, <1>4, <1>5 DEF IInv

\* What the prefixes of the log lead to has its type.
LEMMA StateFacts ==
  ASSUME TypeOK, NEW n \in 1 .. Len(states)
  PROVE  /\ states[n] \in State
         /\ states[n].Data \in Value /\ states[n].LastOp \in LastOps
         /\ states[n] = [Data |-> states[n].Data, LastOp |-> states[n].LastOp]
<1>1. states[n] \in State
  <2>1. states \in Seq(State)
    BY Zenon DEF TypeOK, State
  <2> QED
    BY <2>1
<1> QED
  BY Zenon, <1>1 DEF State

\* The types of what is saved.
LEMMA SavedFacts ==
  ASSUME TypeOK, NEW s \in Server
  PROVE  /\ ReplicaTypes /\ Saved(s) \in SavedState /\ snapshot[s] \in SavedState
         /\ Saved(s).LastApplied = LastApplied[s] /\ Saved(s).Data = Data[s]
         /\ Saved(s).LastOp = LastOp[s]
<1>1. ReplicaTypes
  BY Zenon DEF TypeOK, ReplicaTypes, SavedState
<1> QED
  BY Zenon, <1>1 DEF Saved, ReplicaTypes, SavedState

\* One replica changes.
LEMMA OneReplica ==
  ASSUME TypeOK, ReplicasInv, UNCHANGED states,
         NEW s \in Server, NEW new \in SavedState, Knows(new),
         LastApplied' = [LastApplied EXCEPT ![s] = new.LastApplied],
         Data' = [Data EXCEPT ![s] = new.Data],
         LastOp' = [LastOp EXCEPT ![s] = new.LastOp],
         snapshot' \in [Server -> SavedState], \A r \in Server : Knows(snapshot'[r])
  PROVE  ReplicaTypes' /\ ReplicasInv'
<1>0. /\ ReplicaTypes
      /\ new.LastApplied \in Nat /\ new.Data \in Value /\ new.LastOp \in LastOps
  BY Zenon, SavedFacts DEF SavedState
<1>1. ReplicaTypes'
  BY Zenon, <1>0 DEF ReplicaTypes
<1>2. ASSUME NEW r \in Server PROVE Knows(Saved(r))'
  <2>1. CASE r = s
    <3>1. /\ LastApplied'[r] = new.LastApplied /\ Data'[r] = new.Data /\ LastOp'[r] = new.LastOp
      BY Zenon, <1>0, <2>1 DEF ReplicaTypes
    <3> QED
      BY Zenon, <3>1 DEF Knows, Saved
  <2>2. CASE r # s
    <3>1. /\ LastApplied'[r] = LastApplied[r] /\ Data'[r] = Data[r] /\ LastOp'[r] = LastOp[r]
      BY Zenon, <1>0, <2>2 DEF ReplicaTypes
    <3>2. Knows(Saved(r))
      BY Zenon DEF ReplicasInv
    <3> QED
      BY Zenon, <3>1, <3>2 DEF Knows, Saved
  <2> QED
    BY Zenon, <2>1, <2>2
<1>3. \A r \in Server : Knows(snapshot[r])'
  BY Zenon DEF Knows
<1> QED
  BY Zenon, <1>1, <1>2, <1>3 DEF ReplicasInv

\* Broadcast() changes no operation.
LEMMA BroadcastIs ==
  ASSUME TypeOK, NEW s, Broadcast(s), NEW h \in handlers'
  PROVE  h \in Handler /\ \E k \in handlers : h.op = k.op
<1>1. PICK k \in handlers :
        h = IF k.server = s /\ k.pc = "asleep" THEN [k EXCEPT !.pc = "test"] ELSE k
  BY Zenon DEF Broadcast
<1>2. k \in Handler
  BY Zenon, HandlerFields
<1>3. [k EXCEPT !.pc = "test"] \in Handler /\ [k EXCEPT !.pc = "test"].op = k.op
  BY Zenon, <1>2 DEF Handler
<1> QED
  BY Zenon, <1>1, <1>2, <1>3

\* execOp() leads from what one prefix leads to to what the next one leads to.
LEMMA ExecOpStep ==
  ASSUME IInv, NEW s \in Server, execOp(s)
  PROVE  IInv'
<1> DEFINE n   == LastApplied[s] + 1
           op  == committed[n]
           new == [LastApplied |-> n, Data |-> states[n + 1].Data, LastOp |-> states[n + 1].LastOp]
<1>0. TypeOK /\ HistoryInv /\ ReplicasInv
  BY Zenon DEF IInv
<1>1. /\ n \in 1 .. Len(committed) /\ n \in 1 .. Len(states) /\ n + 1 \in 1 .. Len(states)
      /\ LastApplied[s] \in Nat /\ n \in Nat
  <2>1. LastApplied[s] \in Nat /\ Len(committed) \in Nat /\ Len(states) = Len(committed) + 1
    BY <1>0 DEF TypeOK, HistoryInv
  <2> QED
    BY <2>1 DEF execOp
<1>2. Data[s] = states[n].Data /\ LastOp[s] = states[n].LastOp
  BY Zenon, <1>0 DEF ReplicasInv, Knows, Saved
<1>3. states[n + 1] = After(states[n], op)
  BY Zenon, <1>0, <1>1 DEF HistoryInv
<1> HIDE DEF n, op
<1>4. new \in SavedState /\ Knows(new)
  <2>1. states[n + 1].Data \in Value /\ states[n + 1].LastOp \in LastOps
    BY Zenon, <1>0, <1>1, StateFacts
  <2> QED
    BY Zenon, <1>1, <2>1 DEF SavedState, Knows
<1>5. new.LastApplied = n /\ new.Data = states[n + 1].Data /\ new.LastOp = states[n + 1].LastOp
  BY Zenon
<1> HIDE DEF new
<1>6. ReplicaTypes
  BY Zenon, <1>0, SavedFacts
<1>7. /\ LastApplied' = [LastApplied EXCEPT ![s] = n]
      /\ \/ Executed(LastOp[s], op) /\ UNCHANGED <<Data, LastOp, handlers>>
         \/ /\ ~Executed(LastOp[s], op) /\ Broadcast(s)
            /\ Data'   = [Data EXCEPT ![s] = Effect(Data[s], op)]
            /\ LastOp' = [LastOp EXCEPT ![s] = Record(LastOp[s], Data[s], op)]
      /\ UNCHANGED <<program, raftVars, snapshot, clerkVars, events>>
  BY Zenon DEF execOp, n, op
<1>8. Data' = [Data EXCEPT ![s] = new.Data] /\ LastOp' = [LastOp EXCEPT ![s] = new.LastOp]
  <2>1. CASE Executed(LastOp[s], op) /\ UNCHANGED <<Data, LastOp, handlers>>
    <3>1. states[n + 1] = states[n]
      BY Zenon, <1>2, <1>3, <2>1 DEF After
    <3> QED
      BY Zenon, <1>2, <1>5, <1>6, <2>1, <3>1 DEF ReplicaTypes
  <2>2. CASE /\ ~Executed(LastOp[s], op)
             /\ Data'   = [Data EXCEPT ![s] = Effect(Data[s], op)]
             /\ LastOp' = [LastOp EXCEPT ![s] = Record(LastOp[s], Data[s], op)]
    <3>1. /\ states[n + 1].Data = Effect(Data[s], op)
          /\ states[n + 1].LastOp = Record(LastOp[s], Data[s], op)
      BY <1>2, <1>3, <2>2 DEF After
    <3> QED
      BY Zenon, <1>5, <2>2, <3>1
  <2> QED
    BY Zenon, <1>7, <2>1, <2>2
<1>9. ReplicaTypes' /\ ReplicasInv'
  <2>1. /\ snapshot' \in [Server -> SavedState] /\ states' = states
        /\ \A r \in Server : Knows(snapshot'[r])
    BY Zenon, <1>0, <1>6, <1>7 DEF ReplicasInv, ReplicaTypes, raftVars
  <2> QED
    BY Zenon, <1>0, <1>4, <1>5, <1>7, <1>8, <2>1, OneReplica
<1>10. \A h \in handlers' : h \in Handler /\ \E k \in handlers : h.op = k.op
  BY Zenon, <1>0, <1>7, BroadcastIs, HandlerFields
<1>11. events' \in Nat /\ UNCHANGED <<program, started, committed, states, clerkVars>>
  BY Zenon, <1>0, <1>7, ClerkTypes DEF raftVars
<1> QED
  BY Zenon, <1>9, <1>10, <1>11, ReplicaStep

\* Load() leaves the replica with what was saved.
LEMMA LoadStep ==
  ASSUME IInv, NEW s \in Server, NEW saved \in SavedState, Knows(saved), Load(s, saved),
         UNCHANGED <<program, raftVars, clerkVars>>, events' \in Nat,
         handlers' \subseteq handlers,
         snapshot' \in [Server -> SavedState], \A r \in Server : Knows(snapshot'[r])
  PROVE  IInv'
<1>0. TypeOK /\ ReplicasInv
  BY Zenon DEF IInv
<1>1. UNCHANGED <<program, started, committed, states, clerkVars>>
  BY Zenon DEF raftVars
<1>2. ReplicaTypes' /\ ReplicasInv'
  BY Zenon, <1>0, <1>1, OneReplica DEF Load
<1>3. \A h \in handlers' : h \in Handler /\ \E k \in handlers : h.op = k.op
  BY Zenon, <1>0, HandlerFields
<1> QED
  BY Zenon, <1>1, <1>2, <1>3, ReplicaStep

\* A snapshot that is taken or installed is what a prefix leads to.
LEMMA SnapshotChange ==
  ASSUME TypeOK, ReplicasInv, NEW s \in Server, NEW saved \in SavedState, Knows(saved),
         snapshot' = [snapshot EXCEPT ![s] = saved]
  PROVE  snapshot' \in [Server -> SavedState] /\ \A r \in Server : Knows(snapshot'[r])
<1>1. snapshot \in [Server -> SavedState]
  BY Zenon DEF TypeOK, SavedState
<1>2. ASSUME NEW r \in Server PROVE Knows(snapshot'[r])
  <2>1. snapshot'[r] = IF r = s THEN saved ELSE snapshot[r]
    BY Zenon, <1>1
  <2> QED
    BY Zenon, <2>1 DEF ReplicasInv
<1> QED
  BY Zenon, <1>1, <1>2

\* A step that changes no replica but what is saved.
LEMMA SaveStep ==
  ASSUME IInv, NEW s \in Server, NEW saved \in SavedState, Knows(saved),
         snapshot' = [snapshot EXCEPT ![s] = saved], events' \in Nat,
         UNCHANGED <<program, raftVars, Data, LastOp, LastApplied, handlers, clerkVars>>
  PROVE  IInv'
<1>0. TypeOK /\ ReplicasInv
  BY Zenon DEF IInv
<1>1. UNCHANGED <<program, started, committed, states, clerkVars>>
  BY Zenon DEF raftVars
<1>2. snapshot' \in [Server -> SavedState] /\ \A r \in Server : Knows(snapshot'[r])
  BY Zenon, <1>0, SnapshotChange
<1>3. ReplicaTypes'
  BY Zenon, <1>0, <1>2, SavedFacts DEF ReplicaTypes
<1>4. ReplicasInv'
  <2>1. \A r \in Server : Knows(Saved(r))'
    BY Zenon, <1>0, <1>1 DEF ReplicasInv, Knows, Saved
  <2>2. \A r \in Server : Knows(snapshot[r])'
    BY Zenon, <1>1, <1>2 DEF Knows
  <2> QED
    BY Zenon, <2>1, <2>2 DEF ReplicasInv
<1>5. \A h \in handlers' : h \in Handler /\ \E k \in handlers : h.op = k.op
  BY Zenon, <1>0, HandlerFields
<1> QED
  BY Zenon, <1>1, <1>3, <1>4, <1>5, ReplicaStep

\* makeSnapshot(), applySnapshot() and a restart.
LEMMA SnapshotSteps ==
  ASSUME IInv, NEW s \in Server, NEW p \in Server,
         makeSnapshot(s) \/ applySnapshot(s, p) \/ Crash(s)
  PROVE  IInv'
<1>0. TypeOK /\ ReplicasInv /\ events \in Nat
  BY Zenon DEF IInv, TypeOK
<1>1. \A r \in Server : /\ Saved(r) \in SavedState /\ snapshot[r] \in SavedState
                        /\ Knows(Saved(r)) /\ Knows(snapshot[r])
  BY Zenon, <1>0, SavedFacts DEF ReplicasInv
<1>2. CASE makeSnapshot(s)
  <2>1. /\ snapshot' = [snapshot EXCEPT ![s] = Saved(s)] /\ events' \in Nat
        /\ UNCHANGED <<program, raftVars, Data, LastOp, LastApplied, handlers, clerkVars>>
    BY <1>0, <1>2 DEF makeSnapshot, Event
  <2> QED
    BY Zenon, <1>1, <2>1, SaveStep
<1>3. CASE applySnapshot(s, p)
  <2>1. /\ snapshot' = [snapshot EXCEPT ![s] = snapshot[p]]
        /\ UNCHANGED <<program, raftVars, handlers, clerkVars, events>>
        /\ \/ UNCHANGED <<Data, LastOp, LastApplied>>
           \/ Load(s, snapshot[p])
    BY Zenon, <1>3 DEF applySnapshot
  <2>2. CASE UNCHANGED <<Data, LastOp, LastApplied>>
    BY Zenon, <1>0, <1>1, <2>1, <2>2, SaveStep
  <2>3. CASE Load(s, snapshot[p])
    <3>1. snapshot' \in [Server -> SavedState] /\ \A r \in Server : Knows(snapshot'[r])
      BY Zenon, <1>0, <1>1, <2>1, SnapshotChange
    <3> QED
      BY Zenon, <1>0, <1>1, <2>1, <2>3, <3>1, LoadStep
  <2> QED
    BY Zenon, <2>1, <2>2, <2>3
<1>4. CASE Crash(s)
  <2>1. /\ Load(s, snapshot[s]) /\ events' \in Nat /\ handlers' \subseteq handlers
        /\ UNCHANGED <<program, raftVars, snapshot, clerkVars>>
    BY <1>0, <1>4 DEF Crash, Event
  <2>2. snapshot' \in [Server -> SavedState] /\ \A r \in Server : Knows(snapshot'[r])
    BY Zenon, <1>0, <1>1, <2>1 DEF TypeOK, SavedState
  <2> QED
    BY Zenon, <1>1, <2>1, <2>2, LoadStep
<1> QED
  BY Zenon, <1>2, <1>3, <1>4

\* An operation that is lost.
LEMMA LoseStep ==
  ASSUME IInv, NEW op \in DOMAIN started, Lose(op)
  PROVE  IInv'
<1>0. TypeOK /\ DOMAIN started \subseteq Op /\ events \in Nat /\ rpc \in [Client -> Nat]
  BY Zenon DEF IInv, TypeOK
<1>1. /\ started' = OneLess(op) /\ Event
      /\ UNCHANGED <<program, committed, states, stateVars, handlers, clerkVars>>
  BY Zenon DEF Lose
<1>2. DOMAIN started' \subseteq DOMAIN started
  BY Zenon, <1>1 DEF OneLess
<1>3. events' \in Nat /\ handlers \in SUBSET Handler
  BY <1>0, <1>1, HandlerFields DEF Event
<1>4. /\ UNCHANGED <<NextCallID, lastLeader, trying, answer>>
      /\ rpc' \in [Client -> Nat] /\ fromLeader' \in [Client -> BOOLEAN]
  BY Zenon, <1>0, <1>1, ClerkTypes DEF clerkVars
<1> QED
  BY Zenon, <1>0, <1>1, <1>2, <1>3, <1>4, SameCalls

-----------------------------------------------------------------------------
(***************************************************************************)
(* An operation is committed.                                              *)
(***************************************************************************)

\* What an operation leads to.
LEMMA AfterIs ==
  ASSUME NEW state \in State, NEW op \in Op, Kind(op) \in {"Get", "Put", "Append"}
  PROVE  /\ After(state, op) \in State
         /\ Executed(state.LastOp, op) => After(state, op) = state
         /\ ~Executed(state.LastOp, op) =>
              /\ After(state, op).Data = Effect(state.Data, op)
              /\ After(state, op).LastOp[op.ClientId].CallId = op.CallId
              /\ Kind(op) = "Get" => After(state, op).LastOp[op.ClientId].Result = state.Data
              /\ Kind(op) # "Get" => After(state, op).LastOp[op.ClientId].Result = <<>>
              /\ \A c \in Client \ {op.ClientId} : After(state, op).LastOp[c] = state.LastOp[c]
<1>0. /\ op.ClientId \in Client /\ op.CallId \in Nat
      /\ state.Data \in Value /\ state.LastOp \in LastOps
  BY Zenon DEF Op, State
<1>1. CASE Executed(state.LastOp, op)
  BY Zenon, <1>1 DEF After
<1>2. CASE ~Executed(state.LastOp, op)
  <2> DEFINE data   == Effect(state.Data, op)
             entry  == [CallId |-> op.CallId,
                        Result |-> IF Kind(op) = "Get" THEN state.Data ELSE <<>>]
             record == [state.LastOp EXCEPT ![op.ClientId] = entry]
  <2>1. data \in Value
    BY <1>0 DEF Effect, Value
  <2>2. entry \in [CallId : Nat \cup {-1}, Result : Value]
    BY <1>0 DEF Value
  <2>3. /\ record \in LastOps /\ record[op.ClientId] = entry
        /\ \A c \in Client \ {op.ClientId} : record[c] = state.LastOp[c]
    <3> HIDE DEF entry
    <3> QED
      BY Zenon, <1>0, <2>2 DEF LastOps
  <2>4. After(state, op) = [Data |-> data, LastOp |-> record]
    BY Zenon, <1>2 DEF After, Record
  <2>5. /\ entry.CallId = op.CallId /\ (Kind(op) = "Get" => entry.Result = state.Data)
        /\ Kind(op) # "Get" => entry.Result = <<>>
    BY Zenon
  <2> HIDE DEF data, entry, record
  <2>6. /\ After(state, op) \in State /\ After(state, op).Data = data
        /\ After(state, op).LastOp = record
    BY <2>1, <2>3, <2>4 DEF State
  <2> QED
    BY Zenon, <1>2, <2>3, <2>5, <2>6 DEF data
<1> QED
  BY Zenon, <1>1, <1>2

\* What is called has a kind.
LEMMA KindIs ==
  ASSUME TypeOK, NEW op \in Op, op.CallId < NextCallID[op.ClientId], ClerkOK(op.ClientId)
  PROVE  Kind(op) \in {"Get", "Put", "Append"}
<1>1. /\ op.ClientId \in Client /\ op.CallId \in Nat /\ NextCallID[op.ClientId] \in Nat
      /\ program[op.ClientId] \in Seq({"Get", "Put", "Append"})
      /\ NextCallID[op.ClientId] <= Len(program[op.ClientId])
  BY Zenon DEF Op, TypeOK, ClerkOK
<1>2. op.CallId + 1 \in 1 .. Len(program[op.ClientId])
  BY <1>1
<1> QED
  BY <1>1, <1>2 DEF Kind

\* What is committed was called, and leads from the final state to the next one.
LEMMA CommitOp ==
  ASSUME IInv, NEW op \in DOMAIN started, Commit(op)
  PROVE  /\ op \in Op /\ op.ClientId \in Client /\ op.CallId \in Nat
         /\ Kind(op) \in {"Get", "Put", "Append"}
         /\ op.CallId < NextCallID[op.ClientId]
         /\ final = states[Len(states)] /\ final \in State /\ After(final, op) \in State
         /\ final' = After(final, op)
<1>0. TypeOK /\ HistoryInv /\ IssuedInv /\ \A c \in Client : ClerkOK(c)
  BY Zenon DEF IInv
<1>1. /\ states \in Seq(State) /\ DOMAIN started \subseteq Op
      /\ committed \in Seq(Op) /\ Len(states) = Len(committed) + 1
  BY Zenon, <1>0 DEF TypeOK, State, HistoryInv
<1>2. op \in Op /\ op.ClientId \in Client /\ op.CallId \in Nat
  BY Zenon, <1>1 DEF Op
<1>3. op.CallId < NextCallID[op.ClientId]
  BY Zenon, <1>0 DEF IssuedInv
<1>4. Kind(op) \in {"Get", "Put", "Append"}
  BY Zenon, <1>0, <1>2, <1>3, KindIs
<1>5. final = states[Len(states)] /\ final \in State
  BY <1>1 DEF final
<1>6. After(final, op) \in State
  BY Zenon, <1>2, <1>4, <1>5, AfterIs
<1>7. final' = After(final, op)
  <2>1. states' = Append(states, After(final, op))
    BY Zenon DEF Commit
  <2>2. Len(states') = Len(states) + 1 /\ states'[Len(states) + 1] = After(final, op)
    BY <1>1, <1>6, <2>1
  <2> QED
    BY Zenon, <2>2 DEF final
<1> QED
  BY Zenon, <1>2, <1>3, <1>4, <1>5, <1>6, <1>7

\* The log grows by one.
LEMMA CommitLog ==
  ASSUME IInv, NEW op \in DOMAIN started, Commit(op)
  PROVE  /\ Len(committed) \in Nat
         /\ committed' \in Seq(Op) /\ Len(committed') = Len(committed) + 1
         /\ committed'[Len(committed) + 1] = op
         /\ \A i \in 1 .. Len(committed) : committed'[i] = committed[i]
<1>1. committed \in Seq(Op) /\ DOMAIN started \subseteq Op
  BY Zenon DEF IInv, TypeOK
<1>2. committed' = Append(committed, op)
  BY Zenon DEF Commit
<1> QED
  BY <1>1, <1>2

\* The history grows by one.
LEMMA CommitStates ==
  ASSUME IInv, NEW op \in DOMAIN started, Commit(op)
  PROVE  /\ Len(committed) \in Nat /\ Len(states) = Len(committed) + 1
         /\ states' \in Seq(State) /\ Len(states') = Len(states) + 1
         /\ states'[Len(states) + 1] = After(final, op)
         /\ \A i \in 1 .. Len(states) : states'[i] = states[i]
<1>1. /\ committed \in Seq(Op) /\ states \in Seq(State)
      /\ Len(states) = Len(committed) + 1
  BY Zenon DEF IInv, TypeOK, State, HistoryInv
<1>2. After(final, op) \in State
  BY Zenon, CommitOp
<1>3. states' = Append(states, After(final, op))
  BY Zenon DEF Commit
<1> QED
  BY <1>1, <1>2, <1>3

\* An operation is executed where it stands first in the log, right after the call
\* of its client before it.
LEMMA CommitFirst ==
  ASSUME IInv, NEW op \in DOMAIN started, Commit(op)
  PROVE  LET c == op.ClientId IN
         /\ final.LastOp[c].CallId \in Nat \cup {-1}
         /\ Executed(final.LastOp, op) <=> op.CallId <= final.LastOp[c].CallId
         /\ Executed(final.LastOp, op) <=> Holds(Len(committed), op)
         /\ ~Executed(final.LastOp, op) =>
              /\ op.CallId = final.LastOp[c].CallId + 1
              /\ op.CallId = NextCallID[c] - 1 /\ trying[c] # 0
<1> DEFINE c    == op.ClientId
           last == final.LastOp[c].CallId
           n    == Len(committed)
<1>0. TypeOK /\ HistoryInv /\ ClerkOK(c) /\ c \in Client /\ NextCallID[c] \in Nat
  BY Zenon, CommitOp DEF IInv, TypeOK
<1>1. last \in Nat \cup {-1}
  <2>1. final.LastOp \in LastOps
    BY Zenon, CommitOp DEF State
  <2> QED
    BY Zenon, <1>0, <2>1 DEF LastOps
<1>2. Executed(final.LastOp, op) <=> op.CallId <= last
  BY Zenon, CommitOp, <1>1 DEF Executed
<1>3. ASSUME op.CallId <= last PROVE Holds(n, op)
  <2>1. NoGap(Len(states)) /\ Len(states) - 1 = n
    BY <1>0, CommitStates DEF HistoryInv
  <2>2. op.CallId \in 0 .. last /\ final = states[Len(states)]
    BY <1>1, <1>3, CommitOp
  <2>3. op = [ClientId |-> c, CallId |-> op.CallId]
    BY Zenon, CommitOp DEF Op
  <2> QED
    BY Zenon, <1>0, <2>1, <2>2, <2>3 DEF NoGap
<1>4. ASSUME Holds(n, op) PROVE op.CallId <= last
  <2>1. PICK p \in 1 .. n : committed[p] = op
    BY Zenon, <1>4 DEF Holds
  <2>2. EntryRight(c, final.LastOp[c], n)
    <3>1. Len(states) - 1 = n /\ Len(states) \in 1 .. Len(states)
      BY CommitStates
    <3>2. EntryRight(c, states[Len(states)].LastOp[c], Len(states) - 1)
      BY Zenon, <1>0, <3>1 DEF HistoryInv
    <3>3. final = states[Len(states)]
      BY Zenon, CommitOp
    <3> QED
      BY Zenon, <3>1, <3>2, <3>3
  <2> QED
    BY Zenon, <1>0, <2>1, <2>2 DEF EntryRight
<1>5. ASSUME ~(op.CallId <= last)
      PROVE  op.CallId = last + 1 /\ op.CallId = NextCallID[c] - 1 /\ trying[c] # 0
  <2>1. op.CallId \in Nat /\ op.CallId < NextCallID[c]
    BY Zenon, CommitOp
  <2>2. \/ trying[c] = 0 /\ last = NextCallID[c] - 1
        \/ trying[c] # 0 /\ last \in {NextCallID[c] - 2, NextCallID[c] - 1}
    BY Zenon, <1>0 DEF ClerkOK
  <2> HIDE DEF last
  <2> QED
    BY <1>0, <1>1, <1>5, <2>1, <2>2
<1> QED
  BY Zenon, <1>1, <1>2, <1>3, <1>4, <1>5

\* What the log held it holds.
LEMMA CommitHolds ==
  ASSUME IInv, NEW op \in DOMAIN started, Commit(op), NEW n \in 0 .. Len(committed), NEW o
  PROVE  Holds(n, o)' <=> Holds(n, o)
<1>1. \A i \in 1 .. n : committed'[i] = committed[i]
  BY CommitLog
<1> QED
  BY Zenon, <1>1 DEF Holds

\* What is known of a client after an old prefix stays right.
LEMMA CommitOld ==
  ASSUME IInv, NEW op \in DOMAIN started, Commit(op), NEW n \in 0 .. Len(committed),
         NEW c \in Client, NEW e, EntryRight(c, e, n)
  PROVE  EntryRight(c, e, n)'
<1>1. /\ \A i \in 1 .. n : /\ committed'[i] = committed[i] /\ states'[i] = states[i]
                           /\ i - 1 \in 0 .. Len(committed)
      /\ \A o : Kind(o)' = Kind(o)
  BY CommitLog, CommitStates DEF Commit, Kind
<1>2. ASSUME NEW i \in 1 .. n, NEW o PROVE Holds(i - 1, o)' <=> Holds(i - 1, o)
  BY Zenon, <1>1, CommitHolds
<1> QED
  BY Zenon, <1>1, <1>2 DEF EntryRight

\* What is known of a client after the whole log is right.
LEMMA CommitNew ==
  ASSUME IInv, NEW op \in DOMAIN started, Commit(op), NEW n \in Nat, n = Len(committed),
         NEW c \in Client, NEW old, old = final.LastOp[c],
         NEW new, new = After(final, op).LastOp[c]
  PROVE  EntryRight(c, new, n + 1)'
<1>0. /\ HistoryInv /\ final \in State /\ op \in Op /\ op.ClientId \in Client
      /\ op.CallId \in Nat /\ Kind(op) \in {"Get", "Put", "Append"} /\ Kind(op)' = Kind(op)
  BY Zenon, CommitOp DEF IInv, Commit, Kind
<1>1. EntryRight(c, old, n) /\ EntryRight(c, old, n)'
  <2>1. EntryRight(c, states[Len(states)].LastOp[c], Len(states) - 1)
    BY <1>0, CommitStates DEF HistoryInv
  <2>2. EntryRight(c, old, n) /\ n \in 0 .. Len(committed)
    BY <2>1, CommitStates, CommitOp
  <2> QED
    BY Zenon, <2>2, CommitOld
<1>2. committed'[n + 1] = op /\ states'[n + 1] = final
  BY CommitLog, CommitStates, CommitOp
<1>3. CASE op.ClientId # c
  <2>1. new = old
    BY <1>0, <1>3, AfterIs
  <2> QED
    BY <1>1, <1>2, <1>3, <2>1 DEF EntryRight
<1>4. CASE op.ClientId = c /\ Executed(final.LastOp, op)
  <2>1. new = old /\ op.CallId <= old.CallId /\ Holds(n, op)'
    BY <1>0, <1>4, AfterIs, CommitFirst, CommitHolds
  <2>2. PICK q \in 1 .. n : committed'[q] = op
    BY Zenon, <2>1 DEF Holds
  <2> DEFINE o == [ClientId |-> c, CallId |-> old.CallId]
  <2>3. /\ \A p \in 1 .. n : committed'[p].ClientId = c => committed'[p].CallId <= old.CallId
        /\ \E p \in 1 .. n : /\ committed'[p] = o /\ ~Holds(p - 1, o)'
                             /\ Kind(o)' = "Get" => old.Result = states'[p].Data
    BY Zenon, <1>1, <1>4, <2>2 DEF EntryRight
  <2>4. \A p \in 1 .. n + 1 : committed'[p].ClientId = c => committed'[p].CallId <= old.CallId
    <3>1. committed'[n + 1].CallId <= old.CallId
      BY Zenon, <1>2, <2>1
    <3>2. \A p \in 1 .. n + 1 : p \in 1 .. n \/ p = n + 1
      OBVIOUS
    <3> QED
      BY Zenon, <2>3, <3>1, <3>2
  <2>5. \A p \in 1 .. n : p \in 1 .. n + 1
    OBVIOUS
  <2> QED
    BY Zenon, <2>1, <2>3, <2>4, <2>5 DEF EntryRight
<1>5. CASE op.ClientId = c /\ ~Executed(final.LastOp, op)
  <2>1. /\ new.CallId = op.CallId /\ (Kind(op) = "Get" => new.Result = final.Data)
        /\ op = [ClientId |-> c, CallId |-> op.CallId]
    BY Zenon, <1>0, <1>5, AfterIs DEF Op
  <2>2. op.CallId = old.CallId + 1 /\ ~Holds(n, op)'
    BY <1>0, <1>5, CommitFirst, CommitHolds
  <2>3. ASSUME NEW p \in 1 .. n + 1, committed'[p].ClientId = c
        PROVE  committed'[p].CallId <= new.CallId
    <3>1. CASE p = n + 1
      BY <1>0, <1>2, <2>1, <3>1
    <3>2. CASE p \in 1 .. n
      <4>1. committed'[p].CallId <= old.CallId
        BY Zenon, <1>1, <2>3, <3>2 DEF EntryRight
      <4>2. committed'[p].CallId \in Nat /\ old.CallId \in Int
        <5>1. committed' \in Seq(Op) /\ p \in 1 .. Len(committed')
          <6>1. committed' \in Seq(Op) /\ Len(committed') = n + 1
            BY Zenon, CommitLog
          <6> QED
            BY Zenon, <3>2, <6>1
        <5>2. old.CallId \in Nat \cup {-1}
          BY Zenon, <1>5, CommitFirst
        <5>3. committed'[p] \in Op
          BY <5>1
        <5> QED
          BY <5>2, <5>3 DEF Op
      <4> QED
        BY <1>0, <2>1, <2>2, <4>1, <4>2
    <3> QED
      BY <3>1, <3>2
  <2>4. /\ n + 1 \in 1 .. n + 1 /\ committed'[n + 1] = op /\ ~Holds((n + 1) - 1, op)'
        /\ Kind(op)' = "Get" => new.Result = states'[n + 1].Data
    BY <1>0, <1>2, <2>1, <2>2
  <2> QED
    BY Zenon, <2>1, <2>3, <2>4 DEF EntryRight
<1> QED
  BY Zenon, <1>3, <1>4, <1>5

\* The history of the longer log.
LEMMA CommitHistory ==
  ASSUME IInv, NEW op \in DOMAIN started, Commit(op)
  PROVE  HistoryInv'
<1>1. PICK n \in Nat, last \in State, new \in State :
        n = Len(committed) /\ last = final /\ new = After(final, op)
  BY Zenon, CommitOp, CommitLog, AfterIs
<1>2. /\ Len(states) = n + 1 /\ Len(states') = n + 2 /\ Len(committed') = n + 1
      /\ \A i \in 1 .. n : committed'[i] = committed[i]
      /\ \A i \in 1 .. n + 1 : states'[i] = states[i]
      /\ committed'[n + 1] = op /\ states'[n + 1] = last /\ states'[n + 2] = new
      /\ last \in State /\ op \in Op /\ Kind(op) \in {"Get", "Put", "Append"}
  BY <1>1, CommitLog, CommitStates, CommitOp
<1>3. HistoryInv /\ \A o : Kind(o)' = Kind(o)
  BY Zenon DEF IInv, Commit, Kind
<1>4. /\ \A v, o : Effect(v, o)' = Effect(v, o)
      /\ \A state, o : After(state, o)' = After(state, o)
  BY Zenon, <1>3 DEF Effect, After, Record, Executed
<1>5. ASSUME NEW i \in 1 .. n + 1 PROVE i \in 1 .. n \/ i = n + 1
  OBVIOUS
<1>6. ASSUME NEW i \in 1 .. n + 2 PROVE i \in 1 .. n + 1 \/ i = n + 2
  OBVIOUS
<1>7. ASSUME NEW i \in 1 .. n + 1 PROVE i - 1 \in 0 .. n
  OBVIOUS
<1>8. FirstCounts'
  <2>1. states'[1].Data = <<>>
    BY <1>2, <1>3 DEF HistoryInv, FirstCounts
  <2>2. ASSUME NEW i \in 1 .. n
        PROVE  states'[i + 1].Data = IF Holds(i - 1, committed[i])' THEN states'[i].Data
                                     ELSE Effect(states[i].Data, committed[i])'
    <3>1. states[i + 1].Data = IF Holds(i - 1, committed[i]) THEN states[i].Data
                               ELSE Effect(states[i].Data, committed[i])
      BY Zenon, <1>1, <1>3 DEF HistoryInv, FirstCounts
    <3>2. /\ committed'[i] = committed[i]
          /\ states'[i] = states[i] /\ states'[i + 1] = states[i + 1]
          /\ i - 1 \in 0 .. Len(committed)
      BY <1>1, <1>2
    <3>3. Holds(i - 1, committed[i])' <=> Holds(i - 1, committed[i])
      <4>1. ASSUME NEW o PROVE Holds(i - 1, o)' <=> Holds(i - 1, o)
        BY Zenon, <3>2, CommitHolds
      <4> QED
        BY Zenon, <3>2, <4>1
    <3>4. Effect(states[i].Data, committed[i])' = Effect(states[i].Data, committed[i])
      BY Zenon, <1>4, <3>2
    <3> QED
      BY Zenon, <3>1, <3>2, <3>3, <3>4
  <2>3. new.Data = IF Holds(n, op)' THEN last.Data ELSE Effect(last.Data, op)'
    <3>1. Holds(n, op)' <=> Executed(last.LastOp, op)
      BY <1>1, CommitFirst, CommitHolds
    <3>2. Effect(last.Data, op)' = Effect(last.Data, op)
      BY Zenon, <1>4
    <3> QED
      BY <1>1, <1>2, <3>1, <3>2, AfterIs
  <2>4. (n + 1) - 1 = n /\ (n + 1) + 1 = n + 2
    OBVIOUS
  <2>5. ASSUME NEW i \in 1 .. n + 1
        PROVE  states'[i + 1].Data = IF Holds(i - 1, committed[i])' THEN states'[i].Data
                                     ELSE Effect(states[i].Data, committed[i])'
    <3>1. CASE i = n + 1
      BY Zenon, <1>2, <2>3, <2>4, <3>1
    <3> QED
      BY Zenon, <1>5, <2>2, <3>1
  <2> QED
    BY Zenon, <1>2, <2>1, <2>5 DEF FirstCounts
<1>9. ASSUME NEW i \in 1 .. n + 1
      PROVE  states'[i + 1] = After(states[i], committed[i])'
  <2>1. CASE i \in 1 .. n
    <3>1. states[i + 1] = After(states[i], committed[i])
      BY Zenon, <1>1, <1>3, <2>1 DEF HistoryInv
    <3>2. committed'[i] = committed[i] /\ states'[i] = states[i] /\ states'[i + 1] = states[i + 1]
      BY <1>2, <2>1
    <3> QED
      BY Zenon, <1>4, <3>1, <3>2
  <2>2. CASE i = n + 1
    <3>1. (n + 1) + 1 = n + 2
      OBVIOUS
    <3> QED
      BY Zenon, <1>1, <1>2, <1>4, <2>2, <3>1
  <2> QED
    BY Zenon, <1>5, <2>1, <2>2
<1>10. ASSUME NEW i \in 1 .. n + 2, NEW c \in Client
       PROVE  EntryRight(c, states[i].LastOp[c], i - 1)'
  <2>1. CASE i \in 1 .. n + 1
    <3>1. EntryRight(c, states[i].LastOp[c], i - 1)
      BY Zenon, <1>2, <1>3, <2>1 DEF HistoryInv
    <3>2. i - 1 \in 0 .. Len(committed) /\ states'[i] = states[i]
      BY Zenon, <1>1, <1>2, <1>7, <2>1
    <3>3. ASSUME NEW e, EntryRight(c, e, i - 1) PROVE EntryRight(c, e, i - 1)'
      BY Zenon, <3>2, <3>3, CommitOld
    <3> QED
      BY Zenon, <3>1, <3>2, <3>3
  <2>2. CASE i = n + 2
    <3>1. ASSUME NEW e, e = new.LastOp[c] PROVE EntryRight(c, e, n + 1)'
      BY Zenon, <1>1, <3>1, CommitNew
    <3>2. i - 1 = n + 1 /\ states'[i] = new
      BY <1>2, <2>2
    <3> QED
      BY Zenon, <3>1, <3>2
  <2> QED
    BY Zenon, <1>6, <2>1, <2>2
<1>11. ASSUME NEW i \in 1 .. n + 2 PROVE NoGap(i)'
  <2>1. ASSUME NEW j \in 1 .. n + 1, NEW c \in Client, NEW k \in 0 .. states'[j].LastOp[c].CallId
        PROVE  Holds(j - 1, [ClientId |-> c, CallId |-> k])'
    <3>1. NoGap(j) /\ states'[j] = states[j] /\ j - 1 \in 0 .. Len(committed)
      BY Zenon, <1>1, <1>2, <1>3, <1>7 DEF HistoryInv
    <3>2. Holds(j - 1, [ClientId |-> c, CallId |-> k])
      BY Zenon, <2>1, <3>1 DEF NoGap
    <3> QED
      BY Zenon, <3>1, <3>2, CommitHolds
  <2>2. ASSUME NEW c \in Client, NEW k \in 0 .. new.LastOp[c].CallId
        PROVE  Holds(n + 1, [ClientId |-> c, CallId |-> k])'
    <3>1. CASE k \in 0 .. last.LastOp[c].CallId
      <4>1. n + 1 \in 1 .. n + 1 /\ (n + 1) - 1 = n
        OBVIOUS
      <4>2. Holds(n, [ClientId |-> c, CallId |-> k])'
        BY Zenon, <1>2, <2>1, <3>1, <4>1
      <4> QED
        BY <4>2 DEF Holds
    <3>2. CASE k \notin 0 .. last.LastOp[c].CallId
      <4>1. op.ClientId = c /\ ~Executed(last.LastOp, op)
        <5>1. new.LastOp[c] # last.LastOp[c]
          BY Zenon, <2>2, <3>2
        <5> QED
          BY <1>1, <1>2, <5>1, AfterIs
      <4>2. new.LastOp[c].CallId = op.CallId /\ op.CallId = last.LastOp[c].CallId + 1
        BY <1>1, <1>2, <4>1, AfterIs, CommitFirst
      <4>3. last.LastOp[c].CallId \in Nat \cup {-1}
        BY Zenon, <1>1, <4>1, CommitFirst
      <4>4. k = op.CallId
        BY <2>2, <3>2, <4>2, <4>3
      <4>5. op = [ClientId |-> c, CallId |-> k]
        BY Zenon, <1>2, <4>1, <4>4 DEF Op
      <4> QED
        BY <1>2, <4>5 DEF Holds
    <3> QED
      BY Zenon, <3>1, <3>2
  <2>3. (n + 2) - 1 = n + 1
    OBVIOUS
  <2> QED
    BY Zenon, <1>2, <1>6, <2>1, <2>2, <2>3 DEF NoGap
<1>12. ASSUME NEW i \in 1 .. n + 2, NEW j \in 1 .. n + 2, i <= j
       PROVE  Later(states[i].LastOp, states[j].LastOp)'
  <2>1. ASSUME NEW a \in 1 .. n + 1, NEW b \in 1 .. n + 1, a <= b
        PROVE  Later(states'[a].LastOp, states'[b].LastOp)
    BY Zenon, <1>2, <1>3, <2>1 DEF HistoryInv
  <2>2. Later(last.LastOp, new.LastOp)
    <3>1. ASSUME NEW c \in Client
          PROVE  /\ last.LastOp[c].CallId <= new.LastOp[c].CallId
                 /\ last.LastOp[c].CallId = new.LastOp[c].CallId => last.LastOp[c] = new.LastOp[c]
      <4>1. last.LastOp[c].CallId \in Nat \cup {-1}
        BY Zenon, <1>2 DEF State, LastOps
      <4>2. CASE op.ClientId = c /\ ~Executed(last.LastOp, op)
        <5>1. new.LastOp[c].CallId = op.CallId /\ op.CallId = last.LastOp[c].CallId + 1
          BY <1>1, <1>2, <4>2, AfterIs, CommitFirst
        <5> QED
          BY <4>1, <5>1
      <4>3. CASE ~(op.ClientId = c /\ ~Executed(last.LastOp, op))
        <5>1. new.LastOp[c] = last.LastOp[c]
          BY <1>1, <1>2, <4>3, AfterIs
        <5> QED
          BY <4>1, <5>1
      <4> QED
        BY Zenon, <4>2, <4>3
    <3> QED
      BY Zenon, <3>1 DEF Later
  <2>3. CASE j \in 1 .. n + 1
    <3>1. i \in 1 .. n + 1
      BY <1>12, <2>3
    <3> QED
      BY Zenon, <1>12, <2>1, <2>3, <3>1 DEF Later
  <2>4. CASE j = n + 2 /\ i \in 1 .. n + 1
    <3>1. Later(states'[i].LastOp, last.LastOp)
      <4>1. n + 1 \in 1 .. n + 1 /\ i <= n + 1
        BY <2>4
      <4> QED
        BY Zenon, <1>2, <2>1, <2>4, <4>1
    <3>2. ASSUME NEW c \in Client
          PROVE  /\ states'[i].LastOp[c].CallId \in Int /\ last.LastOp[c].CallId \in Int
                 /\ new.LastOp[c].CallId \in Int
      <4>1. states'[i] \in State /\ new \in State
        <5>1. states' \in Seq(State) /\ i \in 1 .. Len(states') /\ n + 2 \in 1 .. Len(states')
          BY Zenon, <1>2, <2>4, CommitStates
        <5> QED
          BY <1>2, <5>1
      <4> QED
        BY <1>2, <4>1 DEF State, LastOps
    <3> QED
      BY <1>2, <2>2, <2>4, <3>1, <3>2 DEF Later
  <2>5. CASE j = n + 2 /\ i = n + 2
    <3>1. ASSUME NEW c \in Client PROVE new.LastOp[c].CallId \in Int
      <4>1. new \in State
        BY Zenon, <1>1, <1>2, AfterIs
      <4> QED
        BY <4>1 DEF State, LastOps
    <3> QED
      BY <1>2, <2>5, <3>1 DEF Later
  <2> QED
    BY Zenon, <1>6, <2>3, <2>4, <2>5
<1> QED
  BY <1>2, <1>8, <1>9, <1>10, <1>11, <1>12 DEF HistoryInv

\* An operation is committed.
LEMMA CommitStep ==
  ASSUME IInv, NEW op \in DOMAIN started, Commit(op)
  PROVE  IInv'
<1>0. TypeOK /\ ReplicasInv /\ IssuedInv /\ \A c \in Client : ClerkOK(c)
  BY Zenon DEF IInv
<1>1. /\ started' = OneLess(op)
      /\ UNCHANGED <<program, stateVars, handlers, clerkVars, events>>
  BY Zenon DEF Commit
<1>2. UNCHANGED <<NextCallID, lastLeader, trying, fromLeader, rpc, answer>>
  BY Zenon, <1>1 DEF clerkVars
<1>3. DOMAIN started' \subseteq DOMAIN started
  BY Zenon, <1>1 DEF OneLess
<1>4. UNCHANGED <<Data, LastOp, LastApplied, snapshot>>
  BY Zenon, <1>1 DEF stateVars
<1>5. TypeOK'
  <2>1. committed' \in Seq(Op) /\ states' \in Seq(State)
    BY Zenon, CommitLog, CommitStates
  <2> QED
    BY Zenon, <1>0, <1>1, <1>2, <1>3, <1>4, <2>1 DEF TypeOK, State
<1>6. ReplicasInv'
  <2>1. ASSUME NEW st, Knows(st) PROVE Knows(st)'
    <3>1. /\ \A i \in 1 .. Len(states) : states'[i] = states[i]
          /\ Len(states) \in Nat /\ Len(states') = Len(states) + 1
      BY CommitStates
    <3>2. st.LastApplied + 1 \in 1 .. Len(states')
      BY <2>1, <3>1 DEF Knows
    <3> QED
      BY Zenon, <2>1, <3>1, <3>2 DEF Knows
  <2>2. ASSUME NEW s \in Server PROVE Knows(Saved(s))' /\ Knows(snapshot[s])'
    <3>1. /\ Knows(Saved(s)) /\ Knows(snapshot[s])
          /\ Saved(s)' = Saved(s) /\ snapshot'[s] = snapshot[s]
      BY Zenon, <1>0, <1>4 DEF ReplicasInv, Saved
    <3> QED
      BY Zenon, <2>1, <3>1
  <2> QED
    BY Zenon, <2>2 DEF ReplicasInv
<1>7. IssuedInv'
  BY Zenon, <1>0, <1>1, <1>2, <1>3 DEF IssuedInv
<1>8. ASSUME NEW c \in Client PROVE ClerkOK(c)'
  <2>1. /\ final' = After(final, op) /\ final \in State /\ op \in Op
        /\ Kind(op) \in {"Get", "Put", "Append"}
    BY Zenon, CommitOp
  <2>2. CASE op.ClientId = c /\ ~Executed(final.LastOp, op)
    <3>1. final'.LastOp[c].CallId = NextCallID[c] - 1 /\ trying[c] # 0
      BY Zenon, <2>1, <2>2, AfterIs, CommitFirst
    <3> QED
      BY Zenon, <1>0, <1>1, <1>2, <2>2, <3>1 DEF ClerkOK
  <2>3. CASE ~(op.ClientId = c /\ ~Executed(final.LastOp, op))
    <3>1. final'.LastOp[c] = final.LastOp[c]
      BY <2>1, <2>3, AfterIs
    <3> QED
      BY Zenon, <1>0, <1>1, <1>2, <3>1 DEF ClerkOK
  <2> QED
    BY Zenon, <2>2, <2>3
<1> QED
  BY Zenon, <1>5, <1>6, <1>7, <1>8, CommitHistory DEF IInv

-----------------------------------------------------------------------------
(***************************************************************************)
(* The invariant holds, and what follows from it.                          *)
(***************************************************************************)

\* The invariant holds initially.
LEMMA InitInv == Init => IInv
<1> SUFFICES ASSUME Init PROVE IInv
  BY Zenon
<1> DEFINE none  == [c \in Client |-> NoOp]
           first == [Data |-> <<>>, LastOp |-> none]
<1>1. NoOp \in [CallId : Nat \cup {-1}, Result : Value] /\ NoOp.CallId = -1 /\ NoOp.Result = <<>>
  BY DEF NoOp, Value
<1>2. none \in LastOps /\ \A c \in Client : none[c] = NoOp
  BY Zenon, <1>1 DEF LastOps
<1>3. first \in State /\ first.Data = <<>> /\ first.LastOp = none
  BY <1>2 DEF State, Value
<1>4. /\ states = <<first>> /\ committed = <<>> /\ handlers = {} /\ started = [o \in {} |-> 0]
      /\ Data = [s \in Server |-> <<>>] /\ LastOp = [s \in Server |-> none]
      /\ LastApplied = [s \in Server |-> 0] /\ snapshot = [s \in Server |-> Saved(s)]
      /\ NextCallID = [c \in Client |-> 0] /\ lastLeader = [c \in Client |-> 0]
      /\ trying = [c \in Client |-> 0] /\ fromLeader = [c \in Client |-> FALSE]
      /\ rpc = [c \in Client |-> 0] /\ answer = [c \in Client |-> <<>>]
  BY Zenon DEF Init, InvalidServer
<1> HIDE DEF first, none
<1>5. /\ states \in Seq(State) /\ Len(states) = 1 /\ states[1] = first /\ final = first
      /\ committed \in Seq(Op) /\ Len(committed) = 0
  BY <1>3, <1>4 DEF final
<1>6. program \in [Client -> Seq({"Get", "Put", "Append"})] /\ events \in Nat
  BY Zenon, ScenarioAssumption DEF Init
<1>7. \A s \in Server : /\ Saved(s) \in SavedState /\ snapshot[s] = Saved(s)
                        /\ Saved(s).LastApplied = 0 /\ Saved(s).Data = <<>>
                        /\ Saved(s).LastOp = none
  BY <1>2, <1>4 DEF Saved, SavedState, Value
<1>8. TypeOK
  <2>1. /\ Data \in [Server -> Value] /\ LastOp \in [Server -> LastOps]
        /\ LastApplied \in [Server -> Nat]
    BY <1>2, <1>4 DEF Value
  <2>2. snapshot \in [Server -> SavedState]
    BY Zenon, <1>4, <1>7
  <2>3. /\ NextCallID \in [Client -> Nat] /\ rpc \in [Client -> Nat]
        /\ lastLeader \in [Client -> 0 .. NServers] /\ trying \in [Client -> 0 .. NServers]
        /\ fromLeader \in [Client -> BOOLEAN] /\ answer \in [Client -> Value]
    BY <1>4 DEF Value
  <2>4. DOMAIN started \subseteq Op /\ handlers \subseteq Handler
    BY Zenon, <1>4
  <2> QED
    BY Zenon, <1>5, <1>6, <2>1, <2>2, <2>3, <2>4 DEF TypeOK, State, SavedState, Handler
<1>9. HistoryInv
  <2>1. FirstCounts
    BY <1>3, <1>5 DEF FirstCounts
  <2>2. ASSUME NEW c \in Client PROVE EntryRight(c, NoOp, 0)
    BY DEF EntryRight
  <2>3. NoGap(1)
    BY <1>1, <1>2, <1>3, <1>5 DEF NoGap
  <2>4. Later(none, none)
    BY <1>1, <1>2 DEF Later
  <2>5. \A n \in 1 .. Len(states) : n = 1 /\ n - 1 = 0
    BY <1>5
  <2> QED
    BY <1>2, <1>3, <1>5, <2>1, <2>2, <2>3, <2>4, <2>5 DEF HistoryInv
<1>10. ReplicasInv
  BY <1>3, <1>5, <1>7 DEF ReplicasInv, Knows
<1>11. IssuedInv
  BY Zenon, <1>4 DEF IssuedInv
<1>12. ASSUME NEW c \in Client PROVE ClerkOK(c)
  <2>1. NextCallID[c] = 0 /\ trying[c] = 0 /\ final.LastOp[c].CallId = -1
    BY Zenon, <1>1, <1>2, <1>3, <1>4, <1>5
  <2>2. Len(program[c]) \in Nat
    BY <1>6
  <2> QED
    BY <2>1, <2>2 DEF ClerkOK
<1> QED
  BY Zenon, <1>8, <1>9, <1>10, <1>11, <1>12 DEF IInv

\* Every step keeps the invariant.
LEMMA NextInv == IInv /\ [Next]_vars => IInv'
<1> SUFFICES ASSUME IInv, [Next]_vars PROVE IInv'
  BY Zenon
<1>1. CASE UNCHANGED vars
  <2>1. /\ UNCHANGED <<program, raftVars, stateVars, handlers, clerkVars, events>>
        /\ UNCHANGED <<program, started, committed, states, stateVars, handlers, NextCallID, lastLeader,
                       trying, fromLeader, rpc, answer, events>>
    BY Zenon, <1>1 DEF vars, raftVars, clerkVars
  <2>2. TypeOK /\ handlers \in SUBSET Handler /\ DOMAIN started' \subseteq Op
    BY Zenon, <2>1, HandlerFields DEF IInv, TypeOK
  <2> QED
    BY Zenon, <2>1, <2>2, ClerkTypes, SameCalls
<1>2. CASE \E c \in Client : Invoke(c) \/ CallFails(c)
  BY Zenon, <1>2, InvokeStep, CallFailsStep
<1>3. CASE \E h \in handlers : GetRPC(h) \/ PutRPC(h) \/ AppendRPC(h)
  BY Zenon, <1>3, HandlerStep
<1>4. CASE \E s \in Server : execOp(s) \/ makeSnapshot(s) \/ Crash(s)
  BY Zenon, <1>4, ExecOpStep, SnapshotSteps
<1>5. CASE \E s, p \in Server : applySnapshot(s, p)
  BY Zenon, <1>5, SnapshotSteps
<1>6. CASE \E op \in DOMAIN started : Commit(op) \/ Lose(op)
  BY Zenon, <1>6, CommitStep, LoseStep
<1> QED
  BY Zenon, <1>1, <1>2, <1>3, <1>4, <1>5, <1>6 DEF Next

\* The invariant always holds.
LEMMA Invariance == Spec => []IInv
BY InitInv, NextInv, PTL DEF Spec

\* For any number of servers, clerks, calls, snapshots and restarts: what a replica
\* or a snapshot holds is what the committed log says, each operation executed once
\* where it stands first, and LastOp has the last call of each client with what it saw.
THEOREM ReplicasFollowLog == Spec => []ReplicasAgree
<1>1. IInv => ReplicasAgree
  <2> SUFFICES ASSUME IInv PROVE ReplicasAgree
    BY Zenon
  <2>0. TypeOK /\ HistoryInv /\ ReplicasInv
    BY Zenon DEF IInv
  <2>1. FirstCounts
    BY Zenon, <2>0 DEF HistoryInv
  <2>2. ASSUME NEW state \in SavedState, Knows(state)
        PROVE  /\ state.Data = states[state.LastApplied + 1].Data
               /\ \A c \in Client : EntryRight(c, state.LastOp[c], state.LastApplied)
    <3>1. PICK n \in Nat : n = state.LastApplied /\ n + 1 \in 1 .. Len(states) /\ (n + 1) - 1 = n
      BY <2>2 DEF Knows, SavedState
    <3>2. \A c \in Client : EntryRight(c, states[n + 1].LastOp[c], n)
      BY Zenon, <2>0, <3>1 DEF HistoryInv
    <3> QED
      BY Zenon, <2>2, <3>1, <3>2 DEF Knows
  <2> QED
    BY Zenon, <2>0, <2>1, <2>2, SavedFacts DEF ReplicasAgree, ReplicasInv
<1> QED
  BY <1>1, Invariance, PTL

-----------------------------------------------------------------------------
(***************************************************************************)
(* The refinement of KVStore.                                              *)
(***************************************************************************)

\* A function changed at one place.
LEMMA ChangedAt ==
  ASSUME NEW S, NEW f, NEW g, f = [d \in S |-> f[d]], g = [d \in S |-> g[d]],
         NEW c \in S, NEW v, g[c] = v, \A d \in S \ {c} : g[d] = f[d]
  PROVE  g = [f EXCEPT ![c] = v]
BY Zenon

\* A function on 1 .. n is a sequence.
LEMMA IsSeq ==
  ASSUME NEW S, NEW n \in Nat, NEW f \in [1 .. n -> S]
  PROVE  f \in Seq(S)
OBVIOUS

\* The initial states map to initial states of KVStore.
LEMMA InitImplements == Init => Store!Init
<1> SUFFICES ASSUME Init PROVE Store!Init
  BY Zenon
<1>1. IInv /\ program \in [Client -> Seq({"Get", "Put", "Append"})]
  BY Zenon, InitInv DEF IInv, TypeOK
<1>2. ASSUME NEW c \in Client
      PROVE  [i \in DOMAIN program[c] |-> [kind |-> program[c][i], key |-> "key"]]
               \in Seq([kind : {"Get", "Put", "Append"}, key : {"key"}])
  <2>1. /\ DOMAIN program[c] = 1 .. Len(program[c]) /\ Len(program[c]) \in Nat
        /\ \A i \in DOMAIN program[c] : program[c][i] \in {"Get", "Put", "Append"}
    BY <1>1
  <2>2. [i \in DOMAIN program[c] |-> [kind |-> program[c][i], key |-> "key"]]
          \in [1 .. Len(program[c]) -> [kind : {"Get", "Put", "Append"}, key : {"key"}]]
    BY Zenon, <2>1
  <2> QED
    BY Zenon, <2>1, <2>2, IsSeq
<1>3. Calls \in [Client -> Seq([kind : {"Get", "Put", "Append"}, key : {"key"}])]
  BY Zenon, <1>2 DEF Calls
<1>4. final = [Data |-> <<>>, LastOp |-> [c \in Client |-> NoOp]]
  BY Zenon DEF Init, final
<1>5. /\ final.Data = <<>>
      /\ \A c \in Client : final.LastOp[c].CallId = -1 /\ final.LastOp[c].Result = <<>>
  BY Zenon, <1>4 DEF NoOp
<1>6. /\ NextCallID = [c \in Client |-> 0] /\ trying = [c \in Client |-> 0]
      /\ answer = [c \in Client |-> <<>>]
  BY Zenon DEF Init
<1>7. /\ Done = [c \in Client |-> 0] /\ Seen = [c \in Client |-> <<>>]
      /\ Stored = [k \in {"key"} |-> <<>>]
  BY <1>5 DEF Done, Seen, Stored
<1>8. Returned = [c \in Client |-> 0]
  BY <1>6 DEF Returned
<1> QED
  BY Zenon, <1>3, <1>6, <1>7, <1>8 DEF Store!Init

\* A step that ends and begins no call, and commits nothing, changes nothing KVStore
\* speaks of.
LEMMA Stutter ==
  ASSUME TypeOK, UNCHANGED <<program, states, NextCallID, answer>>,
         \A c \in Client : trying'[c] = 0 <=> trying[c] = 0
  PROVE  UNCHANGED Store!vars
<1>1. final' = final
  BY Zenon DEF final
<1>2. UNCHANGED <<Calls, Done, Stored, Seen>>
  BY Zenon, <1>1 DEF Calls, Done, Stored, Seen
<1>3. UNCHANGED Returned
  BY Zenon DEF Returned
<1> QED
  BY Zenon, <1>2, <1>3 DEF Store!vars

\* A clerk that begins a call does Call of KVStore.
LEMMA InvokeImplements ==
  ASSUME IInv, NEW c \in Client, Invoke(c)
  PROVE  Store!Call(c)
<1>0. TypeOK /\ program[c] \in Seq({"Get", "Put", "Append"})
  BY Zenon DEF IInv, TypeOK
<1>1. /\ trying[c] = 0 /\ NextCallID[c] < Len(program[c])
      /\ NextCallID' = [NextCallID EXCEPT ![c] = @ + 1]
      /\ trying' = [trying EXCEPT ![c] = FirstServer(c)]
      /\ program' = program /\ states' = states /\ answer' = answer
  BY Zenon DEF Invoke, Call, raftVars
<1>2. /\ NextCallID \in [Client -> Nat] /\ trying \in [Client -> 0 .. NServers]
      /\ FirstServer(c) # 0
  BY Zenon, <1>0, ClerkTypes, FirstServerIs
<1>3. final' = final
  BY Zenon, <1>1 DEF final
<1>4. UNCHANGED <<Calls, Done, Stored, Seen>>
  BY Zenon, <1>1, <1>3 DEF Calls, Done, Stored, Seen
<1>5. ASSUME NEW d \in Client PROVE Returned'[d] = Returned[d]
  <2>1. CASE d = c
    <3>1. NextCallID'[d] = NextCallID[c] + 1 /\ trying'[d] # 0 /\ NextCallID[c] \in Nat
      BY Zenon, <1>1, <1>2, <2>1
    <3> QED
      BY <1>1, <2>1, <3>1 DEF Returned
  <2>2. CASE d # c
    <3>1. NextCallID'[d] = NextCallID[d] /\ trying'[d] = trying[d]
      BY Zenon, <1>1, <1>2, <2>2
    <3> QED
      BY Zenon, <3>1 DEF Returned
  <2> QED
    BY Zenon, <2>1, <2>2
<1>6. Returned' = Returned
  BY Zenon, <1>5 DEF Returned
<1>7. Returned[c] = NextCallID[c]
  BY <1>1, <1>2 DEF Returned
<1>8. Len(Calls[c]) = Len(program[c])
  BY <1>0 DEF Calls
<1> QED
  BY Zenon, <1>1, <1>4, <1>6, <1>7, <1>8 DEF Store!Call

\* A handler whose reply OK the clerk awaits does Return of KVStore: the answer is
\* what the operation found where it was executed.
LEMMA SucceedImplements ==
  ASSUME IInv, NEW h \in handlers, Succeed(h), UNCHANGED <<program, states>>,
         LastOp[h.server][h.op.ClientId].CallId = h.op.CallId
  PROVE  (\E c \in Client : Store!Return(c)) \/ UNCHANGED Store!vars
<1>0. TypeOK /\ HistoryInv /\ ReplicasInv /\ \A c \in Client : ClerkOK(c)
  BY Zenon DEF IInv
<1>1. UNCHANGED NextCallID
  BY Zenon DEF Succeed
<1>2. CASE UNCHANGED <<trying, lastLeader, answer>>
  BY Zenon, <1>0, <1>1, <1>2, Stutter
<1>3. ASSUME NEW c \in Client, h.op = Current(c), trying[c] # 0,
             trying' = [trying EXCEPT ![c] = 0],
             answer' = [answer EXCEPT ![c] = LastOp[h.server][c].Result]
      PROVE  Store!Return(c)
  <2>1. h.server \in Server
    BY Zenon, <1>0, HandlerFields
  <2>2. /\ NextCallID[c] >= 1 /\ NextCallID \in [Client -> Nat] /\ NextCallID[c] \in Nat
        /\ trying \in [Client -> 0 .. NServers]
        /\ final.LastOp[c].CallId \in {NextCallID[c] - 2, NextCallID[c] - 1}
    BY Zenon, <1>0, <1>3, ClerkTypes DEF ClerkOK
  <2>3. LastOp[h.server][c].CallId = NextCallID[c] - 1
    BY Zenon, <1>0, <1>3, <2>2, CurrentIs
  <2>4. LastOp[h.server][c].CallId <= final.LastOp[c].CallId
    BY Zenon, <1>0, <2>1, ReplicaBehind
  <2>5. final.LastOp[c].CallId = NextCallID[c] - 1
    BY <2>2, <2>3, <2>4
  <2>6. LastOp[h.server][c] = final.LastOp[c]
    BY Zenon, <1>0, <2>1, <2>3, <2>5, ReplicaBehind
  <2>7. answer' = [answer EXCEPT ![c] = Seen[c]]
    BY Zenon, <1>3, <2>6 DEF Seen
  <2>8. Returned[c] = NextCallID[c] - 1 /\ Done[c] = NextCallID[c]
    BY <1>3, <2>2, <2>5 DEF Returned, Done
  <2>9. Returned' = [Returned EXCEPT ![c] = @ + 1]
    <3>1. trying'[c] = 0 /\ \A d \in Client \ {c} : trying'[d] = trying[d]
      BY Zenon, <1>3, <2>2
    <3>2. Returned'[c] = NextCallID[c] /\ \A d \in Client \ {c} : Returned'[d] = Returned[d]
      BY <1>1, <2>2, <3>1 DEF Returned
    <3>3. Returned'[c] = Returned[c] + 1
      BY <2>2, <2>8, <3>2
    <3>4. Returned = [d \in Client |-> Returned[d]] /\ Returned' = [d \in Client |-> Returned'[d]]
      BY Zenon DEF Returned
    <3> QED
      BY Zenon, <3>2, <3>3, <3>4, ChangedAt
  <2>10. UNCHANGED <<Calls, NextCallID, Done, Stored, Seen>>
    BY Zenon, <1>1 DEF Calls, Done, Stored, Seen, final
  <2> QED
    BY <2>2, <2>7, <2>8, <2>9, <2>10 DEF Store!Return
<1> QED
  BY Zenon, <1>0, <1>2, <1>3, SucceedIs

\* A call that is followed by another one is still the same operation.
LEMMA TryingOn ==
  ASSUME TypeOK, NEW c \in Client, NEW s \in Server, trying[c] # 0,
         trying' = [trying EXCEPT ![c] = s]
  PROVE  \A d \in Client : trying'[d] = 0 <=> trying[d] = 0
<1>1. trying \in [Client -> 0 .. NServers] /\ s # 0
  BY ClerkTypes DEF Server
<1> QED
  BY Zenon, <1>1

\* Handlers do Return of KVStore, or nothing that it speaks of.
LEMMA HandlerImplements ==
  ASSUME IInv, NEW h \in handlers, GetRPC(h) \/ PutRPC(h) \/ AppendRPC(h)
  PROVE  (\E c \in Client : Store!Return(c)) \/ UNCHANGED Store!vars
<1>0. TypeOK /\ UNCHANGED <<program, states>>
  BY Zenon, HandleIs DEF IInv
<1>1. CASE Succeed(h) /\ LastOp[h.server][h.op.ClientId].CallId = h.op.CallId
  BY Zenon, <1>0, <1>1, SucceedImplements
<1>2. CASE WrongLeader(h)
  <2>1. UNCHANGED <<NextCallID, answer>>
    BY Zenon, <1>0, <1>2, WrongLeaderIs
  <2>2. \A d \in Client : trying'[d] = 0 <=> trying[d] = 0
    BY Zenon, <1>0, <1>2, WrongLeaderIs, TryingOn
  <2> QED
    BY Zenon, <1>0, <2>1, <2>2, Stutter
<1>3. CASE \E pc \in {"start", "test", "asleep"} : Step(h, pc)
  <2>1. UNCHANGED <<NextCallID, trying, answer>>
    BY Zenon, <1>3 DEF Step, clerkVars
  <2> QED
    BY Zenon, <1>0, <2>1, Stutter
<1> QED
  BY Zenon, <1>1, <1>2, <1>3, HandleIs

\* A call that fails changes nothing KVStore speaks of.
LEMMA CallFailsImplements ==
  ASSUME IInv, NEW c \in Client, CallFails(c)
  PROVE  UNCHANGED Store!vars
<1>0. TypeOK /\ trying[c] # 0 /\ UNCHANGED <<program, states, NextCallID, answer>>
  BY Zenon DEF IInv, CallFails, raftVars
<1>1. PICK number : CallNext(c, number, handlers)
  BY Zenon DEF CallFails
<1>2. \E s \in Server : trying' = [trying EXCEPT ![c] = s]
  BY Zenon, <1>0, <1>1, CallNextIs
<1>3. \A d \in Client : trying'[d] = 0 <=> trying[d] = 0
  BY Zenon, <1>0, <1>2, TryingOn
<1> QED
  BY Zenon, <1>0, <1>3, Stutter

\* An operation that is committed for the first time does Execute of KVStore.
LEMMA CommitImplements ==
  ASSUME IInv, NEW op \in DOMAIN started, Commit(op)
  PROVE  Store!Execute(op.ClientId) \/ UNCHANGED Store!vars
<1> DEFINE c == op.ClientId
<1>0. /\ TypeOK /\ op \in Op /\ c \in Client /\ op.CallId \in Nat
      /\ Kind(op) \in {"Get", "Put", "Append"}
      /\ op.CallId < NextCallID[c] /\ final \in State /\ final' = After(final, op)
  BY Zenon, CommitOp DEF IInv
<1>1. UNCHANGED <<program, NextCallID, trying, answer>>
  BY Zenon DEF Commit, clerkVars
<1>2. UNCHANGED <<Calls, Returned>>
  BY Zenon, <1>1 DEF Calls, Returned
<1>3. CASE Executed(final.LastOp, op)
  <2>1. final' = final
    BY Zenon, <1>0, <1>3, AfterIs
  <2>2. UNCHANGED <<Done, Stored, Seen>>
    BY Zenon, <2>1 DEF Done, Stored, Seen
  <2> QED
    BY Zenon, <1>1, <1>2, <2>2 DEF Store!vars
<1>4. CASE ~Executed(final.LastOp, op)
  <2>1. /\ final'.Data = Effect(final.Data, op)
        /\ final'.LastOp[c].CallId = op.CallId
        /\ Kind(op) = "Get" => final'.LastOp[c].Result = final.Data
        /\ Kind(op) # "Get" => final'.LastOp[c].Result = <<>>
        /\ \A d \in Client \ {c} : final'.LastOp[d] = final.LastOp[d]
    BY Zenon, <1>0, <1>4, AfterIs
  <2>2. op.CallId = final.LastOp[c].CallId + 1 /\ op.CallId = NextCallID[c] - 1
    BY Zenon, <1>4, CommitFirst
  <2>3. /\ NextCallID[c] \in Nat /\ NextCallID[c] = op.CallId + 1
        /\ final.LastOp[c].CallId \in Int /\ final.LastOp[c].CallId = op.CallId - 1
    <3>1. NextCallID[c] \in Nat
      BY Zenon, <1>0, ClerkTypes
    <3>2. final.LastOp[c].CallId \in Int
      BY CommitFirst
    <3> QED
      BY <1>0, <2>2, <3>1, <3>2
  <2>4. Calls[c][NextCallID[c]] = [kind |-> Kind(op), key |-> "key"]
    <3>1. /\ program[c] \in Seq({"Get", "Put", "Append"})
          /\ NextCallID[c] <= Len(program[c])
      BY Zenon, <1>0 DEF IInv, TypeOK, ClerkOK
    <3>2. NextCallID[c] \in DOMAIN program[c]
      BY <1>0, <2>3, <3>1
    <3> QED
      BY Zenon, <1>0, <2>3, <3>2 DEF Calls, Kind
  <2>5. op = [ClientId |-> c, CallId |-> NextCallID[c] - 1]
    <3>1. op = [ClientId |-> c, CallId |-> op.CallId]
      BY Zenon, <1>0 DEF Op
    <3> QED
      BY Zenon, <2>2, <3>1
  <2>6. Done[c] < NextCallID[c] /\ Done' = [Done EXCEPT ![c] = @ + 1]
    <3>0. Done[c] = final.LastOp[c].CallId + 1 /\ Done'[c] = final'.LastOp[c].CallId + 1
      BY Zenon, <1>0 DEF Done
    <3>1. Done[c] = NextCallID[c] - 1 /\ Done'[c] = Done[c] + 1
      BY <1>0, <2>1, <2>3, <3>0
    <3>2. \A d \in Client \ {c} : Done'[d] = Done[d]
      BY Zenon, <2>1 DEF Done
    <3>3. Done = [d \in Client |-> Done[d]] /\ Done' = [d \in Client |-> Done'[d]]
      BY Zenon DEF Done
    <3>4. Done' = [Done EXCEPT ![c] = Done[c] + 1]
      BY Zenon, <1>0, <3>1, <3>2, <3>3, ChangedAt
    <3> QED
      BY <2>3, <3>1, <3>4
  <2>7. Stored' = [Stored EXCEPT !["key"] = Store!Effect(Kind(op), @, op)]
    <3>1. Effect(final.Data, op) = Store!Effect(Kind(op), final.Data, op)
      BY Zenon DEF Effect, Store!Effect
    <3> QED
      BY Zenon, <2>1, <3>1 DEF Stored
  <2>8. Seen' = [Seen EXCEPT ![c] = Found([kind |-> Kind(op), key |-> "key"], Stored["key"])]
    <3>1. Seen'[c] = Found([kind |-> Kind(op), key |-> "key"], Stored["key"])
      BY Zenon, <1>0, <2>1 DEF Seen, Found, Stored
    <3>2. \A d \in Client \ {c} : Seen'[d] = Seen[d]
      BY Zenon, <2>1 DEF Seen
    <3>3. Seen = [d \in Client |-> Seen[d]] /\ Seen' = [d \in Client |-> Seen'[d]]
      BY Zenon DEF Seen
    <3> QED
      BY <1>0, <3>1, <3>2, <3>3, ChangedAt
  <2> DEFINE what == Calls[c][NextCallID[c]]
  <2>9. what.key = "key" /\ what.kind = Kind(op)
    BY <2>4
  <2>10. Stored' = [Stored EXCEPT ![what.key] = Store!Effect(what.kind, Stored[what.key], op)]
    BY Zenon, <2>7, <2>9
  <2>11. Seen' = [Seen EXCEPT ![c] = Found(what, Stored[what.key])]
    BY Zenon, <2>4, <2>8, <2>9
  <2> QED
    BY Zenon, <1>1, <1>2, <2>5, <2>6, <2>10, <2>11 DEF Store!Execute
<1> QED
  BY Zenon, <1>3, <1>4

\* Every step is a step of KVStore or changes nothing that it speaks of.
LEMMA NextImplements == IInv /\ [Next]_vars => [Store!Next]_(Store!vars)
<1> SUFFICES ASSUME IInv, [Next]_vars PROVE [Store!Next]_(Store!vars)
  BY Zenon
<1>0. TypeOK
  BY Zenon DEF IInv
<1>1. ASSUME NEW c \in Client, Store!Call(c) \/ Store!Execute(c) \/ Store!Return(c)
      PROVE  Store!Next
  BY Zenon, <1>1 DEF Store!Next
<1>2. CASE UNCHANGED <<program, states, clerkVars>>
  <2>1. UNCHANGED <<NextCallID, trying, answer>>
    BY Zenon, <1>2 DEF clerkVars
  <2> QED
    BY Zenon, <1>0, <1>2, <2>1, Stutter
<1>3. CASE \E c \in Client : Invoke(c)
  BY Zenon, <1>1, <1>3, InvokeImplements
<1>4. CASE \E c \in Client : CallFails(c)
  BY Zenon, <1>4, CallFailsImplements
<1>5. CASE \E h \in handlers : GetRPC(h) \/ PutRPC(h) \/ AppendRPC(h)
  BY Zenon, <1>1, <1>5, HandlerImplements
<1>6. CASE \E op \in DOMAIN started : Commit(op)
  <2>1. \A op \in DOMAIN started : op.ClientId \in Client
    BY Zenon, <1>0 DEF TypeOK, Op
  <2> QED
    BY Zenon, <1>1, <1>6, <2>1, CommitImplements
<1>7. CASE \E s \in Server : execOp(s) \/ makeSnapshot(s) \/ Crash(s)
  BY Zenon, <1>2, <1>7 DEF execOp, makeSnapshot, Crash, raftVars
<1>8. CASE \E s, p \in Server : applySnapshot(s, p)
  BY Zenon, <1>2, <1>8 DEF applySnapshot, raftVars
<1>9. CASE \E op \in DOMAIN started : Lose(op)
  BY Zenon, <1>2, <1>9 DEF Lose
<1>10. CASE UNCHANGED vars
  BY Zenon, <1>2, <1>10 DEF vars, raftVars
<1> QED
  BY Zenon, <1>3, <1>4, <1>5, <1>6, <1>7, <1>8, <1>9, <1>10 DEF Next

\* For any number of servers, clerks and calls, and however many calls fail, leaders
\* change, and servers take snapshots, install them and restart, the servers and the
\* clerks of src/src/kvraft implement KVStore: every operation takes effect once,
\* between its call and its return, and a Get returns what was there.
THEOREM Implementation == Spec => Linearizable
<1>1. Init => Store!Init
  BY Zenon, InitImplements
<1>2. IInv /\ [Next]_vars => [Store!Next]_(Store!vars)
  BY Zenon, NextImplements
<1> QED
  BY <1>1, <1>2, Invariance, PTL DEF Spec, Linearizable, Store!Spec

=============================================================================
