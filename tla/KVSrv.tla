------------------------------- MODULE KVSrv -------------------------------
(***************************************************************************)
(* The single-server key/value store of src/src/kvsrv: clerks that repeat  *)
(* a Call() until it returns true, and a server that keeps the result of   *)
(* every Put and Append until the clerk says, with Succeed, that it has    *)
(* received it.  The network is module LabRPC; nothing in src/src/kvsrv    *)
(* disables an end or deletes the server.  There is one key.               *)
(***************************************************************************)
EXTENDS LabRPC

CONSTANTS
  Client,       \* clerks, each with a client end of the same name
  Programs      \* what clerks may call: clerk -> its operations, in order

ASSUME ProgramsAssumption == Programs \subseteq [Client -> Seq({"Get", "Put", "Append"})]

VARIABLES
  program,      \* the calls the clerks make in this behaviour
  NextCallID,
  pairs,        \* value of the key: the operations whose arguments it holds
  results,      \* getKey(ClientID, CallID) -> reply.Value
  inCall,       \* clerk -> it is in Get(), Put() or Append()
  received,     \* clerk -> reply.Value of its call, once it has one
  looked,       \* history: clerk -> what its pending operation last found
  answer        \* history: clerk -> what its last call returned

kvVars == <<program, NextCallID, pairs, results, inCall, received, looked, answer>>

KVInit ==
  /\ program \in Programs
  /\ NextCallID = [c \in Client |-> 0]
  /\ pairs      = <<>>
  /\ results    = <<>>
  /\ inCall     = [c \in Client |-> FALSE]
  /\ received   = [c \in Client |-> NoReply]
  /\ looked     = [c \in Client |-> NoReply]
  /\ answer     = [c \in Client |-> <<>>]

Op(c)   == [ClientId |-> c, CallId |-> NextCallID[c] - 1]
Kind(c) == program[c][NextCallID[c]]

-----------------------------------------------------------------------------
(***************************************************************************)
(* Clerk.Get() and Clerk.PutAppend().                                      *)
(***************************************************************************)

Invoke(c) ==
  /\ ~inCall[c]
  /\ NextCallID[c] < Len(program[c])
  /\ NextCallID' = [NextCallID EXCEPT ![c] = @ + 1]
  /\ inCall'     = [inCall EXCEPT ![c] = TRUE]
  /\ received'   = [received EXCEPT ![c] = NoReply]
  /\ looked'     = [looked EXCEPT ![c] = NoReply]
  /\ Call(c, program[c][NextCallID[c] + 1])
  /\ UNCHANGED <<enabled, servers, reliable, abandoned, program, pairs, results, answer>>

\* Mutant of Repeat: a failed Succeed() is not repeated.
Repeat_NotSucceed(c) ==
  /\ call[c].pc = "false"
  /\ call[c].req # "Succeed"
  /\ Call(c, call[c].req)
  /\ UNCHANGED <<enabled, servers, reliable, abandoned, kvVars>>

\* The call returned false: it is made again.
Repeat(c) ==
  /\ call[c].pc = "false"
  /\ Call(c, call[c].req)
  /\ UNCHANGED <<enabled, servers, reliable, abandoned, kvVars>>

Return(c, result) ==
  /\ inCall' = [inCall EXCEPT ![c] = FALSE]
  /\ answer' = [answer EXCEPT ![c] = result]
  /\ call'   = [call EXCEPT ![c] = Idle]

\* Mutant of OnReply: the clerk does not wait until Succeed() got through.
OnReply_SucceedOnce(c) ==
  /\ call[c].pc = "true"
  /\ received' = [received EXCEPT ![c] = Head(call[c].reply)]
  /\ \/ call[c].req # "Succeed" /\ Return(c, Head(call[c].reply))
     \/ call[c].req = "Succeed" /\ Return(c, received[c])
  /\ UNCHANGED <<enabled, servers, reliable, abandoned>>
  /\ UNCHANGED <<program, NextCallID, pairs, results, looked>>

\* The call returned true: a Get ends; a Put or an Append goes on to Succeed.
OnReply(c) ==
  /\ call[c].pc = "true"
  /\ \/ /\ call[c].req = "Get"
        /\ Return(c, Head(call[c].reply))
        /\ UNCHANGED received
     \/ /\ call[c].req \in {"Put", "Append"}
        /\ received' = [received EXCEPT ![c] = Head(call[c].reply)]
        /\ Call(c, "Succeed")
        /\ UNCHANGED <<inCall, answer>>
     \/ /\ call[c].req = "Succeed"
        /\ Return(c, received[c])
        /\ UNCHANGED received
  /\ UNCHANGED <<enabled, servers, reliable, abandoned>>
  /\ UNCHANGED <<program, NextCallID, pairs, results, looked>>

-----------------------------------------------------------------------------
(***************************************************************************)
(* KVServer.                                                               *)
(***************************************************************************)

ServeGet(c) ==
  /\ call[c].req = "Get"
  /\ HandlerReturns(c, pairs)
  /\ looked' = [looked EXCEPT ![c] = <<pairs>>]
  /\ UNCHANGED <<program, NextCallID, pairs, results, inCall, received, answer>>

Known(c) == Op(c) \in DOMAIN results

\* Mutant of ServeUpdate: results are not consulted.
ServeUpdate_NoCheck(c, new, reply) ==
  /\ HandlerReturns(c, reply)
  /\ pairs'   = new
  /\ results' = [op \in DOMAIN results \cup {Op(c)} |-> IF op = Op(c) THEN reply ELSE results[op]]
  /\ looked'  = [looked EXCEPT ![c] = <<reply>>]
  /\ UNCHANGED <<program, NextCallID, inCall, received, answer>>

\* An update executed before gets its old reply; else the value becomes new.
ServeUpdate(c, new, reply) ==
  /\ \/ /\ Known(c)
        /\ HandlerReturns(c, results[Op(c)])
        /\ UNCHANGED <<pairs, results, looked>>
     \/ /\ ~Known(c)
        /\ HandlerReturns(c, reply)
        /\ pairs'   = new
        /\ results' = [op \in DOMAIN results \cup {Op(c)} |->
                         IF op = Op(c) THEN reply ELSE results[op]]
        /\ looked'  = [looked EXCEPT ![c] = <<reply>>]
  /\ UNCHANGED <<program, NextCallID, inCall, received, answer>>

ServePut(c)    == call[c].req = "Put" /\ ServeUpdate(c, <<Op(c)>>, <<>>)
ServeAppend(c) == call[c].req = "Append" /\ ServeUpdate(c, Append(pairs, Op(c)), pairs)

ServeSucceed(c) ==
  /\ call[c].req = "Succeed"
  /\ HandlerReturns(c, <<>>)
  /\ results' = [op \in DOMAIN results \ {Op(c)} |-> results[op]]
  /\ UNCHANGED <<program, NextCallID, pairs, inCall, received, looked, answer>>

Serve(c) == ServeGet(c) \/ ServePut(c) \/ ServeAppend(c) \/ ServeSucceed(c)

-----------------------------------------------------------------------------

\* The server keeps a result for a call in progress only: what a clerk's last
\* call left behind is gone when it makes the next, however many replies were
\* lost, so the memory of the server does not grow with the number of calls.
ResultsForgotten ==
  \A op \in DOMAIN results :
    inCall[op.ClientId] /\ op.CallId = NextCallID[op.ClientId] - 1

\* What a clerk is told of the value its operation finds.
Found(what, value) == IF what.kind \in {"Get", "Append"} THEN value ELSE <<>>

\* The refinement mapping: an operation is executed once the server has looked at
\* the value for it, and seen is what it found.
Program  == [c \in Client |-> [i \in DOMAIN program[c] |-> [kind |-> program[c][i], key |-> 1]]]
Executed == [c \in Client |->
               NextCallID[c] - (IF inCall[c] /\ looked[c] = NoReply THEN 1 ELSE 0)]
Returned == [c \in Client |-> NextCallID[c] - (IF inCall[c] THEN 1 ELSE 0)]
Value    == [k \in {1} |-> pairs]
Seen     == [c \in Client |-> IF looked[c] = NoReply THEN answer[c] ELSE Head(looked[c])]

Store ==
  INSTANCE KVStore WITH
    Key       <- {1},
    Operation <- [kind : {"Get", "Put", "Append"}, key : {1}],
    Result    <- Found,
    program   <- Program,
    issued    <- NextCallID,
    executed  <- Executed,
    returned  <- Returned,
    value     <- Value,
    seen      <- Seen

\* The store implements KVStore: over a network that loses requests and replies
\* every Put and Append is executed exactly once, at some moment of its call, and
\* returns what it found then; a repeated Get returns what it found last.
Linearizable == Store!Spec

\* Every call returns, although any message of it may be lost any number of
\* times, as long as not all of them are.
CallsReturn == \A c \in Client : inCall[c] ~> ~inCall[c]

=============================================================================
