--------------------------- MODULE RPCSystemProofs ---------------------------
(***************************************************************************)
(* The inductive invariant of RPCSystem, for any number of ends, clerks,   *)
(* calls and restarts, and the steps that keep it.  It says why the        *)
(* key/value store forgets its results and implements KVStore, over a      *)
(* network that loses any number of messages, and why no reply is about    *)
(* what a restart loses.                                                   *)
(***************************************************************************)
EXTENDS RPCSystem, TLAPS

OpSet    == [ClientId : Client, CallId : Int]
Contents == Seq(OpSet)
Requests == {"none", "Get", "Put", "Append", "Succeed"} \cup (End \X Nat)
Places   == {"idle", "sent", "request", "waiting", "check", "reply", "true", "false"}
CallSet  == [pc : Places, req : Requests, server : Nat, reply : Seq(Contents)]

NetTypes ==
  /\ enabled \in [End -> BOOLEAN]
  /\ servers \in [Servername -> Nat]
  /\ call \in [End -> CallSet]
  /\ abandoned \subseteq [end : End, call : CallSet]

KVTypes ==
  /\ program \in [Client -> Seq({"Get", "Put", "Append"})]
  /\ NextCallID \in [Client -> Nat]
  /\ pairs \in Contents
  /\ DOMAIN results \subseteq OpSet
  /\ results \in [DOMAIN results -> Contents]
  /\ inCall \in [Client -> BOOLEAN]
  /\ received \in [Client -> Contents]
  /\ looked \in [Client -> Seq(Contents)]
  /\ answer \in [Client -> Contents]

RestartTypes ==
  /\ phase \in {"running", "disconnecting", "deleted", "copied"}
  /\ persister \in Seq(SUBSET Requests)
  /\ saved \in Nat \ {0} /\ saved = Len(persister)
  /\ calls \in [HostEnds -> Nat]

Types == NetTypes /\ KVTypes /\ RestartTypes

-----------------------------------------------------------------------------
(***************************************************************************)
(* The inductive invariant.                                                *)
(***************************************************************************)

\* What a clerk in an operation knows.  Until it calls Succeed, the server keeps
\* the result of its update exactly if it was executed; a reply that is on its
\* way tells what the operation found; once Succeed is answered, the result is
\* gone and nothing brings it back.
Pending(c) ==
  /\ call[c].pc # "idle"
  /\ NextCallID[c] > 0
  /\ call[c].req # Kind(c) => call[c].req = "Succeed" /\ Kind(c) \in {"Put", "Append"}
  /\ Kind(c) = "Get" => ~Known(c)
  /\ call[c].req \in {"Put", "Append"} => (Known(c) <=> looked[c] # NoReply)
  /\ Known(c) => looked[c] # NoReply /\ results[Op(c)] = Head(looked[c])
  /\ call[c].reply # NoReply /\ call[c].req # "Succeed" =>
       looked[c] # NoReply /\ Head(call[c].reply) = Head(looked[c])
  /\ call[c].req = "Succeed" => looked[c] # NoReply /\ received[c] = Head(looked[c])
  /\ call[c].req = "Succeed" /\ call[c].reply # NoReply => ~Known(c)
  /\ call[c].pc \in {"check", "reply", "true"} => call[c].reply # NoReply

ClerkOK(c) ==
  /\ NextCallID[c] <= Len(program[c])
  /\ inCall[c]  => Pending(c)
  /\ ~inCall[c] => call[c].pc = "idle" /\ (looked[c] # NoReply => Head(looked[c]) = answer[c])

\* The call of e knows an instance that exists or has existed.  If the handler
\* has returned, the Persister of that instance holds the request; if the reply
\* is on its way, so does the Persister in use.
CallOK(e) ==
  /\ call[e].pc \in {"request", "waiting", "check", "reply"} => call[e].server \in 1 .. saved
  /\ call[e].pc = "request" => call[e].reply = NoReply
  /\ connections[e] = Host =>
       /\ call[e].pc \in {"waiting", "check", "reply"} /\ call[e].reply # NoReply =>
            call[e].req \in persister[call[e].server]
       /\ call[e].pc \in {"check", "reply"} => call[e].reply # NoReply
       /\ call[e].pc = "reply" => call[e].req \in persister[saved]

HostOK ==
  /\ \A n \in Servername : servers[n] <= saved
  /\ \A h \in abandoned : h.call.server \in 1 .. saved
  /\ phase \in {"running", "disconnecting"} => servers[Host] = saved
  /\ phase \in {"deleted", "copied"} => servers[Host] = 0

IInv ==
  /\ Types
  /\ \A c \in Client : ClerkOK(c)
  /\ ResultsForgotten
  /\ \A e \in End : CallOK(e)
  /\ HostOK
  /\ ConfirmedSurvives

-----------------------------------------------------------------------------

USE ConnectionsAssumption, ProgramsAssumption, EndsAssumption

\* No value, and no reply, are values of their types.
LEMMA EmptyValues == <<>> \in Contents /\ <<>> \in Seq(Contents)
BY DEF Contents

\* What the sequence of one element is.
LEMMA Single ==
  ASSUME NEW S, NEW v \in S
  PROVE  <<v>> \in Seq(S) /\ <<v>> # <<>> /\ Head(<<v>>) = v
OBVIOUS

\* The call of an end that has not called has its type.
LEMMA IdleType == Idle \in CallSet
BY Zenon, EmptyValues DEF Idle, CallSet, NoReply, Places, Requests

\* The invariant holds when nobody has called.
LEMMA InitInv == Init => IInv
<1> SUFFICES ASSUME Init PROVE IInv
  BY Zenon
<1> USE DEF Init
<1>1. NetTypes
  BY Zenon, IdleType DEF NetInit, NetTypes
<1>2. KVTypes
  BY EmptyValues DEF KVInit, KVTypes, NoReply
<1>3. RestartTypes
  BY DEF RestartInit, RestartTypes
<1>4. ASSUME NEW c \in Client PROVE ClerkOK(c)
  BY <1>2 DEF NetInit, KVInit, KVTypes, ClerkOK, Idle, NoReply
<1>5. ASSUME NEW e \in End PROVE CallOK(e)
  BY Zenon DEF NetInit, CallOK, Idle
<1>6. ResultsForgotten
  BY DEF KVInit, ResultsForgotten
<1>7. HostOK /\ ConfirmedSurvives
  BY DEF NetInit, RestartInit, HostOK, ConfirmedSurvives
<1>8. QED
  BY Zenon, <1>1, <1>2, <1>3, <1>4, <1>5, <1>6, <1>7 DEF Types, IInv

-----------------------------------------------------------------------------
(***************************************************************************)
(* What a step does to the record of a call, without EXCEPT.               *)
(***************************************************************************)

At(r, p) == [pc |-> p, req |-> r.req, server |-> r.server, reply |-> r.reply]

\* A call that is at another place keeps its type.
LEMMA AtType ==
  ASSUME NEW r \in CallSet, NEW p \in Places
  PROVE  At(r, p) \in CallSet
BY Zenon DEF At, CallSet

\* A call whose place changes, as a record.
LEMMA RecordPc ==
  ASSUME NEW r \in CallSet, NEW p
  PROVE  [r EXCEPT !.pc = p] =
           [pc |-> p, req |-> r.req, server |-> r.server, reply |-> r.reply]
BY DEF CallSet

\* A call that gets a reply, as a record.
LEMMA RecordReply ==
  ASSUME NEW r \in CallSet, NEW v
  PROVE  [r EXCEPT !.reply = v] =
           [pc |-> r.pc, req |-> r.req, server |-> r.server, reply |-> v]
BY DEF CallSet

\* Goto() changes the place of one call.
LEMMA GotoIs ==
  ASSUME call \in [End -> CallSet], NEW e \in End, NEW p, Goto(e, p)
  PROVE  call' = [call EXCEPT ![e] = At(call[e], p)]
<1>1. call' = [call EXCEPT ![e] = [call[e] EXCEPT !.pc = p]]
  BY Zenon DEF Goto
<1>2. QED
  BY Zenon, <1>1, RecordPc DEF At

\* A handler that returns leaves its reply with the call it waits in.
LEMMA ReturnsIs ==
  ASSUME call \in [End -> CallSet], NEW e \in End, NEW v, HandlerReturns(e, v)
  PROVE  call' = [call EXCEPT ![e] = [pc |-> "waiting", req |-> call[e].req,
                                      server |-> call[e].server, reply |-> <<v>>]]
<1>1. call' = [call EXCEPT ![e] = [call[e] EXCEPT !.reply = <<v>>]]
  BY Zenon DEF HandlerReturns
<1>2. call[e].pc = "waiting"
  BY Zenon DEF HandlerReturns, Running
<1>3. QED
  BY Zenon, <1>1, <1>2, RecordReply

-----------------------------------------------------------------------------

\* What a step of the network does to the call of e, and that it does nothing else.
Moves(e, from, to) ==
  /\ call[e].pc = from
  /\ call' = [call EXCEPT ![e] = At(call[e], to)]

\* The steps of processReq(), one disjunct each.
LEMMA NetStepIs ==
  ASSUME NetTypes, NEW e \in End, processReq(e) \/ Deliver(e)
  PROVE  /\ UNCHANGED <<enabled, servers, reliable>>
         /\ \/ /\ call[e].pc = "sent"
               /\ servers[connections[e]] # 0
               /\ call' = [call EXCEPT ![e] = [pc |-> "request", req |-> call[e].req,
                                               server |-> servers[connections[e]], reply |-> NoReply]]
               /\ UNCHANGED abandoned
            \/ /\ \E from \in {"sent", "request", "waiting", "check"} : Moves(e, from, "false")
               /\ abandoned' \subseteq abandoned \cup
                    (IF call[e].pc = "waiting" THEN {[end |-> e, call |-> call[e]]} ELSE {})
            \/ Moves(e, "request", "waiting") /\ UNCHANGED abandoned
            \/ Moves(e, "waiting", "check") /\ call[e].reply # NoReply /\ UNCHANGED abandoned
            \/ Moves(e, "check", "reply") /\ ~isServerDead(e) /\ UNCHANGED abandoned
            \/ Moves(e, "reply", "true") /\ UNCHANGED abandoned
<1>0. ASSUME NEW p, Goto(e, p) PROVE call' = [call EXCEPT ![e] = At(call[e], p)]
  BY Zenon, <1>0, GotoIs DEF NetTypes
<1>1. CASE readEndnameInfo(e)
  BY Zenon, <1>0, <1>1 DEF readEndnameInfo, Moves
<1>2. CASE DropRequest(e)
  BY Zenon, <1>0, <1>2 DEF DropRequest, Moves
<1>3. CASE Dispatch(e)
  BY Zenon, <1>0, <1>3 DEF Dispatch, Moves
<1>4. CASE StopWaiting(e)
  <2>1. abandoned' \subseteq abandoned \cup {[end |-> e, call |-> call[e]]}
    BY Zenon, <1>4 DEF StopWaiting
  <2>2. QED
    BY Zenon, <1>0, <1>4, <2>1 DEF StopWaiting, Moves
<1>5. CASE CheckServer(e)
  BY Zenon, <1>0, <1>5 DEF CheckServer, Moves
<1>6. CASE Deliver(e)
  BY Zenon, <1>0, <1>6 DEF Deliver, Moves
<1>7. QED
  BY Zenon, <1>1, <1>2, <1>3, <1>4, <1>5, <1>6 DEF processReq

\* What a step of processReq() does to the fields of the call, and that it leaves
\* the other calls alone.
LEMMA NetStepCall ==
  ASSUME NetTypes, NEW e \in End, processReq(e) \/ Deliver(e)
  PROVE  /\ \A d \in End \ {e} : call'[d] = call[d]
         /\ call[e].pc \notin {"idle", "true", "false"}
         /\ call'[e].req = call[e].req
         /\ \/ /\ call'[e].pc = "request" /\ call'[e].reply = NoReply
               /\ call'[e].server = servers[connections[e]] /\ servers[connections[e]] # 0
            \/ /\ call'[e].server = call[e].server /\ call'[e].reply = call[e].reply
               /\ \/ call'[e].pc = "false"
                  \/ call[e].pc = "request" /\ call'[e].pc = "waiting"
                  \/ call[e].pc = "waiting" /\ call'[e].pc = "check" /\ call[e].reply # NoReply
                  \/ call[e].pc = "check" /\ call'[e].pc = "reply" /\ ~isServerDead(e)
                  \/ call[e].pc = "reply" /\ call'[e].pc = "true"
<1>1. call \in [End -> CallSet]
  BY Zenon DEF NetTypes
<1>2. CASE /\ call[e].pc = "sent"
           /\ servers[connections[e]] # 0
           /\ call' = [call EXCEPT ![e] = [pc |-> "request", req |-> call[e].req,
                                           server |-> servers[connections[e]], reply |-> NoReply]]
  BY Zenon, <1>1, <1>2
<1>3. ASSUME NEW from, NEW to, Moves(e, from, to)
      PROVE  /\ \A d \in End \ {e} : call'[d] = call[d]
             /\ call[e].pc = from /\ call'[e].pc = to
             /\ call'[e].req = call[e].req /\ call'[e].server = call[e].server
             /\ call'[e].reply = call[e].reply
  BY Zenon, <1>1, <1>3 DEF Moves, At
<1>4. CASE \E from \in {"sent", "request", "waiting", "check"} : Moves(e, from, "false")
  BY Zenon, <1>3, <1>4
<1>5. CASE Moves(e, "request", "waiting")
  BY <1>3, <1>5
<1>6. CASE Moves(e, "waiting", "check") /\ call[e].reply # NoReply
  BY <1>3, <1>6
<1>7. CASE Moves(e, "check", "reply") /\ ~isServerDead(e)
  BY <1>3, <1>7
<1>8. CASE Moves(e, "reply", "true")
  BY <1>3, <1>8
<1>9. QED
  BY Zenon, <1>2, <1>4, <1>5, <1>6, <1>7, <1>8, NetStepIs

\* A step of the network keeps the types.
LEMMA NetStepTypes ==
  ASSUME NetTypes, NEW e \in End, processReq(e) \/ Deliver(e)
  PROVE  NetTypes'
<1>1. ASSUME NEW from, NEW to \in Places, Moves(e, from, to) PROVE call' \in [End -> CallSet]
  BY Zenon, <1>1, AtType DEF NetTypes, Moves
<1>2. call' \in [End -> CallSet]
  <2>1. CASE call' = [call EXCEPT ![e] = [pc |-> "request", req |-> call[e].req,
                                          server |-> servers[connections[e]], reply |-> NoReply]]
    BY Zenon, <2>1, EmptyValues DEF NetTypes, Places, CallSet, NoReply
  <2>2. QED
    BY Zenon, <1>1, <2>1, NetStepIs DEF Places
<1>3. abandoned' \subseteq abandoned \cup {[end |-> e, call |-> call[e]]}
  BY Zenon, NetStepIs
<1>4. QED
  BY <1>2, <1>3, NetStepIs DEF NetTypes

-----------------------------------------------------------------------------
(***************************************************************************)
(* What a step that is not about a clerk, or a call, leaves alone.         *)
(***************************************************************************)

\* What a clerk knows depends on its own call and its own variables only.
LEMMA ClerkFrame ==
  ASSUME NEW c \in Client, ClerkOK(c), call'[c] = call[c], program' = program,
         NextCallID'[c] = NextCallID[c], inCall'[c] = inCall[c], received'[c] = received[c],
         looked'[c] = looked[c], answer'[c] = answer[c],
         Known(c)' <=> Known(c), Known(c) => results'[Op(c)] = results[Op(c)]
  PROVE  ClerkOK(c)'
BY Zenon DEF ClerkOK, Pending, Known, Op, Kind

\* A call that does not change stays right while the Persisters do not change.
LEMMA CallFrame ==
  ASSUME RestartTypes, NEW e \in End, CallOK(e), call'[e] = call[e], saved' = saved,
         \A s \in 1 .. saved : persister[s] \subseteq persister'[s]
  PROVE  CallOK(e)'
BY DEF RestartTypes, CallOK

\* A call that goes on, or is made again.
LEMMA PendingMoves ==
  ASSUME NEW c \in Client, Pending(c),
         NextCallID'[c] = NextCallID[c], Kind(c)' = Kind(c), Op(c)' = Op(c),
         received'[c] = received[c], looked'[c] = looked[c],
         Known(c)' <=> Known(c), Known(c) => results'[Op(c)] = results[Op(c)],
         call'[c].pc # "idle", call'[c].req = call[c].req,
         call'[c].reply \in {call[c].reply, NoReply},
         call'[c].pc \in {"check", "reply", "true"} => call'[c].reply # NoReply
  PROVE  Pending(c)'
BY Zenon DEF Pending

\* The first call of an operation.
LEMMA PendingFirst ==
  ASSUME NEW c \in Client, NextCallID'[c] > 0, Kind(c)' \in {"Get", "Put", "Append"},
         ~Known(c)', looked'[c] = NoReply,
         call'[c].pc = "sent", call'[c].req = Kind(c)', call'[c].reply = NoReply
  PROVE  Pending(c)'
BY Zenon DEF Pending

\* The call of Succeed.
LEMMA PendingSucceed ==
  ASSUME NEW c \in Client, Pending(c), looked[c] # NoReply, call[c].req \in {"Put", "Append"},
         NextCallID'[c] = NextCallID[c], Kind(c)' = Kind(c), Op(c)' = Op(c),
         looked'[c] = looked[c], received'[c] = Head(looked[c]),
         Known(c)' <=> Known(c), Known(c) => results'[Op(c)] = results[Op(c)],
         call'[c].pc = "sent", call'[c].req = "Succeed", call'[c].reply = NoReply
  PROVE  Pending(c)'
BY Zenon DEF Pending

\* A handler returns.
LEMMA PendingAnswered ==
  ASSUME NEW c \in Client, Pending(c), NEW v, call[c].req \in {"Get", "Put", "Append", "Succeed"},
         NextCallID'[c] = NextCallID[c], Kind(c)' = Kind(c), Op(c)' = Op(c),
         received'[c] = received[c],
         call'[c].pc = "waiting", call'[c].req = call[c].req,
         call'[c].reply # NoReply, Head(call'[c].reply) = v,
         call[c].req # "Succeed" => looked'[c] # NoReply /\ Head(looked'[c]) = v,
         call[c].req = "Succeed" => looked'[c] = looked[c] /\ ~Known(c)',
         call[c].req = "Get" => ~Known(c)',
         call[c].req \in {"Put", "Append"} => Known(c)' /\ results'[Op(c)] = v
  PROVE  Pending(c)'
BY Zenon DEF Pending

\* A step of the network keeps what the clerks know.
LEMMA NetStepClerks ==
  ASSUME IInv, NEW e \in End, processReq(e) \/ Deliver(e), UNCHANGED kvVars
  PROVE  \A c \in Client : ClerkOK(c)'
<1> SUFFICES ASSUME NEW c \in Client PROVE ClerkOK(c)'
  BY Zenon
<1>1. NetTypes /\ ClerkOK(c)
  BY Zenon DEF IInv, Types
<1>2. CASE c # e
  <2>1. call'[c] = call[c]
    BY Zenon, <1>1, <1>2, NetStepCall
  <2>2. QED
    BY Zenon, <1>1, <2>1, ClerkFrame DEF kvVars, Known, Op
<1>3. CASE c = e
  <2>1. inCall[c] /\ Pending(c)
    BY Zenon, <1>1, <1>3, NetStepCall DEF ClerkOK
  <2>2. /\ NextCallID'[c] = NextCallID[c] /\ Kind(c)' = Kind(c) /\ Op(c)' = Op(c)
        /\ received'[c] = received[c] /\ looked'[c] = looked[c]
        /\ Known(c)' <=> Known(c)
        /\ results' = results
    BY Zenon DEF Known, Op, Kind, kvVars
  <2>3. /\ call'[c].pc # "idle" /\ call'[c].req = call[c].req
        /\ call'[c].reply \in {call[c].reply, NoReply}
    BY Zenon, <1>1, <1>3, NetStepCall
  <2>4. call'[c].pc \in {"check", "reply", "true"} => call'[c].reply # NoReply
    BY Zenon, <1>1, <1>3, <2>1, NetStepCall DEF Pending
  <2>5. Pending(c)'
    BY Zenon, <2>1, <2>2, <2>3, <2>4, PendingMoves
  <2>6. QED
    BY Zenon, <1>1, <2>1, <2>5 DEF ClerkOK, kvVars
<1>4. QED
  BY Zenon, <1>2, <1>3

\* A step of the network keeps what is known of the server that restarts: a reply
\* is sent on only from the instance in use.
LEMMA NetStepHost ==
  ASSUME IInv, NEW e \in End, processReq(e) \/ Deliver(e), UNCHANGED <<persister, saved, phase>>
  PROVE  (\A d \in End : CallOK(d)') /\ HostOK'
<1>0. NetTypes /\ RestartTypes /\ HostOK /\ CallOK(e)
  BY Zenon DEF IInv, Types
<1>1. ASSUME NEW d \in End \ {e} PROVE CallOK(d)'
  <2>1. CallOK(d) /\ call'[d] = call[d]
    BY Zenon, <1>0, NetStepCall DEF IInv
  <2>2. QED
    BY Zenon, <1>0, <2>1, CallFrame
<1>2. CallOK(e)'
  <2>1. CASE call'[e].pc \notin {"request", "waiting", "check", "reply"}
    BY Zenon, <2>1 DEF CallOK
  <2>2. CASE call'[e].pc = "request"
    <3>1. servers[connections[e]] \in 0 .. saved
      BY <1>0 DEF NetTypes, HostOK, RestartTypes
    <3>2. call'[e].server \in 1 .. saved /\ call'[e].reply = NoReply
      BY <1>0, <2>2, <3>1, NetStepCall DEF RestartTypes
    <3>3. QED
      BY Zenon, <2>2, <3>2 DEF CallOK
  <2>3. CASE call'[e].pc = "waiting"
    BY Zenon, <1>0, <2>3, NetStepCall DEF CallOK
  <2>4. CASE call'[e].pc = "check"
    BY Zenon, <1>0, <2>4, NetStepCall DEF CallOK
  <2>5. CASE call'[e].pc = "reply"
    <3>1. /\ call[e].pc = "check" /\ ~isServerDead(e)
          /\ call'[e].server = call[e].server /\ call'[e].req = call[e].req
          /\ call'[e].reply = call[e].reply
      BY Zenon, <1>0, <2>5, NetStepCall
    <3>2. call[e].server \in 1 .. saved
      BY Zenon, <1>0, <3>1 DEF CallOK
    <3>3. connections[e] = Host => call[e].server = saved
      BY <1>0, <3>1, <3>2 DEF isServerDead, HostOK, RestartTypes
    <3>4. QED
      BY Zenon, <1>0, <2>5, <3>1, <3>2, <3>3 DEF CallOK
  <2>6. QED
    BY Zenon, <2>1, <2>2, <2>3, <2>4, <2>5
<1>3. HostOK'
  <2>1. ASSUME NEW h \in abandoned' PROVE h.call.server \in 1 .. saved
    <3>1. \/ h \in abandoned
          \/ call[e].pc = "waiting" /\ h = [end |-> e, call |-> call[e]]
      BY Zenon, <1>0, <2>1, NetStepIs
    <3>2. QED
      BY <1>0, <3>1 DEF HostOK, CallOK
  <2>2. UNCHANGED servers
    BY Zenon, <1>0, NetStepIs
  <2>3. QED
    BY Zenon, <1>0, <2>1, <2>2 DEF HostOK
<1>4. QED
  BY Zenon, <1>1, <1>2, <1>3

-----------------------------------------------------------------------------
(***************************************************************************)
(* The steps of the key/value store and of its clerks.                     *)
(***************************************************************************)

\* A step of clerk c leaves the server that restarts, and its callers, alone.
LEMMA ClerkStepHost ==
  ASSUME IInv, NEW c \in Client, UNCHANGED <<servers, abandoned, restartVars>>,
         \A e \in End \ {c} : call'[e] = call[e],
         \/ call'[c].pc \in {"sent", "idle"}
         \/ call'[c].pc = "waiting" /\ call[c].pc = "waiting" /\ call'[c].server = call[c].server
  PROVE  (\A e \in End : CallOK(e)') /\ HostOK' /\ ConfirmedSurvives' /\ RestartTypes'
<1> USE DEF IInv, Types
<1>1. ASSUME NEW e \in End \ {c} PROVE CallOK(e)'
  BY Zenon, CallFrame DEF restartVars
<1>2. CallOK(c)'
  BY Zenon DEF CallOK, restartVars
<1>3. HostOK' /\ ConfirmedSurvives' /\ RestartTypes'
  BY Zenon DEF HostOK, ConfirmedSurvives, RestartTypes, restartVars
<1>4. QED
  BY Zenon, <1>1, <1>2, <1>3

\* A new call keeps the types and leaves the other calls alone.
LEMMA CallTypes ==
  ASSUME NetTypes, NEW e \in End, NEW req \in Requests, Call(e, req),
         UNCHANGED <<enabled, servers, abandoned>>
  PROVE  NetTypes' /\ (\A d \in End \ {e} : call'[d] = call[d])
BY Zenon, EmptyValues DEF NetTypes, Call, CallSet, Places, NoReply

\* An operation of a program is a request.
LEMMA KindType ==
  ASSUME KVTypes, NEW c \in Client, NEW i \in 1 .. Len(program[c])
  PROVE  program[c][i] \in {"Get", "Put", "Append"} /\ program[c][i] \in Requests
BY DEF KVTypes, Requests

\* A clerk that starts an operation keeps the invariant.
LEMMA InvokeInv ==
  ASSUME IInv, NEW c \in Client, Invoke(c), UNCHANGED restartVars
  PROVE  IInv'
<1> USE DEF IInv, Types, Invoke
<1>0. NextCallID[c] + 1 \in 1 .. Len(program[c])
  BY DEF KVTypes
<1>1. NetTypes' /\ (\A e \in End \ {c} : call'[e] = call[e])
  BY Zenon, <1>0, KindType, CallTypes
<1>2. KVTypes'
  BY EmptyValues DEF KVTypes, NoReply
<1>3. ASSUME NEW d \in Client \ {c} PROVE ClerkOK(d)'
  <2>1. ClerkOK(d) /\ NextCallID'[d] = NextCallID[d]
    BY Zenon DEF KVTypes
  <2>2. QED
    BY Zenon, <1>1, <2>1, ClerkFrame DEF KVTypes, Known, Op
<1>4. ClerkOK(c)'
  <2>1. ~Known(c)'
    BY Zenon DEF Known, Op, ResultsForgotten, KVTypes
  <2>2. call'[c] = [pc |-> "sent", req |-> program[c][NextCallID[c] + 1], server |-> 0,
                    reply |-> NoReply]
    BY Zenon DEF Call, NetTypes
  <2>3. /\ NextCallID'[c] = NextCallID[c] + 1
        /\ inCall'[c] /\ looked'[c] = NoReply
    BY Zenon DEF KVTypes
  <2>4. Kind(c)' = call'[c].req /\ Kind(c)' \in {"Get", "Put", "Append"}
    BY <1>0, <2>2, <2>3, KindType DEF Kind
  <2>5. NextCallID'[c] > 0 /\ call'[c].pc = "sent" /\ call'[c].reply = NoReply
    BY <1>0, <2>2, <2>3
  <2>6. Pending(c)'
    BY Zenon, <2>1, <2>3, <2>4, <2>5, PendingFirst
  <2>7. QED
    BY <1>0, <2>3, <2>6 DEF ClerkOK
<1>5. ResultsForgotten'
  BY Zenon DEF ResultsForgotten, KVTypes, OpSet
<1>6. (\A e \in End : CallOK(e)') /\ HostOK' /\ ConfirmedSurvives' /\ RestartTypes'
  BY Zenon, <1>1, ClerkStepHost DEF Call, NetTypes
<1>7. QED
  BY Zenon, <1>1, <1>2, <1>3, <1>4, <1>5, <1>6

\* A clerk that repeats a call that failed keeps the invariant.
LEMMA RepeatInv ==
  ASSUME IInv, NEW c \in Client, Repeat(c), UNCHANGED restartVars
  PROVE  IInv'
<1> USE DEF IInv, Types, Repeat
<1>1. NetTypes' /\ (\A e \in End \ {c} : call'[e] = call[e])
  BY Zenon, CallTypes DEF NetTypes, CallSet
<1>2. KVTypes'
  BY Zenon DEF KVTypes, kvVars
<1>3. ASSUME NEW d \in Client \ {c} PROVE ClerkOK(d)'
  BY Zenon, <1>1, ClerkFrame DEF Known, Op, kvVars
<1>4. ClerkOK(c)'
  <2>1. call'[c] = [pc |-> "sent", req |-> call[c].req, server |-> 0, reply |-> NoReply]
    BY Zenon DEF Call, NetTypes
  <2>2. inCall[c] /\ Pending(c)
    BY Zenon DEF ClerkOK
  <2>3. Pending(c)'
    <3>1. /\ NextCallID'[c] = NextCallID[c] /\ Kind(c)' = Kind(c) /\ Op(c)' = Op(c)
          /\ received'[c] = received[c] /\ looked'[c] = looked[c]
          /\ Known(c)' <=> Known(c)
          /\ results' = results
      BY Zenon DEF Known, Op, Kind, kvVars
    <3>2. QED
      BY <2>1, <2>2, <3>1, PendingMoves
  <2>4. QED
    BY Zenon, <2>2, <2>3 DEF ClerkOK, kvVars
<1>5. ResultsForgotten'
  BY Zenon DEF ResultsForgotten, kvVars
<1>6. (\A e \in End : CallOK(e)') /\ HostOK' /\ ConfirmedSurvives' /\ RestartTypes'
  BY Zenon, <1>1, ClerkStepHost DEF Call, NetTypes
<1>7. QED
  BY Zenon, <1>1, <1>2, <1>3, <1>4, <1>5, <1>6

\* What the three replies do to the clerk; when its call ends, the server keeps no
\* result of it, and it returns what the operation found.
LEMMA OnReplyIs ==
  ASSUME IInv, NEW c \in Client, OnReply(c)
  PROVE  /\ inCall[c] /\ Pending(c) /\ looked[c] # NoReply
         /\ \/ Return(c, Head(looked[c])) /\ ~Known(c) /\ UNCHANGED received
            \/ /\ call[c].req \in {"Put", "Append"} /\ Call(c, "Succeed")
               /\ received' = [received EXCEPT ![c] = Head(looked[c])]
               /\ UNCHANGED <<inCall, answer>>
<1> USE DEF IInv
<1>1. inCall[c] /\ Pending(c) /\ call[c].pc = "true"
  BY Zenon DEF ClerkOK, OnReply
<1>2. QED
  BY Zenon, <1>1 DEF Pending, OnReply

\* A clerk that gets a reply keeps the types and leaves the other clerks alone.
LEMMA OnReplyTypes ==
  ASSUME IInv, NEW c \in Client, OnReply(c)
  PROVE  /\ NetTypes' /\ KVTypes'
         /\ \A e \in End \ {c} : call'[e] = call[e]
         /\ call'[c].pc \in {"sent", "idle"}
         /\ \A d \in Client \ {c} :
              inCall'[d] = inCall[d] /\ received'[d] = received[d] /\ answer'[d] = answer[d]
<1>1. /\ NetTypes /\ KVTypes /\ Head(looked[c]) \in Contents
      /\ UNCHANGED <<enabled, servers, abandoned, program, NextCallID, pairs, results, looked>>
  BY OnReplyIs DEF IInv, Types, KVTypes, NoReply, OnReply
<1>2. CASE Return(c, Head(looked[c])) /\ UNCHANGED received
  <2>1. /\ inCall' = [inCall EXCEPT ![c] = FALSE]
        /\ answer' = [answer EXCEPT ![c] = Head(looked[c])]
        /\ call' = [call EXCEPT ![c] = Idle]
    BY Zenon, <1>2 DEF Return
  <2>2. NetTypes' /\ call'[c].pc = "idle" /\ (\A e \in End \ {c} : call'[e] = call[e])
    BY Zenon, <1>1, <2>1, IdleType DEF NetTypes, Idle
  <2>3. /\ inCall' \in [Client -> BOOLEAN] /\ answer' \in [Client -> Contents]
        /\ \A d \in Client \ {c} : inCall'[d] = inCall[d] /\ answer'[d] = answer[d]
    BY Zenon, <1>1, <2>1 DEF KVTypes
  <2>4. QED
    BY Zenon, <1>1, <1>2, <2>2, <2>3 DEF KVTypes
<1>3. CASE /\ Call(c, "Succeed")
           /\ received' = [received EXCEPT ![c] = Head(looked[c])]
           /\ UNCHANGED <<inCall, answer>>
  <2>0. call'[c].pc = "sent"
    BY Zenon, <1>1, <1>3 DEF Call, NetTypes
  <2>1. NetTypes' /\ (\A e \in End \ {c} : call'[e] = call[e])
    BY Zenon, <1>1, <1>3, CallTypes DEF Requests
  <2>2. /\ received' \in [Client -> Contents]
        /\ \A d \in Client \ {c} : received'[d] = received[d]
    BY Zenon, <1>1, <1>3 DEF KVTypes
  <2>3. QED
    BY Zenon, <1>1, <1>3, <2>0, <2>1, <2>2 DEF KVTypes
<1>4. QED
  BY Zenon, <1>2, <1>3, OnReplyIs

\* A clerk that gets a reply goes on to Succeed, or is done and right.
LEMMA OnReplyClerk ==
  ASSUME IInv, NEW c \in Client, OnReply(c)
  PROVE  ClerkOK(c)'
<1>1. /\ inCall[c] /\ Pending(c) /\ looked[c] # NoReply /\ ClerkOK(c)
      /\ NetTypes /\ KVTypes
      /\ UNCHANGED <<program, NextCallID, results, looked>>
  BY Zenon, OnReplyIs DEF IInv, Types, OnReply
<1>2. CASE Return(c, Head(looked[c]))
  <2>1. ~inCall'[c] /\ call'[c].pc = "idle" /\ answer'[c] = Head(looked[c])
    BY Zenon, <1>1, <1>2 DEF Return, KVTypes, NetTypes, Idle
  <2>2. QED
    BY Zenon, <1>1, <2>1 DEF ClerkOK
<1>3. CASE /\ call[c].req \in {"Put", "Append"} /\ Call(c, "Succeed")
           /\ received' = [received EXCEPT ![c] = Head(looked[c])]
           /\ UNCHANGED inCall
  <2>1. /\ call'[c].pc = "sent" /\ call'[c].req = "Succeed" /\ call'[c].reply = NoReply
        /\ received'[c] = Head(looked[c])
    BY Zenon, <1>1, <1>3 DEF Call, NetTypes, KVTypes
  <2>2. /\ NextCallID'[c] = NextCallID[c] /\ Kind(c)' = Kind(c) /\ Op(c)' = Op(c)
        /\ looked'[c] = looked[c] /\ results' = results
        /\ Known(c)' <=> Known(c)
    BY Zenon, <1>1 DEF Known, Op, Kind
  <2>3. Pending(c)'
    BY Zenon, <1>1, <1>3, <2>1, <2>2, PendingSucceed
  <2>4. QED
    BY Zenon, <1>1, <1>3, <2>3 DEF ClerkOK
<1>4. QED
  BY Zenon, <1>2, <1>3, OnReplyIs

\* When a call ends, the server keeps no result of it.
LEMMA OnReplyForgotten ==
  ASSUME IInv, NEW c \in Client, OnReply(c)
  PROVE  ResultsForgotten'
<1>1. UNCHANGED <<NextCallID, results>>
  BY Zenon DEF OnReply
<1>2. ASSUME NEW op \in DOMAIN results
      PROVE  inCall'[op.ClientId] /\ op.CallId = NextCallID[op.ClientId] - 1
  <2>1. op \in OpSet /\ inCall[op.ClientId] /\ op.CallId = NextCallID[op.ClientId] - 1
    BY Zenon DEF IInv, Types, ResultsForgotten, KVTypes
  <2>2. CASE op.ClientId # c
    BY <2>1, <2>2, OnReplyTypes DEF OpSet
  <2>3. CASE op.ClientId = c
    <3>1. op = Op(c)
      BY Zenon, <2>1, <2>3 DEF OpSet, Op
    <3>2. QED
      BY Zenon, <2>1, <2>3, <3>1, OnReplyIs DEF Known
  <2>4. QED
    BY Zenon, <2>2, <2>3
<1>3. QED
  BY Zenon, <1>1, <1>2 DEF ResultsForgotten

\* A clerk that gets a reply keeps the invariant.
LEMMA OnReplyInv ==
  ASSUME IInv, NEW c \in Client, OnReply(c), UNCHANGED restartVars
  PROVE  IInv'
<1>1. /\ NetTypes' /\ KVTypes' /\ ClerkOK(c)' /\ ResultsForgotten'
      /\ \A e \in End \ {c} : call'[e] = call[e]
  BY Zenon, OnReplyTypes, OnReplyClerk, OnReplyForgotten
<1>2. ASSUME NEW d \in Client \ {c} PROVE ClerkOK(d)'
  <2>1. /\ ClerkOK(d) /\ call'[d] = call[d] /\ inCall'[d] = inCall[d]
        /\ received'[d] = received[d] /\ answer'[d] = answer[d]
        /\ UNCHANGED <<program, NextCallID, results, looked>>
    BY Zenon, <1>1, OnReplyTypes DEF IInv, OnReply
  <2>2. QED
    BY Zenon, <2>1, ClerkFrame DEF Known, Op
<1>3. (\A e \in End : CallOK(e)') /\ HostOK' /\ ConfirmedSurvives' /\ RestartTypes'
  <2>1. call'[c].pc \in {"sent", "idle"} /\ UNCHANGED <<servers, abandoned>>
    BY Zenon, OnReplyTypes DEF OnReply
  <2>2. QED
    BY Zenon, <1>1, <2>1, ClerkStepHost
<1>4. QED
  BY Zenon, <1>1, <1>2, <1>3 DEF IInv, Types

\* What the handlers do.  Only the first of an update executes it.
Answers(c, v) ==
  call' = [call EXCEPT ![c] = [pc |-> "waiting", req |-> call[c].req,
                               server |-> call[c].server, reply |-> <<v>>]]

Executes(c, new, found) ==
  /\ call[c].req = Kind(c) /\ looked[c] = NoReply /\ ~Known(c)
  /\ Answers(c, found)
  /\ pairs'   = new
  /\ results' = [op \in DOMAIN results \cup {Op(c)} |->
                   IF op = Op(c) THEN found ELSE results[op]]
  /\ looked'  = [looked EXCEPT ![c] = <<found>>]

\* The handlers of the server, by what they do: execute for the first time, answer
\* with the saved result, read, read again, or forget.
LEMMA ServeIs ==
  ASSUME IInv, NEW c \in Client, Serve(c)
  PROVE  /\ inCall[c] /\ Pending(c) /\ call[c].pc = "waiting"
         /\ UNCHANGED <<enabled, servers, reliable, abandoned>>
         /\ UNCHANGED <<program, NextCallID, inCall, received, answer>>
         /\ \/ /\ call[c].req = "Get" /\ Kind(c) = "Get" /\ Answers(c, pairs)
               /\ looked' = [looked EXCEPT ![c] = <<pairs>>]
               /\ UNCHANGED <<pairs, results>>
            \/ /\ call[c].req \in {"Put", "Append"} /\ Known(c) /\ Answers(c, results[Op(c)])
               /\ UNCHANGED <<pairs, results, looked>>
            \/ Kind(c) = "Put" /\ Executes(c, <<Op(c)>>, <<>>)
            \/ Kind(c) = "Append" /\ Executes(c, Append(pairs, Op(c)), pairs)
            \/ /\ call[c].req = "Succeed" /\ Answers(c, <<>>)
               /\ results' = [op \in DOMAIN results \ {Op(c)} |-> results[op]]
               /\ UNCHANGED <<pairs, looked>>
<1> USE DEF IInv, Types
<1>1. PICK v : HandlerReturns(c, v)
  BY Zenon DEF Serve, ServeGet, ServePut, ServeAppend, ServeUpdate, ServeSucceed
<1>2. /\ inCall[c] /\ Pending(c) /\ call[c].pc = "waiting"
      /\ UNCHANGED <<enabled, servers, reliable, abandoned>>
  BY Zenon, <1>1 DEF HandlerReturns, Running, ClerkOK
<1>3. ASSUME NEW w, HandlerReturns(c, w) PROVE Answers(c, w)
  BY Zenon, <1>3, ReturnsIs DEF Answers, NetTypes
<1>4. call[c].req \in {"Get", "Put", "Append"} => Kind(c) = call[c].req
  BY Zenon, <1>2 DEF Pending
<1>5. CASE ServeGet(c)
  BY Zenon, <1>2, <1>3, <1>4, <1>5 DEF ServeGet
<1>6. CASE ServePut(c)
  BY Zenon, <1>2, <1>3, <1>4, <1>6 DEF ServePut, ServeUpdate, Executes, Pending
<1>7. CASE ServeAppend(c)
  BY Zenon, <1>2, <1>3, <1>4, <1>7 DEF ServeAppend, ServeUpdate, Executes, Pending
<1>8. CASE ServeSucceed(c)
  BY Zenon, <1>2, <1>3, <1>8 DEF ServeSucceed
<1>9. QED
  BY Zenon, <1>5, <1>6, <1>7, <1>8 DEF Serve

\* Operations of different clerks are different.
LEMMA OpType ==
  ASSUME KVTypes, NEW c \in Client
  PROVE  /\ Op(c) \in OpSet /\ <<Op(c)>> \in Contents /\ Append(pairs, Op(c)) \in Contents
         /\ \A d \in Client \ {c} : Op(d) # Op(c)
BY DEF KVTypes, OpSet, Op, Contents

\* A handler that returns keeps the types and leaves the other calls alone.
LEMMA AnswerTypes ==
  ASSUME NetTypes, NEW c \in End, NEW v \in Contents, Answers(c, v),
         UNCHANGED <<enabled, servers, abandoned>>
  PROVE  NetTypes' /\ (\A e \in End \ {c} : call'[e] = call[e])
BY Zenon, Single DEF NetTypes, Answers, CallSet, Places

\* A handler of the store keeps the types.
LEMMA ServeTypes ==
  ASSUME IInv, NEW c \in Client, Serve(c)
  PROVE  /\ NetTypes' /\ KVTypes'
         /\ \A e \in End \ {c} : call'[e] = call[e]
         /\ \A d \in Client \ {c} : looked'[d] = looked[d]
<1> USE DEF IInv, Types
<1>1. /\ UNCHANGED <<enabled, servers, reliable, abandoned>>
      /\ UNCHANGED <<program, NextCallID, inCall, received, answer>>
  BY Zenon, ServeIs
<1>2. ASSUME NEW v \in Contents, Answers(c, v)
      PROVE  NetTypes' /\ (\A e \in End \ {c} : call'[e] = call[e])
  BY Zenon, <1>1, <1>2, AnswerTypes
<1>3. ASSUME NEW v \in Contents, looked' = [looked EXCEPT ![c] = <<v>>]
      PROVE  looked' \in [Client -> Seq(Contents)] /\ (\A d \in Client \ {c} : looked'[d] = looked[d])
  BY Zenon, <1>3, Single DEF KVTypes
<1>4. CASE /\ Answers(c, pairs)
           /\ looked' = [looked EXCEPT ![c] = <<pairs>>]
           /\ UNCHANGED <<pairs, results>>
  BY Zenon, <1>1, <1>2, <1>3, <1>4 DEF KVTypes
<1>5. CASE /\ Known(c) /\ Answers(c, results[Op(c)])
           /\ UNCHANGED <<pairs, results, looked>>
  BY Zenon, <1>1, <1>2, <1>5 DEF KVTypes, Known
<1>6. ASSUME NEW new \in Contents, NEW found \in Contents, Executes(c, new, found)
      PROVE  /\ NetTypes' /\ KVTypes'
             /\ \A e \in End \ {c} : call'[e] = call[e]
             /\ \A d \in Client \ {c} : looked'[d] = looked[d]
  <2>1. /\ Answers(c, found) /\ pairs' = new
        /\ results' = [op \in DOMAIN results \cup {Op(c)} |->
                         IF op = Op(c) THEN found ELSE results[op]]
        /\ looked'  = [looked EXCEPT ![c] = <<found>>]
    BY Zenon, <1>6 DEF Executes
  <2>2. DOMAIN results' \subseteq OpSet /\ results' \in [DOMAIN results' -> Contents]
    BY Zenon, <2>1, OpType DEF KVTypes
  <2>3. QED
    BY Zenon, <1>1, <1>2, <1>3, <2>1, <2>2 DEF KVTypes
<1>7. CASE /\ Answers(c, <<>>)
           /\ results' = [op \in DOMAIN results \ {Op(c)} |-> results[op]]
           /\ UNCHANGED <<pairs, looked>>
  <2>1. DOMAIN results' \subseteq OpSet /\ results' \in [DOMAIN results' -> Contents]
    BY Zenon, <1>7 DEF KVTypes
  <2>2. QED
    BY Zenon, <1>1, <1>2, <1>7, <2>1, EmptyValues DEF KVTypes
<1>8. CASE Executes(c, <<Op(c)>>, <<>>)
  BY Zenon, <1>6, <1>8, EmptyValues, OpType
<1>9. CASE Executes(c, Append(pairs, Op(c)), pairs)
  BY Zenon, <1>6, <1>9, OpType DEF KVTypes
<1>10. QED
  BY Zenon, <1>4, <1>5, <1>7, <1>8, <1>9, ServeIs

\* What is left in the results, and what the clerk's operation has found.
LEMMA ServeResults ==
  ASSUME IInv, NEW c \in Client, Serve(c)
  PROVE  \E v : /\ Answers(c, v)
                /\ call[c].req \in {"Get", "Put", "Append", "Succeed"}
                /\ call[c].req # "Succeed" => looked'[c] # NoReply /\ Head(looked'[c]) = v
                /\ call[c].req = "Succeed" => looked'[c] = looked[c] /\ ~Known(c)'
                /\ call[c].req = "Get" => ~Known(c)'
                /\ call[c].req \in {"Put", "Append"} => Known(c)' /\ results'[Op(c)] = v
<1>0. /\ KVTypes /\ Op(c)' = Op(c)
      /\ Kind(c) = "Get" => ~Known(c)
      /\ Known(c) => looked[c] # NoReply /\ results[Op(c)] = Head(looked[c])
  BY Zenon, ServeIs DEF IInv, Types, Op, Pending
<1>1. CASE /\ call[c].req = "Get" /\ Kind(c) = "Get" /\ Answers(c, pairs)
           /\ looked' = [looked EXCEPT ![c] = <<pairs>>]
           /\ UNCHANGED <<pairs, results>>
  <2>1. looked'[c] # NoReply /\ Head(looked'[c]) = pairs /\ ~Known(c)'
    BY <1>0, <1>1 DEF KVTypes, Known, NoReply
  <2>2. QED
    BY Zenon, <1>1, <2>1
<1>2. CASE /\ call[c].req \in {"Put", "Append"} /\ Known(c) /\ Answers(c, results[Op(c)])
           /\ UNCHANGED <<pairs, results, looked>>
  BY Zenon, <1>0, <1>2 DEF Known
<1>3. ASSUME NEW new, NEW found, Executes(c, new, found), Kind(c) \in {"Put", "Append"}
      PROVE  /\ Answers(c, found) /\ call[c].req \in {"Put", "Append"}
             /\ looked'[c] # NoReply /\ Head(looked'[c]) = found
             /\ Known(c)' /\ results'[Op(c)] = found
  BY <1>0, <1>3 DEF Executes, KVTypes, Known, NoReply
<1>4. CASE /\ call[c].req = "Succeed" /\ Answers(c, <<>>)
           /\ results' = [op \in DOMAIN results \ {Op(c)} |-> results[op]]
           /\ UNCHANGED <<pairs, looked>>
  <2>1. ~Known(c)'
    BY Zenon, <1>0, <1>4 DEF Known
  <2>2. QED
    BY Zenon, <1>4, <2>1
<1>5. CASE Kind(c) = "Put" /\ Executes(c, <<Op(c)>>, <<>>)
  BY Zenon, <1>3, <1>5
<1>6. CASE Kind(c) = "Append" /\ Executes(c, Append(pairs, Op(c)), pairs)
  BY Zenon, <1>3, <1>6
<1>7. QED
  BY <1>1, <1>2, <1>4, <1>5, <1>6, ServeIs

\* The clerk that a handler serves knows what it has to know.
LEMMA ServePending ==
  ASSUME IInv, NEW c \in Client, Serve(c)
  PROVE  Pending(c)'
<1>1. PICK v : /\ Answers(c, v)
               /\ call[c].req \in {"Get", "Put", "Append", "Succeed"}
               /\ call[c].req # "Succeed" => looked'[c] # NoReply /\ Head(looked'[c]) = v
               /\ call[c].req = "Succeed" => looked'[c] = looked[c] /\ ~Known(c)'
               /\ call[c].req = "Get" => ~Known(c)'
               /\ call[c].req \in {"Put", "Append"} => Known(c)' /\ results'[Op(c)] = v
  BY Zenon, ServeResults
<1>2. /\ Pending(c) /\ NextCallID'[c] = NextCallID[c] /\ Kind(c)' = Kind(c)
      /\ Op(c)' = Op(c) /\ received'[c] = received[c]
  BY Zenon, ServeIs DEF Kind, Op
<1>3. /\ call'[c].pc = "waiting" /\ call'[c].req = call[c].req
      /\ call'[c].reply # NoReply /\ Head(call'[c].reply) = v
  BY <1>1 DEF Answers, NoReply, IInv, Types, NetTypes
<1>4. QED
  BY <1>1, <1>2, <1>3, PendingAnswered

\* A handler of the store keeps the invariant.
LEMMA ServeInv ==
  ASSUME IInv, NEW c \in Client, Serve(c), UNCHANGED restartVars
  PROVE  IInv'
<1> USE DEF IInv, Types
<1>1. /\ inCall[c] /\ call[c].pc = "waiting"
      /\ UNCHANGED <<servers, abandoned, program, NextCallID, inCall, received, answer>>
  BY Zenon, ServeIs
<1> DEFINE OthersKept ==
             /\ DOMAIN results' \subseteq DOMAIN results \cup {Op(c)}
             /\ \A op \in DOMAIN results \ {Op(c)} :
                  op \in DOMAIN results' /\ results'[op] = results[op]
<1>2. OthersKept
  <2>1. ASSUME NEW found, results' = [op \in DOMAIN results \cup {Op(c)} |->
                                        IF op = Op(c) THEN found ELSE results[op]]
        PROVE  OthersKept
    BY Zenon, <2>1
  <2>2. CASE results' = [op \in DOMAIN results \ {Op(c)} |-> results[op]]
    BY Zenon, <2>2
  <2>3. QED
    BY Zenon, <2>1, <2>2, ServeIs DEF Executes
<1>3. ASSUME NEW d \in Client \ {c} PROVE ClerkOK(d)'
  <2>1. Op(d) # Op(c) /\ Op(d)' = Op(d)
    BY Zenon, <1>1, OpType DEF Op
  <2>2. (Known(d)' <=> Known(d)) /\ (Known(d) => results'[Op(d)] = results[Op(d)])
    BY Zenon, <1>2, <2>1 DEF Known
  <2>3. QED
    BY Zenon, <1>1, <2>2, ServeTypes, ClerkFrame
<1>4. ClerkOK(c)'
  BY Zenon, <1>1, ServePending DEF ClerkOK
<1>5. ResultsForgotten'
  <2>1. inCall[Op(c).ClientId] /\ Op(c).CallId = NextCallID[Op(c).ClientId] - 1
    BY Zenon, <1>1 DEF Op
  <2>2. QED
    BY Zenon, <1>1, <1>2, <2>1 DEF ResultsForgotten
<1>6. (\A e \in End : CallOK(e)') /\ HostOK' /\ ConfirmedSurvives' /\ RestartTypes'
  <2>1. PICK v : Answers(c, v)
    BY Zenon, ServeIs DEF Executes
  <2>2. call'[c].pc = "waiting" /\ call'[c].server = call[c].server
    BY Zenon, <2>1 DEF Answers, NetTypes
  <2>3. QED
    BY Zenon, <1>1, <2>2, ServeTypes, ClerkStepHost
<1>7. QED
  BY Zenon, <1>3, <1>4, <1>5, <1>6, ServeTypes

-----------------------------------------------------------------------------
(***************************************************************************)
(* The steps of the server that restarts and of its callers, and the theorems.*)
(***************************************************************************)

\* A step that is none of the store leaves the clerks of the store alone.
LEMMA HostStepClerks ==
  ASSUME IInv, UNCHANGED kvVars, \A c \in Client : call'[c] = call[c]
  PROVE  KVTypes' /\ (\A c \in Client : ClerkOK(c)') /\ ResultsForgotten'
<1>1. ASSUME NEW c \in Client PROVE ClerkOK(c)'
  BY Zenon, ClerkFrame DEF IInv, Known, Op, kvVars
<1>2. QED
  BY Zenon, <1>1 DEF IInv, Types, KVTypes, ResultsForgotten, kvVars

\* A step of the network keeps the invariant.
LEMMA NetStepInv ==
  ASSUME IInv, NEW e \in End, processReq(e) \/ Deliver(e), UNCHANGED <<kvVars, restartVars>>
  PROVE  IInv'
<1>1. NetTypes' /\ (\A c \in Client : ClerkOK(c)')
  BY Zenon, NetStepTypes, NetStepClerks DEF IInv, Types
<1>2. (\A d \in End : CallOK(d)') /\ HostOK'
  BY Zenon, NetStepHost DEF restartVars
<1>3. KVTypes' /\ RestartTypes' /\ ResultsForgotten' /\ ConfirmedSurvives'
  BY Zenon
     DEF IInv, Types, KVTypes, RestartTypes, ResultsForgotten, ConfirmedSurvives, kvVars,
         restartVars
<1>4. QED
  BY Zenon, <1>1, <1>2, <1>3 DEF IInv, Types

\* A new call to the server that restarts keeps the invariant.
LEMMA NewCallInv ==
  ASSUME IInv, NEW e \in HostEnds, NewCall(e), UNCHANGED kvVars
  PROVE  IInv'
<1> USE DEF IInv, Types
<1>0. e \in End /\ e \notin Client
  BY Zenon DEF HostEnds
<1>1. NetTypes' /\ (\A d \in End \ {e} : call'[d] = call[d])
  <2>1. <<e, calls[e] + 1>> \in Requests
    BY <1>0 DEF RestartTypes, Requests
  <2>2. QED
    BY Zenon, <1>0, <2>1, CallTypes DEF NewCall
<1>2. KVTypes' /\ (\A c \in Client : ClerkOK(c)') /\ ResultsForgotten'
  BY Zenon, <1>0, <1>1, HostStepClerks
<1>3. RestartTypes' /\ HostOK' /\ ConfirmedSurvives'
  BY DEF NewCall, RestartTypes, HostOK, ConfirmedSurvives
<1>4. ASSUME NEW d \in End \ {e} PROVE CallOK(d)'
  BY Zenon, <1>1, CallFrame DEF NewCall
<1>5. CallOK(e)'
  BY Zenon, <1>0 DEF NewCall, Call, CallOK, NetTypes
<1>6. QED
  BY Zenon, <1>1, <1>2, <1>3, <1>4, <1>5

\* The reply is about a request that the Persister in use holds.
LEMMA ConfirmInv ==
  ASSUME IInv, NEW e \in HostEnds, Confirm(e), UNCHANGED kvVars
  PROVE  IInv'
<1> USE DEF IInv, Types
<1>0. e \in End /\ connections[e] = Host /\ Deliver(e) /\ UNCHANGED <<persister, saved, phase>>
  BY Zenon DEF HostEnds, Confirm
<1>1. NetTypes' /\ (\A c \in Client : ClerkOK(c)')
  BY Zenon, <1>0, NetStepTypes, NetStepClerks
<1>2. (\A d \in End : CallOK(d)') /\ HostOK'
  BY Zenon, <1>0, NetStepHost
<1>3. KVTypes' /\ ResultsForgotten'
  BY Zenon DEF KVTypes, ResultsForgotten, kvVars
<1>4. RestartTypes' /\ ConfirmedSurvives'
  <2>1. call[e].req \in persister[saved]
    BY Zenon, <1>0 DEF Deliver, CallOK
  <2>2. QED
    BY Zenon, <1>0, <2>1 DEF Confirm, RestartTypes, ConfirmedSurvives
<1>5. QED
  BY Zenon, <1>1, <1>2, <1>3, <1>4

\* Steps of Host that change neither calls nor the requests a Persister holds,
\* except that they may save more.
LEMMA SaveInv ==
  ASSUME IInv, NEW s \in 1 .. saved, NEW req \in Requests, Save(s, req),
         UNCHANGED <<saved, phase, calls, confirmed>>
  PROVE  /\ RestartTypes' /\ ConfirmedSurvives'
         /\ req \in persister'[s]
         /\ \A t \in 1 .. saved : persister[t] \subseteq persister'[t]
<1>1. /\ persister \in Seq(SUBSET Requests) /\ Len(persister) = saved /\ saved \in Nat \ {0}
      /\ persister' = [persister EXCEPT ![s] = @ \cup {req}]
  BY Zenon DEF IInv, Types, RestartTypes, Save
<1>2. persister' \in Seq(SUBSET Requests) /\ Len(persister') = saved
  BY <1>1
<1>3. /\ req \in persister'[s]
      /\ \A t \in 1 .. saved : persister[t] \subseteq persister'[t]
  BY <1>1
<1>4. RestartTypes'
  BY Zenon, <1>2 DEF IInv, Types, RestartTypes
<1>5. ConfirmedSurvives'
  <2>1. confirmed \subseteq persister[saved] /\ saved \in 1 .. saved
    BY <1>1 DEF IInv, ConfirmedSurvives
  <2>2. QED
    BY Zenon, <1>3, <2>1 DEF ConfirmedSurvives
<1>6. QED
  BY Zenon, <1>3, <1>4, <1>5

\* A handler saves its request before it returns, and that keeps the invariant.
LEMMA HandlerInv ==
  ASSUME IInv, NEW e \in HostEnds, Handler(e), UNCHANGED kvVars
  PROVE  IInv'
<1> USE DEF IInv, Types
<1>0. e \in End /\ e \notin Client /\ connections[e] = Host
  BY Zenon DEF HostEnds
<1>1. /\ call[e] \in CallSet /\ call[e].pc = "waiting" /\ call[e].server \in 1 .. saved
      /\ UNCHANGED <<enabled, servers, abandoned, saved, phase, calls, confirmed>>
  BY Zenon, <1>0 DEF Handler, HandlerReturns, Running, CallOK, NetTypes
<1>2. call' = [call EXCEPT ![e] = [pc |-> "waiting", req |-> call[e].req,
                                   server |-> call[e].server, reply |-> <<<<>>>>]]
  BY Zenon, <1>0, ReturnsIs DEF Handler, NetTypes
<1>3. NetTypes' /\ (\A d \in End \ {e} : call'[d] = call[d])
  BY Zenon, <1>0, <1>1, <1>2, EmptyValues, AnswerTypes DEF Answers
<1>4. KVTypes' /\ (\A c \in Client : ClerkOK(c)') /\ ResultsForgotten'
  BY Zenon, <1>0, <1>3, HostStepClerks
<1>5. /\ RestartTypes' /\ ConfirmedSurvives'
      /\ call[e].req \in persister'[call[e].server]
      /\ \A t \in 1 .. saved : persister[t] \subseteq persister'[t]
  BY Zenon, <1>1, SaveInv DEF Handler, CallSet
<1>6. ASSUME NEW d \in End \ {e} PROVE CallOK(d)'
  BY Zenon, <1>1, <1>3, <1>5, CallFrame
<1>7. CallOK(e)'
  <2>1. call'[e].pc = "waiting" /\ call'[e].req = call[e].req /\ call'[e].server = call[e].server
    BY Zenon, <1>0, <1>2 DEF NetTypes
  <2>2. QED
    BY Zenon, <1>1, <1>5, <2>1 DEF CallOK
<1>8. HostOK'
  BY Zenon, <1>1 DEF HostOK
<1>9. QED
  BY Zenon, <1>3, <1>4, <1>5, <1>6, <1>7, <1>8

\* A handler whose caller has given up keeps the invariant, though it may save to
\* the Persister of an instance that is gone.
LEMMA AbandonedHandlerInv ==
  ASSUME IInv, NEW h \in abandoned, AbandonedHandler(h), UNCHANGED kvVars
  PROVE  IInv'
<1> USE DEF IInv, Types
<1>1. /\ h.call.server \in 1 .. saved /\ h.call.req \in Requests
      /\ UNCHANGED <<enabled, servers, call, saved, phase, calls, confirmed>>
  BY Zenon DEF AbandonedHandler, AbandonedReturns, HostOK, NetTypes, CallSet
<1>2. abandoned' \subseteq abandoned
  BY Zenon DEF AbandonedHandler, AbandonedReturns
<1>3. /\ RestartTypes' /\ ConfirmedSurvives'
      /\ \A t \in 1 .. saved : persister[t] \subseteq persister'[t]
  BY Zenon, <1>1, SaveInv DEF AbandonedHandler
<1>4. KVTypes' /\ (\A c \in Client : ClerkOK(c)') /\ ResultsForgotten'
  BY Zenon, <1>1, HostStepClerks
<1>5. ASSUME NEW d \in End PROVE CallOK(d)'
  BY Zenon, <1>1, <1>3, CallFrame
<1>6. NetTypes' /\ HostOK'
  BY Zenon, <1>1, <1>2 DEF NetTypes, HostOK
<1>7. QED
  BY Zenon, <1>3, <1>4, <1>5, <1>6

\* crash1() and start1(), but for the copy of the Persister.
LEMMA PhaseInv ==
  ASSUME IInv, UNCHANGED kvVars,
         \/ \E e \in Peer : Disconnect(e) \/ Connect(e)
         \/ Delete \/ Start
  PROVE  IInv'
<1> USE DEF IInv, Types
<1>1. UNCHANGED <<reliable, call, abandoned, callers, persister, saved, calls, confirmed>>
  BY Zenon
     DEF Disconnect, Connect, Delete, Start, Enable, DeleteServer, AddServer, NextPhase,
         restartVars
<1>2. enabled' \in [End -> BOOLEAN]
  BY Zenon DEF Disconnect, Connect, Delete, Start, Enable, DeleteServer, AddServer, NetTypes
<1>3. /\ servers' \in [Servername -> Nat] /\ HostOK'
      /\ phase' \in {"running", "disconnecting", "deleted", "copied"}
  <2>1. CASE \E e \in Peer : Disconnect(e) \/ Connect(e)
    BY Zenon, <1>1, <2>1
       DEF Disconnect, Connect, Enable, NextPhase, restartVars, NetTypes, HostOK, RestartTypes
  <2>2. CASE Delete
    BY <1>1, <2>2 DEF Delete, DeleteServer, NextPhase, NetTypes, HostOK, RestartTypes
  <2>3. CASE Start
    BY <1>1, <2>3 DEF Start, AddServer, NextPhase, NetTypes, HostOK, RestartTypes
  <2>4. QED
    BY Zenon, <2>1, <2>2, <2>3
<1>4. NetTypes' /\ RestartTypes' /\ ConfirmedSurvives'
  BY Zenon, <1>1, <1>2, <1>3 DEF NetTypes, RestartTypes, ConfirmedSurvives
<1>5. KVTypes' /\ (\A c \in Client : ClerkOK(c)') /\ ResultsForgotten'
  BY Zenon, <1>1, HostStepClerks
<1>6. ASSUME NEW d \in End PROVE CallOK(d)'
  BY Zenon, <1>1, CallFrame
<1>7. QED
  BY Zenon, <1>3, <1>4, <1>5, <1>6

\* crash1() copies what the Persister in use holds: every confirmed request, and
\* every request whose reply is on its way.
LEMMA CopyInv ==
  ASSUME IInv, Copy, UNCHANGED kvVars
  PROVE  IInv'
<1> USE DEF IInv, Types
<1>1. /\ UNCHANGED <<enabled, servers, call, abandoned, calls, confirmed>>
      /\ phase = "deleted" /\ phase' = "copied" /\ saved' = saved + 1
  BY Zenon DEF Copy, netVars
<1>2. /\ persister' \in Seq(SUBSET Requests) /\ Len(persister') = saved + 1
      /\ persister'[saved + 1] = persister[saved]
      /\ \A t \in 1 .. saved : persister'[t] = persister[t]
  BY DEF Copy, RestartTypes
<1>3. NetTypes' /\ RestartTypes' /\ ConfirmedSurvives'
  BY <1>1, <1>2 DEF NetTypes, RestartTypes, ConfirmedSurvives
<1>4. KVTypes' /\ (\A c \in Client : ClerkOK(c)') /\ ResultsForgotten'
  BY Zenon, <1>1, HostStepClerks
<1>5. ASSUME NEW d \in End PROVE CallOK(d)'
  BY <1>1, <1>2 DEF CallOK, RestartTypes
<1>6. HostOK'
  <2>1. saved \in Nat /\ saved' = saved + 1
    BY Zenon, <1>1 DEF RestartTypes
  <2>2. \A n \in Servername : servers[n] \in Nat
    BY Zenon DEF NetTypes
  <2>3. QED
    BY <1>1, <2>1, <2>2 DEF HostOK
<1>7. QED
  BY Zenon, <1>3, <1>4, <1>5, <1>6

-----------------------------------------------------------------------------

\* Every step keeps the invariant.
LEMMA NextInv == IInv /\ [Next]_vars => IInv'
<1> SUFFICES ASSUME IInv, [Next]_vars PROVE IInv'
  BY Zenon
<1>1. ASSUME NEW e \in End, processReq(e) \/ Deliver(e), UNCHANGED <<kvVars, restartVars>>
      PROVE  IInv'
  BY Zenon, <1>1, NetStepInv
<1>2. CASE UNCHANGED vars
  <2>1. UNCHANGED <<netVars, kvVars, restartVars>>
    BY Zenon, <1>2 DEF vars
  <2>2. KVTypes' /\ (\A c \in Client : ClerkOK(c)') /\ ResultsForgotten'
    BY Zenon, <2>1, HostStepClerks DEF netVars
  <2>3. \A e \in End : CallOK(e)'
    BY Zenon, <2>1, CallFrame DEF IInv, Types, netVars, restartVars
  <2>4. QED
    BY Zenon, <2>1, <2>2, <2>3
       DEF IInv, Types, NetTypes, RestartTypes, HostOK, ConfirmedSurvives, netVars, restartVars
<1>3. CASE \E c \in Client : NetStep(c)
  BY Zenon, <1>1, <1>3 DEF NetStep
<1>4. CASE \E e \in HostEnds : processReq(e) /\ UNCHANGED <<kvVars, restartVars>>
  BY Zenon, <1>1, <1>4 DEF HostEnds
<1>5. CASE \E c \in Client : Invoke(c) /\ UNCHANGED restartVars
  BY Zenon, <1>5, InvokeInv
<1>6. CASE \E c \in Client : Repeat(c) /\ UNCHANGED restartVars
  BY Zenon, <1>6, RepeatInv
<1>7. CASE \E c \in Client : OnReply(c) /\ UNCHANGED restartVars
  BY Zenon, <1>7, OnReplyInv
<1>8. CASE \E c \in Client : Serve(c) /\ UNCHANGED restartVars
  BY Zenon, <1>8, ServeInv
<1>9. CASE \E e \in HostEnds : NewCall(e) /\ UNCHANGED kvVars
  BY Zenon, <1>9, NewCallInv
<1>10. CASE \E e \in HostEnds : Confirm(e) /\ UNCHANGED kvVars
  BY Zenon, <1>10, ConfirmInv
<1>11. CASE \E e \in HostEnds : Handler(e) /\ UNCHANGED kvVars
  BY Zenon, <1>11, HandlerInv
<1>12. CASE \E h \in abandoned : AbandonedHandler(h) /\ UNCHANGED kvVars
  BY Zenon, <1>12, AbandonedHandlerInv
<1>13. CASE \/ \E e \in Peer : Disconnect(e) /\ UNCHANGED kvVars
            \/ \E e \in Peer : Connect(e) /\ UNCHANGED kvVars
            \/ Delete /\ UNCHANGED kvVars
            \/ Start /\ UNCHANGED kvVars
  BY Zenon, <1>13, PhaseInv
<1>14. CASE Copy /\ UNCHANGED kvVars
  BY Zenon, <1>14, CopyInv
<1>15. QED
  BY Zenon, <1>2, <1>3, <1>4, <1>5, <1>6, <1>7, <1>8, <1>9, <1>10, <1>11, <1>12, <1>13, <1>14
     DEF Next

\* IInv is an invariant of the network with its two servers.
THEOREM Invariance == Spec => []IInv
BY InitInv, NextInv, PTL DEF Spec

\* For any number of clerks, calls and lost messages: the server of src/src/kvsrv
\* keeps results of calls in progress only.
THEOREM Forgotten == Spec => []ResultsForgotten
<1>1. IInv => ResultsForgotten
  BY Zenon DEF IInv
<1>2. QED
  BY <1>1, Invariance, PTL

\* For any number of callers, calls and restarts: what a caller got a positive
\* reply for is in the Persister that crash1() copied last.
THEOREM Survival == Spec => []ConfirmedSurvives
<1>1. IInv => ConfirmedSurvives
  BY Zenon DEF IInv
<1>2. QED
  BY <1>1, Invariance, PTL

-----------------------------------------------------------------------------
(***************************************************************************)
(* The key/value store implements KVStore.                                 *)
(***************************************************************************)

\* A function changed at one place.
LEMMA ChangedAt ==
  ASSUME NEW S, NEW f, NEW g, f = [d \in S |-> f[d]], g = [d \in S |-> g[d]],
         NEW c \in S, NEW v, g[c] = v, \A d \in S \ {c} : g[d] = f[d]
  PROVE  g = [f EXCEPT ![c] = v]
BY Zenon

\* A function on 1 .. n is a sequence.
LEMMA IsSeq ==
  ASSUME NEW S, NEW n \in Nat, NEW f \in [1 .. n -> S]
  PROVE  f \in Seq(S)
OBVIOUS

\* The initial states map to initial states of KVStore.
LEMMA InitImplements == Init => Store!Init
<1> SUFFICES ASSUME Init PROVE Store!Init
  BY Zenon
<1> USE DEF Init, KVInit
<1>1. program \in [Client -> Seq({"Get", "Put", "Append"})]
  BY Zenon
<1>2. ASSUME NEW c \in Client
      PROVE  [i \in DOMAIN program[c] |-> [kind |-> program[c][i], key |-> 1]]
               \in Seq([kind : {"Get", "Put", "Append"}, key : {1}])
  <2>1. /\ DOMAIN program[c] = 1 .. Len(program[c]) /\ Len(program[c]) \in Nat
        /\ \A i \in DOMAIN program[c] : program[c][i] \in {"Get", "Put", "Append"}
    BY <1>1
  <2>2. [i \in DOMAIN program[c] |-> [kind |-> program[c][i], key |-> 1]]
          \in [1 .. Len(program[c]) -> [kind : {"Get", "Put", "Append"}, key : {1}]]
    BY Zenon, <2>1
  <2>3. QED
    BY Zenon, <2>1, <2>2, IsSeq
<1>3. QED
  BY <1>2 DEF Store!Init, NoReply, Program, Executed, Returned, Value, Seen

\* Steps that change nothing KVStore speaks of.
LEMMA Stutter ==
  ASSUME UNCHANGED <<program, NextCallID, inCall, looked, pairs, answer>>
  PROVE  UNCHANGED Store!vars
BY Zenon DEF Store!vars, Program, Executed, Returned, Value, Seen

\* A clerk that starts an operation does Call of KVStore.
LEMMA InvokeImplements ==
  ASSUME IInv, NEW c \in Client, Invoke(c)
  PROVE  Store!Call(c)
<1> USE DEF IInv, Types, KVTypes, Invoke
<1>1. ClerkOK(c) /\ ~inCall[c] /\ NextCallID[c] \in Nat
  BY Zenon
<1>2. NextCallID[c] < Len([i \in DOMAIN program[c] |-> [kind |-> program[c][i], key |-> 1]])
  OBVIOUS
<1>3. ASSUME NEW d \in Client
      PROVE  /\ NextCallID'[d] - (IF inCall'[d] /\ looked'[d] = NoReply THEN 1 ELSE 0) =
                  NextCallID[d] - (IF inCall[d] /\ looked[d] = NoReply THEN 1 ELSE 0)
             /\ NextCallID'[d] - (IF inCall'[d] THEN 1 ELSE 0) =
                  NextCallID[d] - (IF inCall[d] THEN 1 ELSE 0)
             /\ (IF looked'[d] = NoReply THEN answer'[d] ELSE Head(looked'[d])) =
                  (IF looked[d] = NoReply THEN answer[d] ELSE Head(looked[d]))
  <2>1. CASE d = c
    <3>1. /\ NextCallID'[c] = NextCallID[c] + 1 /\ inCall'[c] = TRUE /\ looked'[c] = NoReply
          /\ answer'[c] = answer[c]
      BY Zenon
    <3>2. QED
      BY <1>1, <2>1, <3>1 DEF ClerkOK
  <2>2. CASE d # c
    <3>1. /\ NextCallID'[d] = NextCallID[d] /\ inCall'[d] = inCall[d] /\ looked'[d] = looked[d]
          /\ answer'[d] = answer[d]
      BY Zenon, <2>2
    <3>2. QED
      BY Zenon, <3>1
  <2>3. QED
    BY Zenon, <2>1, <2>2
<1>4. QED
  BY <1>1, <1>2, <1>3 DEF Store!Call, Program, Executed, Returned, Value, Seen

\* A clerk whose call ends does Return of KVStore; until then nothing KVStore
\* speaks of changes.
LEMMA OnReplyImplements ==
  ASSUME IInv, NEW c \in Client, OnReply(c)
  PROVE  Store!Return(c) \/ UNCHANGED Store!vars
<1> USE DEF IInv, Types, KVTypes
<1>1. /\ inCall[c] /\ looked[c] # NoReply
      /\ UNCHANGED <<program, NextCallID, pairs, looked>>
  BY Zenon, OnReplyIs DEF OnReply
<1>2. CASE UNCHANGED <<inCall, answer>>
  BY Zenon, <1>1, <1>2, Stutter
<1>3. CASE Return(c, Head(looked[c]))
  <2>1. inCall' = [inCall EXCEPT ![c] = FALSE] /\ answer' = [answer EXCEPT ![c] = Head(looked[c])]
    BY Zenon, <1>3 DEF Return
  <2>2. ASSUME NEW d \in Client
        PROVE  /\ NextCallID'[d] - (IF inCall'[d] /\ looked'[d] = NoReply THEN 1 ELSE 0) =
                    NextCallID[d] - (IF inCall[d] /\ looked[d] = NoReply THEN 1 ELSE 0)
               /\ d # c => NextCallID'[d] - (IF inCall'[d] THEN 1 ELSE 0) =
                             NextCallID[d] - (IF inCall[d] THEN 1 ELSE 0)
               /\ (IF looked'[d] = NoReply THEN answer'[d] ELSE Head(looked'[d])) =
                    (IF looked[d] = NoReply THEN answer[d] ELSE Head(looked[d]))
    <3>1. CASE d = c
      BY Zenon, <1>1, <2>1, <3>1
    <3>2. CASE d # c
      <4>1. inCall'[d] = inCall[d] /\ answer'[d] = answer[d]
        BY Zenon, <2>1, <3>2
      <4>2. QED
        BY Zenon, <1>1, <4>1
    <3>3. QED
      BY Zenon, <3>1, <3>2
  <2>3. ~inCall'[c]
    BY Zenon, <2>1
  <2>4. Returned[c] < Executed[c] /\ Seen[c] = Head(looked[c])
    BY <1>1 DEF Returned, Executed, Seen
  <2>5. Returned' = [Returned EXCEPT ![c] = @ + 1]
    <3>1. \A d \in Client \ {c} : Returned'[d] = Returned[d]
      BY Zenon, <2>2 DEF Returned
    <3>2. Returned'[c] = Returned[c] + 1
      BY <1>1, <2>3 DEF Returned
    <3>3. Returned = [d \in Client |-> Returned[d]] /\ Returned' = [d \in Client |-> Returned'[d]]
      BY Zenon DEF Returned
    <3>4. QED
      BY Zenon, <3>1, <3>2, <3>3, ChangedAt
  <2>6. answer' = [answer EXCEPT ![c] = Seen[c]]
    BY Zenon, <2>1, <2>4
  <2>7. UNCHANGED <<Program, NextCallID, Executed, Value, Seen>>
    BY Zenon, <1>1, <2>2 DEF Program, Executed, Value, Seen
  <2>8. QED
    BY Zenon, <2>4, <2>5, <2>6, <2>7 DEF Store!Return
<1>4. QED
  BY Zenon, <1>2, <1>3, OnReplyIs

\* An operation that the server executes for the first time.
LEMMA ExecuteImplements ==
  ASSUME IInv, NEW c \in Client, inCall[c], looked[c] = NoReply,
         UNCHANGED <<program, NextCallID, inCall, answer>>,
         NEW found, looked' = [looked EXCEPT ![c] = <<found>>],
         found = (IF Kind(c) \in {"Get", "Append"} THEN pairs ELSE <<>>),
         pairs' = Store!Effect(Kind(c), pairs, Op(c))
  PROVE  Store!Execute(c)
<1> USE DEF IInv, Types, KVTypes
<1>1. NextCallID[c] \in 1 .. Len(program[c])
  BY DEF ClerkOK, Pending
<1>2. Program[c][NextCallID[c]] = [kind |-> Kind(c), key |-> 1]
  BY <1>1 DEF Kind, Program
<1>3. looked'[c] = <<found>> /\ \A d \in Client \ {c} : looked'[d] = looked[d]
  BY Zenon
<1>4. /\ Executed[c] < NextCallID[c]
      /\ Executed' = [Executed EXCEPT ![c] = @ + 1]
  <2>1. Executed[c] = NextCallID[c] - 1 /\ Executed'[c] = NextCallID[c]
    <3>1. looked'[c] # NoReply
      BY Zenon, <1>3 DEF NoReply
    <3>2. QED
      BY <3>1 DEF Executed
  <2>2. \A d \in Client \ {c} : Executed'[d] = Executed[d]
    BY Zenon, <1>3 DEF Executed
  <2>3. Executed = [d \in Client |-> Executed[d]] /\ Executed' = [d \in Client |-> Executed'[d]]
    BY Zenon DEF Executed
  <2>4. Executed'[c] = Executed[c] + 1
    BY <1>1, <2>1
  <2>5. Executed' = [Executed EXCEPT ![c] = Executed[c] + 1]
    BY Zenon, <2>2, <2>3, <2>4, ChangedAt
  <2>6. QED
    BY <1>1, <2>1, <2>5
<1>5. Value' = [Value EXCEPT ![1] = Store!Effect(Kind(c), @, Op(c))]
  BY Zenon DEF Value
<1>6. Seen' = [Seen EXCEPT ![c] = Found([kind |-> Kind(c), key |-> 1], Value[1])]
  <2>1. Seen'[c] = Found([kind |-> Kind(c), key |-> 1], Value[1])
    BY <1>3 DEF Seen, Found, Value, NoReply
  <2>2. \A d \in Client \ {c} : Seen'[d] = Seen[d]
    BY Zenon, <1>3 DEF Seen
  <2>3. Seen = [d \in Client |-> Seen[d]] /\ Seen' = [d \in Client |-> Seen'[d]]
    BY Zenon DEF Seen
  <2>4. QED
    BY Zenon, <2>1, <2>2, <2>3, ChangedAt
<1>7. UNCHANGED <<Program, NextCallID, Returned, answer>>
  BY Zenon DEF Program, Returned
<1>8. QED
  BY <1>2, <1>4, <1>5, <1>6, <1>7 DEF Store!Execute, Op

\* A Get that the server sees again.
LEMMA ReadAgainImplements ==
  ASSUME IInv, NEW c \in Client, inCall[c], looked[c] # NoReply, Kind(c) = "Get",
         UNCHANGED <<program, NextCallID, inCall, answer, pairs>>,
         looked' = [looked EXCEPT ![c] = <<pairs>>]
  PROVE  Store!ReadAgain(c)
<1> USE DEF IInv, Types, KVTypes
<1>1. NextCallID[c] \in 1 .. Len(program[c])
  BY DEF ClerkOK, Pending
<1>2. Program[c][NextCallID[c]] = [kind |-> "Get", key |-> 1]
  BY <1>1 DEF Kind, Program
<1>3. /\ looked'[c] = <<pairs>> /\ looked'[c] # NoReply
      /\ \A d \in Client \ {c} : looked'[d] = looked[d]
  BY Zenon DEF NoReply
<1>4. Returned[c] < Executed[c]
  BY <1>1 DEF Returned, Executed
<1>5. Seen' = [Seen EXCEPT ![c] = Found([kind |-> "Get", key |-> 1], Value[1])]
  <2>1. Seen'[c] = Found([kind |-> "Get", key |-> 1], Value[1])
    BY <1>3 DEF Seen, Found, Value
  <2>2. \A d \in Client \ {c} : Seen'[d] = Seen[d]
    BY Zenon, <1>3 DEF Seen
  <2>3. Seen = [d \in Client |-> Seen[d]] /\ Seen' = [d \in Client |-> Seen'[d]]
    BY Zenon DEF Seen
  <2>4. QED
    BY Zenon, <2>1, <2>2, <2>3, ChangedAt
<1>6. UNCHANGED Executed
  <2>1. \A d \in Client : Executed'[d] = Executed[d]
    BY Zenon, <1>3 DEF Executed
  <2>2. QED
    BY Zenon, <2>1 DEF Executed
<1>7. UNCHANGED <<Program, NextCallID, Returned, Value, answer>>
  BY Zenon DEF Program, Returned, Value
<1>8. QED
  BY <1>2, <1>4, <1>5, <1>6, <1>7 DEF Store!ReadAgain

\* A handler does Execute or ReadAgain of KVStore, or nothing: an update that is
\* repeated is not executed again.
LEMMA ServeImplements ==
  ASSUME IInv, NEW c \in Client, Serve(c)
  PROVE  Store!Execute(c) \/ Store!ReadAgain(c) \/ UNCHANGED Store!vars
<1>1. inCall[c] /\ UNCHANGED <<program, NextCallID, inCall, answer>>
  BY Zenon, ServeIs
<1>2. CASE /\ Kind(c) = "Get"
           /\ looked' = [looked EXCEPT ![c] = <<pairs>>]
           /\ UNCHANGED <<pairs, results>>
  <2>1. CASE looked[c] = NoReply
    <3>1. pairs' = Store!Effect(Kind(c), pairs, Op(c))
      BY Zenon, <1>2 DEF Store!Effect
    <3>2. QED
      BY Zenon, <1>1, <1>2, <2>1, <3>1, ExecuteImplements
  <2>2. CASE looked[c] # NoReply
    BY Zenon, <1>1, <1>2, <2>2, ReadAgainImplements
  <2>3. QED
    BY Zenon, <2>1, <2>2
<1>3. CASE UNCHANGED <<pairs, looked>>
  BY Zenon, <1>1, <1>3, Stutter
<1>4. CASE Kind(c) = "Put" /\ Executes(c, <<Op(c)>>, <<>>)
  <2>1. pairs' = Store!Effect(Kind(c), pairs, Op(c))
    BY Zenon, <1>4 DEF Store!Effect, Executes
  <2>2. QED
    BY Zenon, <1>1, <1>4, <2>1, ExecuteImplements DEF Executes
<1>5. CASE Kind(c) = "Append" /\ Executes(c, Append(pairs, Op(c)), pairs)
  <2>1. pairs' = Store!Effect(Kind(c), pairs, Op(c))
    BY Zenon, <1>5 DEF Store!Effect, Executes
  <2>2. QED
    BY Zenon, <1>1, <1>5, <2>1, ExecuteImplements DEF Executes
<1>6. QED
  BY Zenon, <1>2, <1>3, <1>4, <1>5, ServeIs

\* Every step is a step of KVStore or changes nothing that it speaks of.
LEMMA NextImplements == IInv /\ [Next]_vars => [Store!Next]_(Store!vars)
<1> SUFFICES ASSUME IInv, [Next]_vars PROVE [Store!Next]_(Store!vars)
  BY Zenon
<1>1. ASSUME NEW c \in Client,
             Store!Call(c) \/ Store!Execute(c) \/ Store!ReadAgain(c) \/ Store!Return(c)
      PROVE  Store!Next
  BY Zenon, <1>1 DEF Store!Next
<1>2. CASE UNCHANGED kvVars
  BY Zenon, <1>2, Stutter DEF kvVars
<1>3. CASE \E c \in Client : Invoke(c)
  BY Zenon, <1>1, <1>3, InvokeImplements
<1>4. CASE \E c \in Client : OnReply(c)
  BY Zenon, <1>1, <1>4, OnReplyImplements
<1>5. CASE \E c \in Client : Serve(c)
  BY Zenon, <1>1, <1>5, ServeImplements
<1>6. QED
  BY Zenon, <1>2, <1>3, <1>4, <1>5 DEF Next, NetStep, Repeat, vars

\* For any number of clerks and calls, and however many requests and replies the
\* network loses, the server and the clerks of src/src/kvsrv implement KVStore:
\* every Put and Append is executed exactly once.
THEOREM Implementation == Spec => Linearizable
<1>1. Init => Store!Init
  BY Zenon, InitImplements
<1>2. IInv /\ [Next]_vars => [Store!Next]_(Store!vars)
  BY Zenon, NextImplements
<1>3. QED
  BY <1>1, <1>2, Invariance, PTL DEF Spec, Linearizable, Store!Spec

==============================================================================
