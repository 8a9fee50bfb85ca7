------------------------------- MODULE LabRPC -------------------------------
(***************************************************************************)
(* The network of src/src/labrpc/labrpc.go: client ends that have at most  *)
(* one Call() each in progress, servers that are added, deleted and added  *)
(* again, and for every call a goroutine processReq() and a goroutine that *)
(* runs the handler.  What a handler does, and when a caller calls, is     *)
(* left to the modules that extend this one.                               *)
(***************************************************************************)
EXTENDS Integers, Sequences

CONSTANTS
  End,          \* names of client ends
  Servername,
  connections   \* end -> name of the server it is connected to

ASSUME ConnectionsAssumption == connections \in [End -> Servername]

VARIABLES
  enabled,      \* end -> may it send?
  servers,      \* server name -> incarnation of the Server object, 0 if nil
  reliable,
  call,         \* end -> where its last Call() is
  abandoned     \* handlers that run for callers that got no reply

netVars == <<enabled, servers, reliable, call, abandoned>>

\* A reply that may be missing: the empty sequence or the sequence of one reply.
NoReply == <<>>
Idle    == [pc |-> "idle", req |-> "none", server |-> 0, reply |-> NoReply]

NetInit ==
  /\ enabled   = [e \in End |-> TRUE]
  /\ servers   = [n \in Servername |-> 1]
  /\ reliable \in BOOLEAN
  /\ call      = [e \in End |-> Idle]
  /\ abandoned = {}

Goto(e, pc) == call' = [call EXCEPT ![e].pc = pc]

\* The handler of the call of e has not returned.
Running(e) == call[e].pc = "waiting" /\ call[e].reply = NoReply

Call(e, req) ==
  call' = [call EXCEPT ![e] = [pc |-> "sent", req |-> req, server |-> 0, reply |-> NoReply]]

\* readEndnameInfo(), and the reply of an end that leads nowhere.
readEndnameInfo(e) ==
  LET s == servers[connections[e]] IN
  /\ call[e].pc = "sent"
  /\ \/ ~(enabled[e] /\ s # 0) /\ Goto(e, "false")
     \/ /\ enabled[e] /\ s # 0
        /\ call' = [call EXCEPT ![e] = [pc |-> "request", req |-> @.req, server |-> s,
                                        reply |-> NoReply]]
  /\ UNCHANGED <<enabled, servers, reliable, abandoned>>

DropRequest(e) ==
  /\ call[e].pc = "request" /\ ~reliable
  /\ Goto(e, "false")
  /\ UNCHANGED <<enabled, servers, reliable, abandoned>>

\* The handler gets its goroutine.
Dispatch(e) ==
  /\ call[e].pc = "request"
  /\ Goto(e, "waiting")
  /\ UNCHANGED <<enabled, servers, reliable, abandoned>>

\* The handler of the call of e returns.
HandlerReturns(e, reply) ==
  /\ Running(e)
  /\ call' = [call EXCEPT ![e].reply = <<reply>>]
  /\ UNCHANGED <<enabled, servers, reliable, abandoned>>

\* An abandoned handler returns; its reply is drained.
AbandonedReturns(h) ==
  /\ h \in abandoned
  /\ abandoned' = abandoned \ {h}
  /\ UNCHANGED <<enabled, servers, reliable, call>>

isServerDead(e) == ~enabled[e] \/ servers[connections[e]] # call[e].server

\* Mutant of StopWaiting: the server is not polled.
StopWaiting_NoPoll(e) ==
  /\ call[e].pc = "waiting"
  /\ call[e].reply # NoReply
  /\ Goto(e, "check")
  /\ UNCHANGED <<enabled, servers, reliable, abandoned>>

\* The wait for the handler ends: it has returned, or a poll every 100 ms finds
\* the server dead.
StopWaiting(e) ==
  /\ call[e].pc = "waiting"
  /\ \/ /\ call[e].reply # NoReply
        /\ Goto(e, "check")
        /\ UNCHANGED abandoned
     \/ /\ isServerDead(e)
        /\ Goto(e, "false")
        /\ abandoned' = IF call[e].reply # NoReply THEN abandoned
                        ELSE abandoned \cup {[end |-> e, call |-> call[e]]}
  /\ UNCHANGED <<enabled, servers, reliable>>

\* Mutant of CheckServer: the server is not looked at again.
CheckServer_NotAgain(e) ==
  /\ call[e].pc = "check"
  /\ \/ ~reliable /\ Goto(e, "false")
     \/ Goto(e, "reply")
  /\ UNCHANGED <<enabled, servers, reliable, abandoned>>

\* The second isServerDead(), and the reply that is lost or sent on.
CheckServer(e) ==
  /\ call[e].pc = "check"
  /\ \/ (isServerDead(e) \/ ~reliable) /\ Goto(e, "false")
     \/ ~isServerDead(e) /\ Goto(e, "reply")
  /\ UNCHANGED <<enabled, servers, reliable, abandoned>>

\* The reply arrives, perhaps after a long delay (longReordering).
Deliver(e) ==
  /\ call[e].pc = "reply"
  /\ Goto(e, "true")
  /\ UNCHANGED <<enabled, servers, reliable, abandoned>>

processReq(e) ==
  \/ readEndnameInfo(e)
  \/ DropRequest(e)
  \/ Dispatch(e)
  \/ StopWaiting(e)
  \/ CheckServer(e)

Enable(e, yes) ==
  /\ enabled' = [enabled EXCEPT ![e] = yes]
  /\ UNCHANGED <<servers, reliable, call, abandoned>>

DeleteServer(n) ==
  /\ servers' = [servers EXCEPT ![n] = 0]
  /\ UNCHANGED <<enabled, reliable, call, abandoned>>

AddServer(n, s) ==
  /\ servers' = [servers EXCEPT ![n] = s]
  /\ UNCHANGED <<enabled, reliable, call, abandoned>>

=============================================================================
