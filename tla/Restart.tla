------------------------------ MODULE Restart ------------------------------
(***************************************************************************)
(* crash1() and start1() of src/src/raft/config.go, which kill and revive  *)
(* a server on the network of module LabRPC although no goroutine of the   *)
(* old instance can really be stopped: it goes on to run the handlers it   *)
(* has, and to write to its Persister.  A handler here saves its request.  *)
(***************************************************************************)
EXTENDS LabRPC

CONSTANTS
  Peer,         \* ends of other servers, which crash1() disables
  Host,         \* name of the server that is killed and revived
  Callers,      \* ends with calls to make; the others of Host stay idle
  MaxCalls,     \* bound: calls of each end
  MaxRestarts   \* bound: restarts of Host

VARIABLES
  callers,      \* the ends that call in this behaviour
  phase,        \* where crash1() or start1() is
  persister,    \* instance of Host -> the requests saved in its Persister
  saved,        \* cfg.saved[i]: the number of the Persister
  calls,        \* end -> calls made
  confirmed     \* history: requests whose Call() returned true

restartVars == <<callers, phase, persister, saved, calls, confirmed>>

HostEnds == {e \in End : connections[e] = Host}

RestartInit ==
  /\ callers \in Callers
  /\ phase     = "running"
  /\ persister = <<{}>>
  /\ saved     = 1
  /\ calls     = [e \in HostEnds |-> 0]
  /\ confirmed = {}

-----------------------------------------------------------------------------

\* A caller of Host: one Call() after the other.
NewCall(e) ==
  /\ e \in callers
  /\ call[e].pc \in {"idle", "true", "false"}
  /\ calls[e] < MaxCalls
  /\ calls' = [calls EXCEPT ![e] = @ + 1]
  /\ Call(e, <<e, calls[e] + 1>>)
  /\ UNCHANGED <<enabled, servers, reliable, abandoned>>
  /\ UNCHANGED <<callers, phase, persister, saved, confirmed>>

\* The reply reaches the caller.
Confirm(e) ==
  /\ Deliver(e)
  /\ confirmed' = confirmed \cup {call[e].req}
  /\ UNCHANGED <<callers, phase, persister, saved, calls>>

Save(s, req) == persister' = [persister EXCEPT ![s] = @ \cup {req}]

Handler(e) ==
  /\ HandlerReturns(e, <<>>)
  /\ Save(call[e].server, call[e].req)
  /\ UNCHANGED <<callers, phase, saved, calls, confirmed>>

AbandonedHandler(h) ==
  /\ AbandonedReturns(h)
  /\ Save(h.call.server, h.call.req)
  /\ UNCHANGED <<callers, phase, saved, calls, confirmed>>

-----------------------------------------------------------------------------

NextPhase(p) == phase' = p /\ UNCHANGED <<callers, persister, saved, calls, confirmed>>

\* disconnect(): one end after the other.
Disconnect(e) ==
  /\ callers # {}
  /\ \/ phase = "running" /\ Len(persister) <= MaxRestarts
     \/ phase = "disconnecting"
  /\ e \in Peer /\ enabled[e]
  /\ Enable(e, FALSE)
  /\ NextPhase("disconnecting")

Delete ==
  /\ phase = "disconnecting"
  /\ \A e \in Peer : ~enabled[e]
  /\ DeleteServer(Host)
  /\ NextPhase("deleted")

\* The Persister is superseded by a copy.
Copy ==
  /\ phase = "deleted"
  /\ persister' = Append(persister, persister[saved])
  /\ saved'     = saved + 1
  /\ phase'     = "copied"
  /\ UNCHANGED <<netVars, callers, calls, confirmed>>

\* start1(): a new instance on the copy.
Start ==
  /\ phase = "copied"
  /\ AddServer(Host, saved)
  /\ NextPhase("running")

Connect(e) ==
  /\ phase = "running"
  /\ e \in Peer /\ ~enabled[e]
  /\ Enable(e, TRUE)
  /\ UNCHANGED restartVars

RestartNext ==
  \/ \E e \in HostEnds : NewCall(e) \/ Confirm(e) \/ Handler(e)
  \/ \E h \in abandoned : AbandonedHandler(h)
  \/ \E e \in Peer : Disconnect(e) \/ Connect(e)
  \/ Delete \/ Copy \/ Start

-----------------------------------------------------------------------------

\* A positive reply is never about an update that only the Persister of a dead
\* instance holds: what processReq() checks before it replies, and crash1() by
\* calling DeleteServer() before Copy(), "to avoid situation in which a client
\* gets a positive reply to an Append, but the server persisted the update into
\* the old Persister", also when the reply is delayed past the restart.
ConfirmedSurvives == confirmed \subseteq persister[saved]

=============================================================================
