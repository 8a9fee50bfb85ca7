----------------------------- MODULE RPCSystem -----------------------------
(***************************************************************************)
(* One network of src/src/labrpc with two servers: the key/value store of  *)
(* module KVSrv and the server that module Restart kills and revives.      *)
(***************************************************************************)
EXTENDS KVSrv, Restart

\* The ends of the clerks do not lead to Host.
ASSUME EndsAssumption ==
  /\ Client \subseteq End /\ Peer \subseteq End
  /\ Host \in Servername
  /\ \A c \in Client : connections[c] # Host

vars == <<netVars, kvVars, restartVars>>

Init ==
  /\ NetInit
  /\ KVInit
  /\ RestartInit

\* A step of the network for the call of a clerk.
NetStep(e) == (processReq(e) \/ Deliver(e)) /\ UNCHANGED <<kvVars, restartVars>>

Next ==
  \/ \E c \in Client : NetStep(c)
  \/ \E e \in HostEnds : processReq(e) /\ UNCHANGED <<kvVars, restartVars>>
  \/ \E c \in Client : Invoke(c) /\ UNCHANGED restartVars
  \/ \E c \in Client : Repeat(c) /\ UNCHANGED restartVars
  \/ \E c \in Client : OnReply(c) /\ UNCHANGED restartVars
  \/ \E c \in Client : Serve(c) /\ UNCHANGED restartVars
  \/ \E e \in HostEnds : NewCall(e) /\ UNCHANGED kvVars
  \/ \E e \in HostEnds : Confirm(e) /\ UNCHANGED kvVars
  \/ \E e \in HostEnds : Handler(e) /\ UNCHANGED kvVars
  \/ \E h \in abandoned : AbandonedHandler(h) /\ UNCHANGED kvVars
  \/ \E e \in Peer : Disconnect(e) /\ UNCHANGED kvVars
  \/ \E e \in Peer : Connect(e) /\ UNCHANGED kvVars
  \/ Delete /\ UNCHANGED kvVars
  \/ Copy /\ UNCHANGED kvVars
  \/ Start /\ UNCHANGED kvVars

\* The next step of a clerk's call, at the clerk, in the network or the server.
ClerkStep(c) ==
  \/ NetStep(c)
  \/ (Repeat(c) \/ OnReply(c) \/ Serve(c)) /\ UNCHANGED restartVars

\* The next step of a call to Host in the network.
HostStep(e) ==
  \/ processReq(e) /\ UNCHANGED <<kvVars, restartVars>>
  \/ Confirm(e) /\ UNCHANGED kvVars

\* Goroutines run, and crash1() and start1() end.  A message is lost with
\* probability 1/10, independently of the others: not all of them are lost.
\* The handlers of the key/value store return; those of Host need not.
Fairness ==
  /\ \A c \in Client :
       /\ WF_vars(ClerkStep(c))
       /\ SF_vars(Dispatch(c) /\ UNCHANGED <<kvVars, restartVars>>)
       /\ SF_vars(CheckServer(c) /\ call'[c].pc = "reply" /\ UNCHANGED <<kvVars, restartVars>>)
  /\ \A e \in HostEnds :
       WF_vars(HostStep(e))
  /\ WF_vars((Delete \/ Copy \/ Start) /\ UNCHANGED kvVars)

Spec == Init /\ [][Next]_vars /\ Fairness

-----------------------------------------------------------------------------

\* The call of e waits for a handler that does not return, of a live server.
Hung(e) == Running(e) /\ ~isServerDead(e)

\* "Call() is guaranteed to return (perhaps after a delay) *except* if the
\* handler function on the server side does not return": calls to a server that
\* is killed, revived, cut off or connected again while they wait return, unless
\* the handler hangs for good in an instance that lives.
CallReturns ==
  \A e \in HostEnds :
    []<>~Hung(e) => (call[e].pc = "sent" ~> call[e].pc \in {"true", "false"})

=============================================================================
