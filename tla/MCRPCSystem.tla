---------------------------- MODULE MCRPCSystem ----------------------------
(***************************************************************************)
(* RPCSystem for model checking.  A behaviour is either one of the store   *)
(* or one of the server that restarts: the two share no state.             *)
(***************************************************************************)
EXTENDS RPCSystem

CONSTANTS c1, c2,   \* clerks of the store
          p, k      \* a peer and a clerk of the server that restarts

Clients == {c1, c2}
Ends    == {c1, c2, p, k}
Names   == {"store", "host"}
ConnectionsOf == [e \in Ends |-> IF e \in Clients THEN "store" ELSE "host"]

NoProgram == [c \in Clients |-> <<>>]
Programs2 ==
  {NoProgram,
   [c \in Clients |-> IF c = c1 THEN <<"Append", "Get">> ELSE <<"Append", "Append">>],
   [c \in Clients |-> IF c = c1 THEN <<"Put", "Append">> ELSE <<"Get", "Put">>]}

\* The restarting server has calls exactly if the store has none.
MCInit == Init /\ (program = NoProgram <=> callers # {})

MCSpec == MCInit /\ [][Next]_vars /\ Fairness

CallerSets == {{}, {p, k}}
Peers      == {p}

=============================================================================
