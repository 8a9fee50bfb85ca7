------------------------------ MODULE KVStore ------------------------------
(***************************************************************************)
(* What every key/value service of the repository promises its clerks:     *)
(* Get, Put and Append take effect one after the other, each exactly once, *)
(* between its call and its return.  A value is the sequence of the        *)
(* operations whose arguments make it up.  The services of src/src/kvsrv,  *)
(* src/src/kvraft and src/src/shardkv are shown to implement this module,  *)
(* and so is the shard controller, whose configurations are one value that *)
(* Join, Leave and Move append to and Query reads.                         *)
(***************************************************************************)
EXTENDS Integers, Sequences

CONSTANTS
  Client,      \* clerks
  Key,
  Operation,   \* what clerks call: records with a kind, a key, and perhaps more
  Result(_, _) \* what such an operation returns if it finds this value

VARIABLES
  program,     \* clerk -> the operations it calls
  issued,      \* clerk -> operations called so far
  executed,    \* clerk -> operations executed so far
  returned,    \* clerk -> operations returned so far
  value,       \* key -> its value
  seen,        \* clerk -> what its last executed operation found
  answer       \* clerk -> what its last returned operation returned

vars == <<program, issued, executed, returned, value, seen, answer>>

Init ==
  /\ program \in [Client -> Seq(Operation)]
  /\ issued   = [c \in Client |-> 0]
  /\ executed = [c \in Client |-> 0]
  /\ returned = [c \in Client |-> 0]
  /\ value    = [k \in Key |-> <<>>]
  /\ seen     = [c \in Client |-> <<>>]
  /\ answer   = [c \in Client |-> <<>>]

Call(c) ==
  /\ returned[c] = issued[c]
  /\ issued[c] < Len(program[c])
  /\ issued' = [issued EXCEPT ![c] = @ + 1]
  /\ UNCHANGED <<program, executed, returned, value, seen, answer>>

Effect(kind, old, op) ==
  CASE kind = "Get"    -> old
    [] kind = "Put"    -> <<op>>
    [] kind = "Append" -> Append(old, op)

Execute(c) ==
  LET what == program[c][issued[c]]
      op   == [ClientId |-> c, CallId |-> issued[c] - 1]
  IN
  /\ executed[c] < issued[c]
  /\ executed' = [executed EXCEPT ![c] = @ + 1]
  /\ value' = [value EXCEPT ![what.key] = Effect(what.kind, @, op)]
  /\ seen'  = [seen EXCEPT ![c] = Result(what, value[what.key])]
  /\ UNCHANGED <<program, issued, returned, answer>>

\* A Get that has not returned may look again: it takes effect the last time.
ReadAgain(c) ==
  /\ returned[c] < executed[c]
  /\ program[c][issued[c]].kind = "Get"
  /\ seen' = [seen EXCEPT ![c] = Result(program[c][issued[c]], value[program[c][issued[c]].key])]
  /\ UNCHANGED <<program, issued, executed, returned, value, answer>>

Return(c) ==
  /\ returned[c] < executed[c]
  /\ returned' = [returned EXCEPT ![c] = @ + 1]
  /\ answer'   = [answer EXCEPT ![c] = seen[c]]
  /\ UNCHANGED <<program, issued, executed, value, seen>>

Next == \E c \in Client : Call(c) \/ Execute(c) \/ ReadAgain(c) \/ Return(c)

Spec == Init /\ [][Next]_vars

=============================================================================
