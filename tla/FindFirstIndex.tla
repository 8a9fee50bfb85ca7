--------------------------- MODULE FindFirstIndex ---------------------------
(***************************************************************************)
(* The bisection of findFirstIndex() in src/src/raft/raft.go, one step per *)
(* loop iteration, on every log whose terms are sorted.                    *)
(***************************************************************************)
EXTENDS RaftLog

CONSTANTS
  MaxLen,   \* bound: length of the logs searched
  MaxTerm   \* bound: terms in the logs

ASSUME SearchBounds == MaxLen \in Nat /\ MaxTerm \in Nat

VARIABLES log, term, low, high, result

vars == <<log, term, low, high, result>>

Running == -1

Terms == 0 .. MaxTerm

Init ==
  /\ \E n \in 1 .. MaxLen : log \in [1 .. n -> [Term : Terms]]
  /\ Sorted(log)
  /\ term \in 0 .. MaxTerm + 1
  /\ low = 0
  /\ high = Len(log) - 1
  /\ result = Running

\* for low < high { mid := (low + high) / 2 ... }
Middle == (low + high) \div 2

\* Mutant of MoveLow: no progress.
MoveLow_KeepsMiddle ==
  /\ At(log, Middle).Term < term
  /\ low' = Middle
  /\ UNCHANGED high

MoveHigh ==
  /\ At(log, Middle).Term >= term
  /\ high' = Middle
  /\ UNCHANGED low

MoveLow ==
  /\ At(log, Middle).Term < term
  /\ low' = Middle + 1
  /\ UNCHANGED high

Bisect ==
  /\ result = Running
  /\ low < high
  /\ MoveHigh \/ MoveLow
  /\ UNCHANGED <<log, term, result>>

\* Mutant of Return: a term greater than all is not noticed.
Return_NoCheck ==
  /\ result = Running
  /\ low >= high
  /\ result' = high
  /\ UNCHANGED <<log, term, low, high>>

Return ==
  /\ result = Running
  /\ low >= high
  /\ result' = IF At(log, high).Term < term THEN Len(log) ELSE high
  /\ UNCHANGED <<log, term, low, high>>

Next == Bisect \/ Return

Spec == Init /\ [][Next]_vars /\ WF_vars(Next)

-----------------------------------------------------------------------------

\* The bounds and the result are naturals: high never becomes -1.
TypeOK ==
  /\ log \in Seq([Term : Nat]) \ {<<>>}
  /\ term \in Nat
  /\ low \in Nat
  /\ high \in Nat
  /\ result \in Nat \cup {Running}

\* The search returns what Raft.tla takes findFirstIndex() to be: the position
\* of the first entry with a term >= term, len(rf.Logs) when all are smaller.
Correct == result # Running => result = findFirstIndex(log, term)

\* The search never reads outside the log and never moves a bound past the
\* answer: everything left of low is smaller, everything right of high is not.
LoopInvariant ==
  /\ low <= high /\ high < Len(log)
  /\ \A i \in DOMAIN log : i - 1 < low => log[i].Term < term
  /\ \A i \in DOMAIN log : i - 1 > high => log[i].Term >= term

\* The loop ends: each iteration makes the interval smaller.
Terminates == <>(result # Running)

=============================================================================
