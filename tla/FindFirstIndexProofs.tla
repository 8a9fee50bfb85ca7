------------------------ MODULE FindFirstIndexProofs ------------------------
(***************************************************************************)
(* Proofs about the bisection of findFirstIndex(), for logs of any length. *)
(***************************************************************************)
EXTENDS FindFirstIndex, FiniteSetTheorems, SequenceTheorems, TLAPS

\* The inductive invariant.  LoopInvariant alone does not tell a search that
\* ran off the end from one that stopped at the answer: high is either still
\* the last position or has been moved to an entry that is large enough.
IInv ==
  /\ TypeOK
  /\ Sorted(log)
  /\ LoopInvariant
  /\ high = Len(log) - 1 \/ At(log, high).Term >= term

\* The middle lies in the interval, below its upper end.
LEMMA MiddleInside ==
  ASSUME low \in Nat, high \in Nat, low < high
  PROVE  Middle \in Nat /\ low <= Middle /\ Middle < high
BY DEF Middle

\* If exactly the first n entries are smaller than t, findFirstIndex() is n.
LEMMA CountOfPrefix ==
  ASSUME NEW l, NEW t, NEW n \in Nat,
         {i \in DOMAIN l : l[i].Term < t} = 1 .. n
  PROVE  findFirstIndex(l, t) = n
<1>1. Cardinality(1 .. n) = n
  BY FS_Interval
<1>2. findFirstIndex(l, t) = Cardinality({i \in DOMAIN l : l[i].Term < t})
  BY DEF findFirstIndex
<1> QED
  BY <1>1, <1>2

\* A log is a function on the positions 1 .. Len(log).
LEMMA LogFacts ==
  ASSUME NEW l \in Seq([Term : Nat])
  PROVE  /\ Len(l) \in Nat
         /\ DOMAIN l = 1 .. Len(l)
         /\ \A i \in 1 .. Len(l) : l[i].Term \in Nat
<1>1. Len(l) \in Nat /\ DOMAIN l = 1 .. Len(l)
  OBVIOUS
<1>2. ASSUME NEW i \in 1 .. Len(l) PROVE l[i].Term \in Nat
  <2>1. l[i] \in [Term : Nat]
    BY ElementOfSeq
  <2> QED
    BY <2>1
<1> QED
  BY <1>1, <1>2

\* The first bounds, the whole log, satisfy the invariant.
LEMMA InitIInv == Init => IInv
<1> SUFFICES ASSUME Init PROVE IInv
  OBVIOUS
<1>1. PICK n \in 1 .. MaxLen : log \in [1 .. n -> [Term : Terms]]
  BY DEF Init
<1>2. n \in Nat /\ n >= 1
  BY SearchBounds
<1>3. log \in Seq([Term : Nat]) /\ Len(log) = n
  <2>1. Terms \subseteq Nat
    BY SearchBounds DEF Terms
  <2>2. log \in [1 .. n -> [Term : Nat]]
    BY <1>1, <2>1
  <2>3. log \in Seq([Term : Nat])
    BY <1>2, <2>2, SeqDef
  <2> QED
    BY <1>2, <2>2, <2>3, LenProperties
<1>4. term \in Nat
  BY SearchBounds DEF Init
<1> QED
  BY <1>2, <1>3, <1>4 DEF Init, IInv, TypeOK, LoopInvariant

\* Each iteration of the loop, and the return, preserve it.
LEMMA NextIInv == IInv /\ [Next]_vars => IInv'
<1> SUFFICES ASSUME IInv, [Next]_vars PROVE IInv'
  OBVIOUS
<1>0. /\ Len(log) \in Nat
      /\ DOMAIN log = 1 .. Len(log)
      /\ \A i \in 1 .. Len(log) : log[i].Term \in Nat
      /\ term \in Nat /\ low \in Nat /\ high \in Nat /\ high < Len(log)
      /\ \A i \in 1 .. Len(log) : i - 1 < low => log[i].Term < term
      /\ \A i \in 1 .. Len(log) : i - 1 > high => log[i].Term >= term
  BY LogFacts DEF IInv, TypeOK, LoopInvariant
<1>1. CASE Bisect /\ MoveHigh
  <2>1. Middle \in Nat /\ low <= Middle /\ Middle < high
    BY <1>0, <1>1, MiddleInside DEF Bisect
  <2>2. /\ UNCHANGED <<log, term, low, result>>
        /\ high' = Middle
        /\ log[Middle + 1].Term >= term
    BY <1>1 DEF Bisect, MoveHigh, At
  <2>3. ASSUME NEW i \in 1 .. Len(log), i - 1 > Middle PROVE log[i].Term >= term
    <3>1. Middle + 1 \in 1 .. Len(log) /\ Middle + 1 <= i
      BY <1>0, <2>1, <2>3
    <3>2. log[Middle + 1].Term <= log[i].Term
      BY <1>0, <3>1 DEF IInv, Sorted
    <3> QED
      BY <1>0, <2>2, <3>1, <3>2
  <2>4. LoopInvariant'
    BY <1>0, <2>1, <2>2, <2>3 DEF LoopInvariant
  <2> QED
    BY <2>1, <2>2, <2>4 DEF IInv, TypeOK, Sorted, At
<1>2. CASE Bisect /\ MoveLow
  <2>1. Middle \in Nat /\ low <= Middle /\ Middle < high
    BY <1>0, <1>2, MiddleInside DEF Bisect
  <2>2. /\ UNCHANGED <<log, term, high, result>>
        /\ low' = Middle + 1
        /\ log[Middle + 1].Term < term
    BY <1>2 DEF Bisect, MoveLow, At
  <2>3. ASSUME NEW i \in 1 .. Len(log), i - 1 < Middle + 1 PROVE log[i].Term < term
    <3>1. Middle + 1 \in 1 .. Len(log) /\ i <= Middle + 1
      BY <1>0, <2>1, <2>3
    <3>2. log[i].Term <= log[Middle + 1].Term
      BY <1>0, <3>1 DEF IInv, Sorted
    <3> QED
      BY <1>0, <2>2, <3>1, <3>2
  <2>4. LoopInvariant'
    BY <1>0, <2>1, <2>2, <2>3 DEF LoopInvariant
  <2> QED
    BY <2>1, <2>2, <2>4 DEF IInv, TypeOK, Sorted, At
<1>3. CASE Return
  <2>1. UNCHANGED <<log, term, low, high>> /\ result' \in Nat
    BY <1>0, <1>3 DEF Return
  <2> QED
    BY <2>1 DEF IInv, TypeOK, LoopInvariant, Sorted, At
<1>4. CASE UNCHANGED vars
  BY <1>4 DEF vars, IInv, TypeOK, LoopInvariant, Sorted, At
<1> QED
  BY <1>1, <1>2, <1>3, <1>4 DEF Next, Bisect

\* The search never reads outside the log and never moves a bound past the
\* answer, for every sorted log and every term.
THEOREM LoopInvariantHolds == Spec => []LoopInvariant
<1>1. IInv => LoopInvariant
  BY DEF IInv
<1> QED
  BY <1>1, InitIInv, NextIInv, PTL DEF Spec

\* The step that returns the result returns the first position with a term at
\* least term, len(rf.Logs) if there is none.
LEMMA ReturnCorrect == IInv /\ Correct /\ [Next]_vars => Correct'
<1> SUFFICES ASSUME IInv, Correct, [Next]_vars PROVE Correct'
  OBVIOUS
<1>1. CASE Return
  <2>1. /\ Len(log) \in Nat
        /\ DOMAIN log = 1 .. Len(log)
        /\ \A i \in 1 .. Len(log) : log[i].Term \in Nat
        /\ term \in Nat /\ low \in Nat /\ high \in Nat /\ low = high /\ high < Len(log)
        /\ \A i \in 1 .. Len(log) : i - 1 < low => log[i].Term < term
        /\ \A i \in 1 .. Len(log) : i - 1 > high => log[i].Term >= term
    BY <1>1, LogFacts DEF Return, IInv, TypeOK, LoopInvariant
  <2>2. result' \in Nat
    BY <1>1, <2>1 DEF Return
  <2>3. ASSUME NEW i \in 1 .. Len(log) PROVE log[i].Term < term <=> i <= result'
    <3>1. CASE log[high + 1].Term < term
      <4>1. high = Len(log) - 1 /\ result' = Len(log)
        BY <1>1, <2>1, <3>1 DEF Return, IInv, At
      <4> QED
        BY <2>1, <3>1, <4>1
    <3>2. CASE ~(log[high + 1].Term < term)
      <4>1. result' = high /\ log[high + 1].Term >= term
        BY <1>1, <2>1, <3>2 DEF Return, At
      <4> QED
        BY <2>1, <4>1
    <3> QED
      BY <3>1, <3>2
  <2>4. result' <= Len(log)
    BY <1>1, <2>1 DEF Return
  <2>5. {i \in DOMAIN log : log[i].Term < term} = 1 .. result'
    BY <2>1, <2>2, <2>3, <2>4
  <2>6. findFirstIndex(log, term) = result'
    BY <2>2, <2>5, CountOfPrefix
  <2> QED
    BY <1>1, <2>6 DEF Return, Correct
<1>2. CASE Bisect
  BY <1>2 DEF Bisect, Correct
<1>3. CASE UNCHANGED vars
  BY <1>3 DEF vars, Correct
<1> QED
  BY <1>1, <1>2, <1>3 DEF Next

\* What findFirstIndex() returns is what module Raft takes it to return, for
\* every sorted log and every term.
THEOREM SearchCorrect == Spec => []Correct
<1>1. Init => Correct
  BY DEF Init, Correct
<1> QED
  BY <1>1, InitIInv, NextIInv, ReturnCorrect, PTL DEF Spec

=============================================================================
