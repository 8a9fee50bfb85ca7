------------------------------ MODULE RaftLog ------------------------------
(***************************************************************************)
(* Logs of src/src/raft/raft.go as sequences: position 1 is Go's Logs[0].  *)
(***************************************************************************)
EXTENDS Integers, Sequences, FiniteSets

\* Go's log[realIndex].
At(log, realIndex) == log[realIndex + 1]

\* Terms never decrease along the log.
Sorted(log) == \A i, j \in DOMAIN log : i <= j => log[i].Term <= log[j].Term

\* What findFirstIndex() returns on a sorted log: the realIndex of the first
\* entry whose term is at least term, Len(log) if there is none.  That is the
\* number of entries of a smaller term; module FindFirstIndex has the search.
findFirstIndex(log, term) == Cardinality({i \in DOMAIN log : log[i].Term < term})

=============================================================================
