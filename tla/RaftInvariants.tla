--------------------------- MODULE RaftInvariants ---------------------------
(***************************************************************************)
(* The inductive invariants of module Raft, and the relations between two  *)
(* states that their proofs are about. The proofs are in RaftFacts,        *)
(* RaftElectionProofs, RaftPieceProofs, RaftMessageProofs and              *)
(* RaftTheorems.                                                           *)
(***************************************************************************)
EXTENDS RaftSafety

\* What the proofs use of cardinalities: of sets of numbers up to n, and that
\* two majorities of the peers share one.
Counting ==
  /\ \A n \in Nat : \A S \in SUBSET (1 .. n) :
       Cardinality(S) \in 0 .. n /\ (S # {} => Cardinality(S) >= 1)
  /\ \A m, n \in Nat : \A S \in SUBSET (1 .. m) :
       1 .. n \subseteq S => Cardinality(S) >= n
  /\ \A P, Q \in SUBSET Server :
       Majority(P) /\ Majority(Q) => \E v \in Server : v \in P /\ v \in Q

-----------------------------------------------------------------------------
(***************************************************************************)
(* Types and elections.                                                    *)
(***************************************************************************)

MessagesOK ==
  /\ DOMAIN messages \subseteq Message
  /\ messages \in [DOMAIN messages -> Nat \ {0}]

ElectionOK ==
  /\ CurrentTerm   \in [Server -> Nat]
  /\ identity      \in [Server -> {"FOLLOWER", "CANDIDATE", "LEADER"}]
  /\ VoteFor       \in [Server -> Server \cup {Unvote}]
  /\ electionTimer \in [Server -> BOOLEAN]
  /\ votes         \in [Server -> SUBSET Server]

\* i counts the vote of v in term t, or the reply with the vote is in flight.
Evidence(v, i, t) ==
  \/ CurrentTerm[i] = t /\ v \in votes[i]
  \/ \E m \in DOMAIN messages :
       /\ m.type = "RequestVoteReply" /\ m.VoteGranted
       /\ m.src = v /\ m.dst = i /\ m.Term = t

\* The persister of v holds the vote for i in term t, or a later term.
VoteRecorded(v, i, t) ==
  \/ persister[v].CurrentTerm > t
  \/ persister[v].CurrentTerm = t /\ persister[v].VoteFor = i

\* In term t, v has not voted and cannot vote for anybody but i.
Bound(v, i, t) ==
  /\ VoteRecorded(v, i, t)
  /\ \A j \in Server : Evidence(v, j, t) => j = i

\* A vote is on disk before rf.mu is released.  Only a term without a vote may
\* be ahead of the disk: InstallSnapshot() can return without persist().
VoteSaved ==
  \A s \in Server :
    \/ persister[s].CurrentTerm = CurrentTerm[s] /\ persister[s].VoteFor = VoteFor[s]
    \/ persister[s].CurrentTerm < CurrentTerm[s] /\ VoteFor[s] = Unvote

EvidenceBinds ==
  \A v, i \in Server : \A t \in Nat : Evidence(v, i, t) => Bound(v, i, t)

LeadersElected ==
  \A l \in leaders :
    \E Q \in SUBSET Server : Majority(Q) /\ \A v \in Q : Bound(v, l[1], l[2])

\* The inductive invariant.
ElectionInv ==
  /\ TypeOK
  /\ VoteSaved
  /\ EvidenceBinds
  /\ LeadersElected
  /\ ElectionSafety

Untouched(v) ==
  /\ CurrentTerm'[v] = CurrentTerm[v]
  /\ VoteFor'[v] = VoteFor[v]
  /\ persister'[v] = persister[v]

\* A later term, or the same term and, if there was a vote, the same vote.
Forward(v) ==
  /\ CurrentTerm'[v] >= CurrentTerm[v]
  /\ CurrentTerm'[v] = CurrentTerm[v] /\ VoteFor[v] # Unvote => VoteFor'[v] = VoteFor[v]

SavedForward(v) ==
  /\ Forward(v)
  /\ persister'[v].CurrentTerm = CurrentTerm'[v]
  /\ persister'[v].VoteFor = VoteFor'[v]

NewTermUnsaved(v) ==
  /\ CurrentTerm'[v] > CurrentTerm[v]
  /\ VoteFor'[v] = Unvote
  /\ persister'[v] = persister[v]

Restored(v) ==
  /\ CurrentTerm'[v] = persister[v].CurrentTerm
  /\ VoteFor'[v] = persister[v].VoteFor
  /\ persister'[v] = persister[v]

LiveStep(v) == Untouched(v) \/ SavedForward(v) \/ NewTermUnsaved(v)

VoteStep(v) == LiveStep(v) \/ Restored(v)

\* The disk of v holds the vote for i in term t.
OnDisk(v, i, t) == persister[v].CurrentTerm = t /\ persister[v].VoteFor = i

\* Evidence that was not there before a step.
Backed(v, i, t) == Evidence(v, i, t)' => Evidence(v, i, t) \/ OnDisk(v, i, t)'

\* v stays a leader or has its timer running after the step.
TimerStep(v) == identity'[v] # "LEADER" => electionTimer'[v] = TRUE

-----------------------------------------------------------------------------
(***************************************************************************)
(* Pieces of logs: in the peers, on disk and on their way.                 *)
(***************************************************************************)

\* The pieces of logs: the index of the first entry, the entries, a term.
PieceSet == [base : Nat, log : Log, term : Nat]

Piece(base, log, term) == [base |-> base, log |-> log, term |-> term]

\* The entry before those of an ApplyEntries, and its entries.
Carried(m) == <<[Term |-> m.PrevLogTerm, Command |-> NoCommand]>> \o m.Entries

\* What is known of the last entry in the snapshot of an InstallSnapshot.
LastIncluded(m) == <<[Term |-> m.LastIncludedTerm, Command |-> NoCommand]>>

\* The messages of a type in flight.
Sent(type) == {m \in DOMAIN messages : m.type = type}

\* The pieces that a peer, its disk and a request hold.
PeerPiece(s)     == Piece(lastIncludedIndex[s], Logs[s], CurrentTerm[s])

DiskPiece(s)     == Piece(persister[s].lastIncludedIndex, persister[s].Logs,
                          persister[s].CurrentTerm)

EntriesPiece(m)  == Piece(m.PrevLogIndex, Carried(m), m.Term)

SnapshotPiece(m) == Piece(m.LastIncludedIndex, LastIncluded(m), m.Term)

Pieces ==
       {PeerPiece(s) : s \in Server}
  \cup {DiskPiece(s) : s \in Server}
  \cup {EntriesPiece(m) : m \in Sent("ApplyEntries")}
  \cup {SnapshotPiece(m) : m \in Sent("InstallSnapshot")}

\* The index of the last entry of p, the indices it covers, and its entry at i.
End(p)      == p.base + Len(p.log) - 1

Span(p)     == p.base .. End(p)

Entry(p, i) == p.log[i - p.base + 1]

\* Where p and q have the same term, they are the same up to there.
Agree(p, q) ==
  \A i \in Span(p) \cap Span(q) : Entry(p, i).Term = Entry(q, i).Term =>
    \A j \in Span(p) \cap Span(q) : j <= i =>
      /\ Entry(p, j).Term = Entry(q, j).Term
      /\ p.base < j /\ q.base < j => Entry(p, j) = Entry(q, j)

\* Terms do not decrease, do not exceed the term of the holder, and only index
\* 0, which no entry has, has term 0.
WellFormed(p) ==
  /\ Sorted(p.log)
  /\ \A i \in Span(p) : Entry(p, i).Term <= p.term /\ (Entry(p, i).Term = 0 <=> i = 0)

\* s is still the leader it was in term t.
Leads(s, t) == identity[s] = "LEADER" /\ CurrentTerm[s] = t

\* An entry was made by a leader of its term, and as long as that is leader it
\* has entries up to that index.
Created(p) ==
  \A i \in p.base + 1 .. End(p) :
    /\ \E l \in leaders : l[2] = Entry(p, i).Term
    /\ \A s \in Server : Leads(s, Entry(p, i).Term) => i <= LastLogIndex(s)

\* All pieces agree with each other, and only hold what leaders created.
PiecesInv ==
  /\ \A p, q \in Pieces : Agree(p, q)
  /\ \A p \in Pieces : WellFormed(p) /\ Created(p)

\* A snapshot covers the index it is labelled with, and a service that has
\* executed something sits on a log with an entry or on a snapshot.
SnapshotsInv ==
  /\ \A s \in Server :
       /\ Len(snapshot[s]) = lastIncludedIndex[s]
       /\ Len(persister[s].snapshot) = persister[s].lastIncludedIndex
       /\ applied[s] # <<>> => LastLogIndex(s) > 0
  /\ \A m \in Sent("InstallSnapshot") : Len(m.Data) = m.LastIncludedIndex

\* A leader is in the history.  A peer that led in a term has that term on disk,
\* and is no candidate of that term again.
LeadersInv ==
  /\ \A s \in Server :
       /\ identity[s] = "LEADER" => <<s, CurrentTerm[s]>> \in leaders
       /\ identity[s] # "FOLLOWER" =>
            CurrentTerm[s] > 0 /\ persister[s].CurrentTerm = CurrentTerm[s]
  /\ \A l \in leaders :
       /\ l[2] > 0
       /\ l[2] <= persister[l[1]].CurrentTerm
       /\ CurrentTerm[l[1]] = l[2] => identity[l[1]] # "CANDIDATE"

\* s was the leader of term t, and if it still is, its log reaches index n.
Reaches(s, t, n) == <<s, t>> \in leaders /\ (Leads(s, t) => n <= LastLogIndex(s))

\* What a leader's request, and the reply to it, say about the leader's log.
RequestsInv ==
  /\ \A m \in Sent("ApplyEntries") :
       Reaches(m.src, m.Term, m.PrevLogIndex + Len(m.Entries))
  /\ \A m \in Sent("ApplyEntriesReply") :
       /\ Reaches(m.dst, m.ArgsTerm, m.PrevLogIndex + m.Count)
       /\ m.Term >= m.ArgsTerm
       /\ m.Success => m.Term = m.ArgsTerm
       /\ ~m.Success /\ m.Term = m.ArgsTerm =>
            \/ m.XIndex = InvalidIndex /\ m.XLen \in 1 .. m.PrevLogIndex
            \/ m.XTerm > 0 /\ m.XIndex \in 1 .. m.PrevLogIndex
  /\ \A m \in Sent("InstallSnapshot") :
       m.live => m.LastIncludedIndex <= lastIncludedIndex[m.src]
  /\ \A m \in Sent("InstallSnapshotReply") :
       m.LastIncludedIndex <= lastIncludedIndex[m.dst]

\* q is a part of p: it covers fewer indices, and where it does it has the
\* terms of p and, above its base, the entries of p.
Part(q, p) ==
  /\ p.term <= q.term
  /\ \A i \in Span(q) :
       /\ i \in Span(p)
       /\ Entry(q, i).Term = Entry(p, i).Term
       /\ q.base < i => p.base < i /\ Entry(q, i) = Entry(p, i)

\* n is p up to the base of q, where the two have the same term, and then q.
Glued(n, p, q) ==
  /\ n.base = p.base /\ End(n) = End(q)
  /\ p.term <= n.term /\ q.term <= n.term
  /\ q.base \in Span(p)
  /\ Entry(p, q.base).Term = Entry(q, q.base).Term
  /\ \A i \in Span(n) : IF i <= q.base THEN Entry(n, i) = Entry(p, i)
                        ELSE Entry(n, i) = Entry(q, i)

\* The role of v stays in its term; or v follows, stands for the next term, or
\* wins the election of its term.
RoleStep(v) ==
  \/ identity'[v] = identity[v] /\ CurrentTerm'[v] = CurrentTerm[v]
  \/ identity'[v] = "FOLLOWER"
  \/ /\ identity'[v] = "CANDIDATE"
     /\ CurrentTerm'[v] = CurrentTerm[v] + 1
     /\ persister'[v].CurrentTerm = CurrentTerm'[v]
  \/ /\ identity[v] = "CANDIDATE" /\ identity'[v] = "LEADER"
     /\ CurrentTerm'[v] = CurrentTerm[v]
     /\ <<v, CurrentTerm[v]>> \in leaders'

\* A peer whose log loses entries is a follower.
LogStep(v) ==
  \/ Logs'[v] = Logs[v] /\ lastIncludedIndex'[v] = lastIncludedIndex[v]
  \/ identity'[v] = "FOLLOWER"
  \/ LastLogIndex(v)' >= LastLogIndex(v)

\* m is a request of the leader s that shows part of the log of s, to its end.
ShowsLog(s, m) ==
  /\ m \in Message /\ m.src = s /\ m.Term = CurrentTerm[s]
  /\ m.type \in {"ApplyEntries", "InstallSnapshot"}
  /\ m.type = "ApplyEntries" =>
       /\ m.PrevLogIndex + Len(m.Entries) = LastLogIndex(s)
       /\ Part(EntriesPiece(m), PeerPiece(s))
  /\ m.type = "InstallSnapshot" =>
       /\ m.LastIncludedIndex = lastIncludedIndex[s]
       /\ m.Data = snapshot[s]
       /\ Part(SnapshotPiece(m), PeerPiece(s))

\* The disk of v stays as it is, or holds what v holds.
DiskStep(v) ==
  \/ persister'[v] = persister[v]
  \/ /\ DiskPiece(v)' = PeerPiece(v)'
     /\ persister'[v].snapshot = snapshot'[v]
     /\ persister'[v].lastIncludedIndex = lastIncludedIndex'[v]

\* The log of v after the step is part of a piece from before it.
Inherited(v) == \E p \in Pieces : Part(PeerPiece(v)', p)

\* The log of v after the step is new, and fits in with the others.
Fresh(v) ==
  /\ \A q \in Pieces : Agree(PeerPiece(v)', q)
  /\ WellFormed(PeerPiece(v)')
  /\ Created(PeerPiece(v))'

\* The position in the log of s of the entry before those of m.
Position(s, m) == m.PrevLogIndex - lastIncludedIndex[s] + 1

\* What the reply m to the request k of a leader must tell it.
Answers(m, k) ==
  /\ m.dst = k.src /\ m.ArgsTerm = k.Term
  /\ m.PrevLogIndex = k.PrevLogIndex /\ m.Count = Len(k.Entries)
  /\ m.Term >= m.ArgsTerm
  /\ m.Success => m.Term = m.ArgsTerm
  /\ ~m.Success /\ m.Term = m.ArgsTerm =>
       \/ m.XIndex = InvalidIndex /\ m.XLen \in 1 .. m.PrevLogIndex
       \/ m.XTerm > 0 /\ m.XIndex \in 1 .. m.PrevLogIndex

\* The inductive invariant.
LogInv ==
  /\ ElectionInv
  /\ PiecesInv
  /\ SnapshotsInv
  /\ LeadersInv
  /\ RequestsInv
  /\ NextIndexInLog

\* nextIndex[a][b] becomes x.
NextIndexSet(a, b, x) == nextIndex' = [nextIndex EXCEPT ![a][b] = x]
=============================================================================
