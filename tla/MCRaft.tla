------------------------------- MODULE MCRaft -------------------------------
(***************************************************************************)
(* Raft for model checking: three peers that nothing tells apart.          *)
(***************************************************************************)
EXTENDS RaftSafety, TLC

CONSTANTS s1, s2, s3

Servers3 == {s1, s2, s3}
Symmetry == Permutations(Servers3)

\* Commands carry the name of the server that started them, so that entries
\* two servers put at the same index differ.
OwnCommand(s) == {s}

-----------------------------------------------------------------------------
(***************************************************************************)
(* A reply that no state of its receiver will ever react to, a heartbeat   *)
(* without news in the only term there is, the timer of a leader and,      *)
(* while its server can take or install no more snapshots, the apply       *)
(* goroutine touch nothing another step reads.  Taking such a step as soon *)
(* as it is possible loses no state of anything else.                      *)
(***************************************************************************)

\* The receiver has the log and the commit index that m speaks of, and no
\* crash and no other leader can take them away.
NoNews(m) ==
  /\ MaxTerm = 1 /\ MaxCrashes = 0
  /\ m.type = "ApplyEntries"
  /\ m.Entries = <<>>
  /\ m.LeaderCommit <= committedIndex[m.dst]
  /\ m.PrevLogIndex <= LastLogIndex(m.dst)

Dead(m) ==
  \/ m.type \in {"RequestVoteReply", "ApplyEntriesReply", "InstallSnapshotReply"}
       /\ m.Term < CurrentTerm[m.dst]
  \/ m.type = "RequestVoteReply" /\ m.Term = CurrentTerm[m.dst]
       /\ (~m.VoteGranted \/ identity[m.dst] # "CANDIDATE")
  \/ m.type = "ApplyEntriesReply" /\ m.Success /\ m.Count = 0
  \/ NoNews(m)

\* A log has a third entry; SpecSnapshot then allows no snapshot.
Long == \E s \in Server : LastLogIndex(s) > 2

Eager(s) ==
  \/ identity[s] = "LEADER" /\ electionTimer[s]
  \/ /\ Long \/ lastIncludedIndex[s] >= MaxSnapshot
     /\ ~applySnappending[s]
     /\ lastApplied[s] < committedIndex[s]

Urgent ==
  \/ \E m \in DOMAIN messages :
       Dead(m) /\ (OnRequestVoteReply(m) \/ OnApplyEntriesReply(m) \/ OnInstallSnapshotReply(m)
                  \/ ApplyEntries(m))
  \/ \E s \in Server : Eager(s) /\ (LeaderTimerExpires(s) \/ applyLog(s))

NextUrgent ==
  \/ Urgent
  \/ /\ \A m \in DOMAIN messages : ~Dead(m)
     /\ \A s \in Server : ~Eager(s)
     /\ Next

SpecUrgent == Init /\ [][NextUrgent]_vars

-----------------------------------------------------------------------------
(***************************************************************************)
(* A state a few steps after Init: s1 has won the election of term 1, s2   *)
(* and s3 have voted for it (the reply of s3 was lost), and the network is *)
(* quiet.  Runs that need no other first election start here.              *)
(***************************************************************************)

Elected ==
  LET all(v) == [s \in Server |-> v]
      log    == <<[Term |-> 0, Command |-> NoCommand]>>
      one(v, w) == [s \in Server |-> IF s = s1 THEN v ELSE w]
  IN
  /\ CurrentTerm       = all(1)
  /\ identity          = one("LEADER", "FOLLOWER")
  /\ VoteFor           = all(s1)
  /\ electionTimer     = all(TRUE)
  /\ votes             = one({s1, s2}, {})
  /\ Logs              = all(log)
  /\ committedIndex    = all(0)
  /\ lastApplied       = all(0)
  /\ nextIndex         = one(all(1), all(0))
  /\ matchIndex        = all(all(0))
  /\ lastIncludedIndex = all(0)
  /\ snapshot          = all(<<>>)
  /\ applySnappending  = all(FALSE)
  /\ persister         = all([CurrentTerm |-> 1, VoteFor |-> s1, Logs |-> log,
                              lastIncludedIndex |-> 0, snapshot |-> <<>>])
  /\ applied           = all(<<>>)
  /\ messages          = [m \in {} |-> 0]
  /\ crashes           = 0
  /\ leaders           = {<<s1, 1>>}

SymmetryElected == Permutations({s2, s3})

SpecElected == Elected /\ [][NextUrgent]_vars

-----------------------------------------------------------------------------
(***************************************************************************)
(* Bounds on what may come together, where all of it is too much.          *)
(***************************************************************************)

\* Logs grow to three entries, or snapshots are taken.
LongOrSnapshot == Long => \A s \in Server : lastIncludedIndex[s] = 0

SpecSnapshot == Elected /\ [][NextUrgent /\ LongOrSnapshot']_vars

\* Two messages in flight are of two terms, or between the same two servers: one
\* overtakes the other, or arrives after a change of leaders.  From term 3 on
\* there is one at a time.
TwoAtOnce ==
  /\ \A m, n \in DOMAIN messages : m.Term = n.Term => {m.src, m.dst} = {n.src, n.dst}
  /\ Cardinality(DOMAIN messages) > 1 => \A s \in Server : CurrentTerm[s] < 3

\* One server stands for election in a term, and the first leader in no other.
OneCandidate ==
  /\ \A s, t \in Server :
       VoteFor[s] = s /\ VoteFor[t] = t /\ CurrentTerm[s] = CurrentTerm[t] => s = t
  /\ CurrentTerm[s1] > 1 => VoteFor[s1] # s1

SpecConflict == Elected /\ [][NextUrgent /\ TwoAtOnce' /\ OneCandidate']_vars

=============================================================================
