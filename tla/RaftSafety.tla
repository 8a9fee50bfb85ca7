----------------------------- MODULE RaftSafety -----------------------------
(***************************************************************************)
(* What the Raft peers of module Raft must and must not do.                *)
(***************************************************************************)
EXTENDS Raft

-----------------------------------------------------------------------------
(***************************************************************************)
(* Elections and persistence.                                              *)
(***************************************************************************)

\* No term ever has two leaders, not even one after the other: two servers
\* that counted a majority of RequestVote replies did so in different terms,
\* whatever was lost, delayed, or restarted from the persister in between.
ElectionSafety ==
  \A a, b \in leaders : a[2] = b[2] => a[1] = b[1]

\* The persister never forgets a vote: once a server's RequestVote or its own
\* election saved a vote for a term, that term's saved vote never changes and
\* the saved term never goes back.
VoteDurable ==
  [][\A s \in Server :
       LET old == persister[s]
           new == persister'[s]
       IN  /\ new.CurrentTerm >= old.CurrentTerm
           /\ (new.CurrentTerm = old.CurrentTerm /\ old.VoteFor # Unvote)
                => new.VoteFor = old.VoteFor]_persister

\* A server that is not the leader has a running election timer: no path of
\* step-downs leaves a peer that can never start an election again.
TimerArmed ==
  \A s \in Server : identity[s] # "LEADER" => electionTimer[s]


-----------------------------------------------------------------------------
(***************************************************************************)
(* Logs.                                                                   *)
(***************************************************************************)

EntryAt(s, i) == At(Logs[s], RealIndex(s, i))

\* The indices above the snapshots of both s and t.
Common(s, t) ==
  Max(lastIncludedIndex[s], lastIncludedIndex[t]) + 1 ..
    Min(LastLogIndex(s), LastLogIndex(t))

\* The terms in a log never decrease and never exceed the server's term: what
\* the bisection of findFirstIndex() and its panics at lines 481, 747 and 993
\* rely on, for a log put together from several leaders' entries.
TermsSorted ==
  \A s \in Server :
    /\ Sorted(Logs[s])
    /\ LastLogTerm(s) <= CurrentTerm[s]

\* If two logs agree on the term at an index, they agree on every entry up to
\* it: the consistency check and the conflict rule of ApplyEntries do their job.
LogMatching ==
  \A s, t \in Server : \A i \in Common(s, t) :
    EntryAt(s, i).Term = EntryAt(t, i).Term =>
      \A j \in Common(s, t) : j <= i => EntryAt(s, j) = EntryAt(t, j)

\* A leader holds every entry that a server of its term or an earlier one
\* knows to be committed: the vote rule of RequestVote and the rule that
\* updateCommittedIndex() counts entries of the current term only.
LeaderCompleteness ==
  \A l, s \in Server :
    identity[l] = "LEADER" /\ CurrentTerm[l] >= CurrentTerm[s] =>
      \A i \in lastIncludedIndex[s] + 1 .. committedIndex[s] :
        /\ i <= LastLogIndex(l)
        /\ i > lastIncludedIndex[l] => EntryAt(l, i) = EntryAt(s, i)

\* What matchIndex says is true: a follower in the leader's term holds the
\* leader's entries up to matchIndex ("每台服务器已知的已经复制到该服务器的最高的
\* 日志条目的索引").
MatchIndexTrue ==
  \A l, p \in Server :
    identity[l] = "LEADER" /\ CurrentTerm[p] = CurrentTerm[l] =>
      /\ matchIndex[l][p] <= LastLogIndex(p)
      /\ \A i \in Common(l, p) : i <= matchIndex[l][p] => EntryAt(l, i) = EntryAt(p, i)

\* sendHeartBeat() finds what it sends: a leader's nextIndex is a position of
\* its log or the one after it, never 0 (the panics at lines 805 and 812).
NextIndexInLog ==
  \A l, p \in Server : identity[l] = "LEADER" => nextIndex[l][p] \in 1 .. LastLogIndex(l) + 1

-----------------------------------------------------------------------------
(***************************************************************************)
(* The service.                                                            *)
(***************************************************************************)

\* Two services never execute different commands at the same index, before or
\* after snapshots, installations and restarts.
StateMachineSafety ==
  \A s, t \in Server : \A i \in DOMAIN applied[s] \cap DOMAIN applied[t] :
    applied[s][i] = applied[t][i]

\* No command is executed twice or skipped and no read is out of bounds: what
\* applyLog() sends next is in the log and directly follows what the service
\* has executed, and a snapshot covers the index it is labelled with (the
\* panics of execOp() and applySnapshot() in kvraft/server.go).
ApplyInOrder ==
  \A s \in Server :
    /\ ApplyFrom(s) < committedIndex[s] =>
         /\ committedIndex[s] <= LastLogIndex(s)
         /\ Len(AfterSnapshot(s)) = ApplyFrom(s)
    /\ Len(snapshot[s]) = lastIncludedIndex[s]

\* While a server runs, its service never takes back a command it executed: a
\* late InstallSnapshot does not reset it to an older state.
AppliedStable ==
  [][crashes' = crashes =>
       \A s \in Server :
         /\ Len(applied'[s]) >= Len(applied[s])
         /\ SubSeq(applied'[s], 1, Len(applied[s])) = applied[s]]_<<applied, crashes>>

=============================================================================
