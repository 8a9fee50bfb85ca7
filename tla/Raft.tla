-------------------------------- MODULE Raft --------------------------------
(***************************************************************************)
(* The Raft peer of src/src/raft/raft.go together with what it stands on:  *)
(* the Persister (persister.go), the lossy RPC network (labrpc) and the    *)
(* replicated service that consumes applyCh (kvraft/server.go).            *)
(*                                                                         *)
(* Every RPC handler, every reply handler and every timer of the code runs *)
(* with rf.mu held from its first read to its last write, so each is one   *)
(* atomic action here, deferred persist() included.                        *)
(***************************************************************************)
EXTENDS RaftLog

CONSTANTS
  Server,       \* the peers
  Command,      \* what the service may Start()
  Submits(_),   \* bound: the commands that clients submit to this server
  NoCommand,    \* the nil Command of the entry at position 0 of Logs
  Unvote,       \* VoteFor when no vote was cast in CurrentTerm
  MaxTerm,      \* bound: no election is started beyond this term
  MaxIndex,     \* bound: no log grows beyond this index
  MaxSnapshot,  \* bound: no snapshot covers more than this index
  MaxCrashes,   \* bound: number of crashes
  MaxInFlight,  \* bound: distinct messages in flight when one is sent
  MaxCopies     \* bound: copies in flight of one message

ASSUME ServerAssumption ==
  /\ IsFiniteSet(Server)
  /\ Unvote \notin Server

ASSUME SubmitsAssumption == \A s \in Server : Submits(s) \subseteq Command

ASSUME BoundAssumption ==
  {MaxTerm, MaxIndex, MaxSnapshot, MaxCrashes, MaxInFlight, MaxCopies} \subseteq Nat

InvalidIndex == -1

VARIABLES
  CurrentTerm, identity, VoteFor, electionTimer,
  votes,               \* who granted a vote in the election of CurrentTerm
  Logs,                \* Logs[s][1] is Go's Logs[0]: the last entry in the snapshot
  committedIndex, lastApplied, nextIndex, matchIndex,
  lastIncludedIndex,   \* equal to DiscardCount whenever rf.mu is free
  snapshot, applySnappending,
  persister,           \* what persist() saved last
  applied,             \* the service: the commands it has executed, in order
  messages,            \* the network: message -> number of copies in flight
  crashes,             \* bound counter
  leaders              \* history: every <<server, term>> that won an election

electionVars == <<CurrentTerm, identity, VoteFor, electionTimer, votes>>
leaderVars   == <<nextIndex, matchIndex>>
logVars      == <<Logs, committedIndex, lastApplied>>
snapVars     == <<lastIncludedIndex, snapshot, applySnappending>>
historyVars  == <<crashes, leaders>>
vars == <<electionVars, leaderVars, logVars, snapVars, persister, applied,
          messages, historyVars>>

Min(a, b) == IF a <= b THEN a ELSE b
Max(a, b) == IF a >= b THEN a ELSE b

-----------------------------------------------------------------------------
(***************************************************************************)
(* The network.  Call() either times out or returns one reply; requests    *)
(* and replies are lost or delayed for any time, never duplicated.  A loss *)
(* is decided when the message is sent.                                    *)
(***************************************************************************)

Copies(m) == IF m \in DOMAIN messages THEN messages[m] ELSE 0

\* Sends some of ms; the others are lost.
Send(ms) ==
  \E kept \in SUBSET ms :
    /\ kept = {} \/ Cardinality(DOMAIN messages \cup kept) <= MaxInFlight
    /\ \A m \in kept : Copies(m) < MaxCopies
    /\ messages' = [m \in DOMAIN messages \cup kept |->
                      Copies(m) + (IF m \in kept THEN 1 ELSE 0)]

\* The in-flight messages after one copy of m is taken out.
Without(m) ==
  [k \in {k \in DOMAIN messages : k # m \/ messages[k] > 1} |->
     IF k = m THEN messages[k] - 1 ELSE messages[k]]

Receive(m) == messages' = Without(m)

\* Takes the request m and sends reply r, unless the caller is gone (its
\* process crashed) or r is lost.
Reply(m, r) ==
  LET rest == Without(m) IN
  \/ messages' = rest
  \/ /\ m.live
     /\ Copies(r) < MaxCopies
     /\ messages' = [k \in DOMAIN rest \cup {r} |->
                       IF k = r THEN Copies(r) + 1 ELSE rest[k]]

\* What a crash of s does to the network: the goroutines of s that waited for
\* replies are gone, so no reply reaches s, and the requests it had sent will
\* not be answered.  A request sent to s may still reach the restarted s.
IsRequest(m) == m.type \in {"RequestVote", "ApplyEntries", "InstallSnapshot"}

Orphan(m, s) ==
  IF IsRequest(m) /\ m.src = s THEN [m EXCEPT !.live = FALSE] ELSE m

CutOff(s) ==
  messages' =
    [k \in {Orphan(m, s) : m \in {m \in DOMAIN messages : IsRequest(m) \/ m.dst # s}} |->
       IF IsRequest(k) /\ k.src = s
       THEN Copies(k) + Copies([k EXCEPT !.live = TRUE])
       ELSE messages[k]]

-----------------------------------------------------------------------------
(***************************************************************************)
(* Log arithmetic.  realIndex counts positions of Logs from 0, raftIndex   *)
(* counts log entries since the beginning of time.                         *)
(***************************************************************************)

RealIndex(s, raftIndex) == raftIndex - lastIncludedIndex[s]
RaftIndex(s, realIndex) == realIndex + lastIncludedIndex[s]

LastLogIndex(s) == RaftIndex(s, Len(Logs[s]) - 1)
LastLogTerm(s)  == At(Logs[s], Len(Logs[s]) - 1).Term

Majority(S) == 2 * Cardinality(S) > Cardinality(Server)

\* persist(): saves the state the handler leaves behind.  The snapshot starts
\* with the index it covers, so lastIncludedIndex is saved with it.
persist(s) ==
  persister' = [persister EXCEPT ![s] =
    [CurrentTerm |-> CurrentTerm'[s], VoteFor |-> VoteFor'[s], Logs |-> Logs'[s],
     lastIncludedIndex |-> lastIncludedIndex'[s], snapshot |-> snapshot'[s]]]

\* s learns of the term t > CurrentTerm[s].  The votes counter of its older
\* election is never read again: replies of that election are stale.
BecomeFollower(s, t) ==
  /\ CurrentTerm' = [CurrentTerm EXCEPT ![s] = t]
  /\ identity'    = [identity EXCEPT ![s] = "FOLLOWER"]
  /\ VoteFor'     = [VoteFor EXCEPT ![s] = Unvote]
  /\ votes'       = [votes EXCEPT ![s] = {}]

\* Mutant of StepDown: the election timer is not reset.
StepDown_NoReset(s, t) == BecomeFollower(s, t) /\ UNCHANGED electionTimer

StepDown(s, t) ==
  /\ BecomeFollower(s, t)
  /\ electionTimer' = [electionTimer EXCEPT ![s] = TRUE]

\* Mutant of FollowLeader: the vote is taken back in the same term.
FollowLeader_TakesVoteBack(s, t) == t >= CurrentTerm[s] /\ StepDown(s, t)

\* A request of a leader of term t >= CurrentTerm[s] arrives at s.
FollowLeader(s, t) ==
  \/ t > CurrentTerm[s] /\ StepDown(s, t)
  \/ /\ t = CurrentTerm[s]
     /\ identity'      = [identity EXCEPT ![s] = "FOLLOWER"]
     /\ electionTimer' = [electionTimer EXCEPT ![s] = TRUE]
     /\ UNCHANGED <<CurrentTerm, VoteFor, votes>>

-----------------------------------------------------------------------------
(***************************************************************************)
(* Make(): a fresh peer.                                                   *)
(***************************************************************************)

Init ==
  LET all(v) == [s \in Server |-> v]
      log    == <<[Term |-> 0, Command |-> NoCommand]>>
  IN
  /\ CurrentTerm       = all(0)
  /\ identity          = all("FOLLOWER")
  /\ VoteFor           = all(Unvote)
  /\ electionTimer     = all(TRUE)
  /\ votes             = all({})
  /\ Logs              = all(log)
  /\ committedIndex    = all(0)
  /\ lastApplied       = all(0)
  /\ nextIndex         = all(all(0))
  /\ matchIndex        = all(all(0))
  /\ lastIncludedIndex = all(0)
  /\ snapshot          = all(<<>>)
  /\ applySnappending  = all(FALSE)
  /\ persister         = all([CurrentTerm |-> 0, VoteFor |-> Unvote, Logs |-> log,
                              lastIncludedIndex |-> 0, snapshot |-> <<>>])
  /\ applied           = all(<<>>)
  /\ messages          = [m \in {} |-> 0]
  /\ crashes           = 0
  /\ leaders           = {}

-----------------------------------------------------------------------------
(***************************************************************************)
(* Elections.                                                              *)
(***************************************************************************)

\* ticker() on electionTimer, and kickOffNewElection().
ElectionTimeout(s) ==
  /\ electionTimer[s]
  /\ identity[s] # "LEADER"
  /\ CurrentTerm[s] < MaxTerm
  /\ CurrentTerm' = [CurrentTerm EXCEPT ![s] = @ + 1]
  /\ identity'    = [identity EXCEPT ![s] = "CANDIDATE"]
  /\ VoteFor'     = [VoteFor EXCEPT ![s] = s]
  /\ votes'       = [votes EXCEPT ![s] = {s}]
  /\ UNCHANGED <<electionTimer, leaderVars, logVars, snapVars, applied, historyVars>>
  /\ persist(s)
  /\ Send({[type |-> "RequestVote", src |-> s, dst |-> p, live |-> TRUE,
            Term |-> CurrentTerm[s] + 1, LastLogIndex |-> LastLogIndex(s),
            LastLogTerm |-> LastLogTerm(s)] : p \in Server \ {s}})

\* ticker() on electionTimer of a leader: the timer is left expired.
LeaderTimerExpires(s) ==
  /\ electionTimer[s]
  /\ identity[s] = "LEADER"
  /\ electionTimer' = [electionTimer EXCEPT ![s] = FALSE]
  /\ UNCHANGED <<CurrentTerm, identity, VoteFor, votes, leaderVars, logVars,
                 snapVars, persister, applied, messages, historyVars>>

\* Mutant of UpToDate: the candidate's log is not compared.
UpToDate_Any(s, m) == m.LastLogIndex >= 0

UpToDate(s, m) ==
  \/ m.LastLogTerm > LastLogTerm(s)
  \/ m.LastLogTerm = LastLogTerm(s) /\ m.LastLogIndex >= LastLogIndex(s)

VoteRefused(s, m) ==
  \/ m.Term < CurrentTerm[s]
  \/ m.Term = CurrentTerm[s] /\ VoteFor[s] \notin {Unvote, m.src}

\* Mutant of RequestVoteReply: VoteGranted is set before the checks.
RequestVoteReply_Granted(m, term, granted) ==
  [type |-> "RequestVoteReply", src |-> m.dst, dst |-> m.src,
   Term |-> term, VoteGranted |-> TRUE]

RequestVoteReply(m, term, granted) ==
  [type |-> "RequestVoteReply", src |-> m.dst, dst |-> m.src,
   Term |-> term, VoteGranted |-> granted]

RequestVote(m) ==
  LET s == m.dst IN
  /\ m.type = "RequestVote"
  /\ \/ /\ VoteRefused(s, m)
        /\ UNCHANGED electionVars
        /\ Reply(m, RequestVoteReply(m, CurrentTerm[s], FALSE))
     \/ /\ ~VoteRefused(s, m)
        /\ ~UpToDate(s, m)
        /\ \/ /\ m.Term > CurrentTerm[s]
              /\ BecomeFollower(s, m.Term)
              /\ electionTimer' = [electionTimer EXCEPT ![s] = @ \/ identity[s] # "FOLLOWER"]
           \/ m.Term = CurrentTerm[s] /\ UNCHANGED electionVars
        /\ Reply(m, RequestVoteReply(m, m.Term, FALSE))
     \/ /\ ~VoteRefused(s, m)
        /\ UpToDate(s, m)
        /\ CurrentTerm'   = [CurrentTerm EXCEPT ![s] = m.Term]
        /\ identity'      = [identity EXCEPT ![s] = "FOLLOWER"]
        /\ VoteFor'       = [VoteFor EXCEPT ![s] = m.src]
        /\ electionTimer' = [electionTimer EXCEPT ![s] = TRUE]
        /\ votes'         = [votes EXCEPT ![s] = {}]
        /\ Reply(m, RequestVoteReply(m, m.Term, TRUE))
  /\ UNCHANGED <<leaderVars, logVars, snapVars, applied, historyVars>>
  /\ persist(s)

\* The goroutine of kickOffNewElection() that called RequestVote of m.src.
OnRequestVoteReply(m) ==
  LET s == m.dst
      granted == votes[s] \cup {m.src}
  IN
  /\ m.type = "RequestVoteReply"
  /\ Receive(m)
  /\ UNCHANGED <<logVars, snapVars, applied, crashes>>
  /\ \/ /\ m.Term < CurrentTerm[s] \/ (m.Term = CurrentTerm[s] /\ ~m.VoteGranted)
        /\ UNCHANGED <<electionVars, leaderVars, persister, leaders>>
     \/ /\ m.Term > CurrentTerm[s]
        /\ StepDown(s, m.Term)
        /\ UNCHANGED <<leaderVars, leaders>>
        /\ persist(s)
     \/ /\ m.Term = CurrentTerm[s]
        /\ m.VoteGranted
        /\ votes' = [votes EXCEPT ![s] = granted]
        /\ \/ /\ Majority(granted) /\ identity[s] = "CANDIDATE"
              /\ identity'   = [identity EXCEPT ![s] = "LEADER"]
              /\ nextIndex'  = [nextIndex EXCEPT ![s] = [p \in Server |-> LastLogIndex(s) + 1]]
              /\ matchIndex' = [matchIndex EXCEPT ![s] = [p \in Server |-> 0]]
              /\ leaders'    = leaders \cup {<<s, CurrentTerm[s]>>}
           \/ /\ ~(Majority(granted) /\ identity[s] = "CANDIDATE")
              /\ UNCHANGED <<identity, leaderVars, leaders>>
        /\ UNCHANGED <<CurrentTerm, VoteFor, electionTimer, persister>>

-----------------------------------------------------------------------------
(***************************************************************************)
(* Log replication.                                                        *)
(***************************************************************************)


\* The entry p needs next is no longer in the log of s.
NeedsSnapshot(s, p) == nextIndex[s][p] <= lastIncludedIndex[s]

\* What sendHeartBeat() sends to p when the log of s is log.
HeartBeatTo(s, p, log) ==
  LET last == RaftIndex(s, Len(log) - 1)
      prev == IF last >= nextIndex[s][p] THEN nextIndex[s][p] - 1 ELSE last
  IN
  IF NeedsSnapshot(s, p)
  THEN [type |-> "InstallSnapshot", src |-> s, dst |-> p, live |-> TRUE,
        Term |-> CurrentTerm[s], LastIncludedIndex |-> lastIncludedIndex[s],
        LastIncludedTerm |-> At(log, 0).Term, Data |-> snapshot[s]]
  ELSE [type |-> "ApplyEntries", src |-> s, dst |-> p, live |-> TRUE,
        Term |-> CurrentTerm[s], LeaderCommit |-> committedIndex[s],
        PrevLogIndex |-> prev, PrevLogTerm |-> At(log, RealIndex(s, prev)).Term,
        Entries |-> SubSeq(log, RealIndex(s, prev) + 2, Len(log))]

sendHeartBeat(s, log) == Send({HeartBeatTo(s, p, log) : p \in Server \ {s}})

\* ticker() on heartbeatTimer, which is armed as long as s is the leader.
HeartbeatTimeout(s) ==
  /\ identity[s] = "LEADER"
  /\ sendHeartBeat(s, Logs[s])
  /\ UNCHANGED <<electionVars, leaderVars, logVars, snapVars, persister, applied,
                 historyVars>>

\* The service calls Start(c) on the leader.
Start(s, c) ==
  /\ identity[s] = "LEADER"
  /\ LastLogIndex(s) < MaxIndex
  /\ Logs' = [Logs EXCEPT ![s] = Append(@, [Term |-> CurrentTerm[s], Command |-> c])]
  /\ UNCHANGED <<electionVars, leaderVars, committedIndex, lastApplied, snapVars,
                 applied, historyVars>>
  /\ persist(s)
  /\ sendHeartBeat(s, Logs'[s])

\* Mutant of ReplicateCheck: the term of the previous entry is not compared.
ReplicateCheck_NoTerm(s, m) == RealIndex(s, m.PrevLogIndex) \in 0 .. Len(Logs[s]) - 1

ReplicateCheck(s, m) ==
  LET prevIndex == RealIndex(s, m.PrevLogIndex) IN
  /\ prevIndex \in 0 .. Len(Logs[s]) - 1
  /\ At(Logs[s], prevIndex).Term = m.PrevLogTerm

\* Mutant of Merge: a conflicting entry is overwritten, what follows it is kept.
Merge_KeepsSuffix(s, m) ==
  LET first == RealIndex(s, m.PrevLogIndex + 1) + 1 IN
  SubSeq(Logs[s], 1, first - 1) \o m.Entries \o
    SubSeq(Logs[s], first + Len(m.Entries), Len(Logs[s]))

\* The log of s after the entries of m were copied into it: an existing entry
\* whose term differs from the new one cuts off itself and all that follow.
Merge(s, m) ==
  LET log   == Logs[s]
      first == RealIndex(s, m.PrevLogIndex + 1) + 1    \* position of Entries[1]
      after == first + Len(m.Entries)
      conflict == \E i \in 1 .. Len(m.Entries) :
                    /\ first + i - 1 <= Len(log)
                    /\ log[first + i - 1].Term # m.Entries[i].Term
  IN  SubSeq(log, 1, first - 1) \o m.Entries \o
        (IF conflict THEN <<>> ELSE SubSeq(log, after, Len(log)))

\* committedIndex of s after it accepted m.
FollowerCommit(s, m) ==
  IF m.LeaderCommit <= committedIndex[s] THEN committedIndex[s]
  ELSE IF Len(m.Entries) > 0 THEN Min(m.LeaderCommit, m.PrevLogIndex + 1)
  ELSE Min(m.LeaderCommit, LastLogIndex(s))

\* The reply, with what sendApplyEntriesTo() keeps of the request.
ApplyEntriesReply(m, term, success, xterm, xindex, xlen) ==
  [type |-> "ApplyEntriesReply", src |-> m.dst, dst |-> m.src,
   ArgsTerm |-> m.Term, PrevLogIndex |-> m.PrevLogIndex, Count |-> Len(m.Entries),
   Term |-> term, Success |-> success, XTerm |-> xterm, XIndex |-> xindex, XLen |-> xlen]

\* The reply to an m that fails the consistency check.
Mismatch(s, m) ==
  LET prevIndex == RealIndex(s, m.PrevLogIndex)
      xlen  == RaftIndex(s, Len(Logs[s]))
      xterm == At(Logs[s], prevIndex).Term
  IN
  IF prevIndex < 0 THEN ApplyEntriesReply(m, m.Term, TRUE, 0, 0, 0)
  ELSE IF prevIndex >= Len(Logs[s])
  THEN ApplyEntriesReply(m, m.Term, FALSE, 0, InvalidIndex, xlen)
  ELSE ApplyEntriesReply(m, m.Term, FALSE, xterm,
                         RaftIndex(s, findFirstIndex(Logs[s], xterm)), xlen)

ApplyEntries(m) ==
  LET s == m.dst IN
  /\ m.type = "ApplyEntries"
  /\ \/ /\ m.Term < CurrentTerm[s]
        /\ UNCHANGED <<electionVars, logVars>>
        /\ Reply(m, ApplyEntriesReply(m, CurrentTerm[s], FALSE, 0, 0, 0))
     \/ /\ FollowLeader(s, m.Term)
        /\ ~ReplicateCheck(s, m)
        /\ UNCHANGED logVars
        /\ Reply(m, Mismatch(s, m))
     \/ /\ FollowLeader(s, m.Term)
        /\ ReplicateCheck(s, m)
        /\ Logs' = [Logs EXCEPT ![s] = Merge(s, m)]
        /\ committedIndex' = [committedIndex EXCEPT ![s] = FollowerCommit(s, m)]
        /\ UNCHANGED lastApplied
        /\ Reply(m, ApplyEntriesReply(m, m.Term, TRUE, 0, 0, 0))
  /\ UNCHANGED <<leaderVars, snapVars, applied, historyVars>>
  /\ persist(s)

\* Mutant of BackOff: XLen taken for the index of the last entry.
BackOff_OffByOne(s, m) == IF m.XIndex = InvalidIndex THEN m.XLen - 1 ELSE m.XIndex

\* nextIndex[s][m.src] after the follower failed the consistency check.
BackOff(s, m) ==
  LET log   == Logs[s]
      index == findFirstIndex(log, m.XTerm)
  IN
  IF m.XIndex = InvalidIndex THEN m.XLen
  ELSE IF index = Len(log) \/ At(log, index).Term # m.XTerm THEN m.XIndex
  ELSE RaftIndex(s, findFirstIndex(log, m.XTerm + 1) - 1)

\* Mutant of Replicated: entries of earlier terms are counted too.
Replicated_AnyTerm(s, match) ==
  {n \in lastIncludedIndex[s] + 1 .. LastLogIndex(s) :
     /\ n > committedIndex[s]
     /\ Majority({s} \cup {p \in Server \ {s} : match[p] >= n})}

\* updateCommittedIndex(): the highest entry of the current term above
\* committedIndex that a majority holds according to match, if there is one.
Replicated(s, match) ==
  LET low  == findFirstIndex(Logs[s], CurrentTerm[s])
      high == findFirstIndex(Logs[s], CurrentTerm[s] + 1)
  IN  {n \in {RaftIndex(s, i) : i \in low .. high - 1} :
         /\ n > committedIndex[s]
         /\ Majority({s} \cup {p \in Server \ {s} : match[p] >= n})}

updateCommittedIndex(s, match) ==
  \E n \in Replicated(s, match) \cup {committedIndex[s]} :
    /\ \A k \in Replicated(s, match) : k <= n
    /\ committedIndex' = [committedIndex EXCEPT ![s] = n]

\* Mutant of LastSent: off by one.
LastSent_OffByOne(m) == m.PrevLogIndex + m.Count + 1

\* The index of the last entry of the request that m answers.
LastSent(m) == m.PrevLogIndex + m.Count

\* The goroutine of sendApplyEntriesTo().
OnApplyEntriesReply(m) ==
  LET s == m.dst
      p == m.src
  IN
  /\ m.type = "ApplyEntriesReply"
  /\ Receive(m)
  /\ UNCHANGED <<Logs, lastApplied, snapVars, applied, historyVars>>
  /\ \/ /\ \/ m.Term < CurrentTerm[s]
           \/ ~m.Success /\ m.ArgsTerm < m.Term /\ m.Term = CurrentTerm[s]
           \/ m.Success /\ m.Term >= CurrentTerm[s]
                        /\ (m.Count = 0 \/ m.PrevLogIndex + 1 # nextIndex[s][p])
        /\ UNCHANGED <<electionVars, leaderVars, committedIndex, persister>>
     \/ /\ ~m.Success
        /\ m.Term > m.ArgsTerm
        /\ m.Term > CurrentTerm[s]
        /\ StepDown(s, m.Term)
        /\ UNCHANGED <<leaderVars, committedIndex>>
        /\ persist(s)
     \/ /\ ~m.Success
        /\ m.Term >= CurrentTerm[s]
        /\ m.Term <= m.ArgsTerm
        /\ nextIndex' = [nextIndex EXCEPT ![s][p] = BackOff(s, m)]
        /\ UNCHANGED <<electionVars, matchIndex, committedIndex, persister>>
     \/ /\ m.Success
        /\ m.Term >= CurrentTerm[s]
        /\ m.Count > 0
        /\ m.PrevLogIndex + 1 = nextIndex[s][p]
        /\ matchIndex' = [matchIndex EXCEPT ![s][p] = LastSent(m)]
        /\ nextIndex'  = [nextIndex EXCEPT ![s][p] = LastSent(m) + 1]
        /\ updateCommittedIndex(s, matchIndex'[s])
        /\ UNCHANGED <<electionVars, persister>>

-----------------------------------------------------------------------------
(***************************************************************************)
(* Snapshots.                                                              *)
(***************************************************************************)

\* Mutant of Trim: the last entry of the snapshot is cut off too.
Trim_OffByOne(s, log, index) == SubSeq(log, RealIndex(s, index) + 2, Len(log))

\* doSnapshot() without the persist(): log is cut up to raftIndex index, which
\* becomes the entry at position 0; an entry always remains there.
Trim(s, log, index) == SubSeq(log, Min(RealIndex(s, index), Len(log) - 1) + 1, Len(log))

\* The service calls Snapshot(index, data).  It has executed the commands up to
\* index, but may since have executed more: makeSnapshot() reads LastApplied,
\* unlocks kv.mu and only then calls Snapshot().
Snapshot(s, index) ==
  /\ index <= MaxSnapshot
  /\ index > lastIncludedIndex[s]
  /\ committedIndex'    = [committedIndex EXCEPT ![s] = Max(@, index)]
  /\ lastApplied'       = [lastApplied EXCEPT ![s] = Max(@, index)]
  /\ lastIncludedIndex' = [lastIncludedIndex EXCEPT ![s] = index]
  /\ snapshot'          = [snapshot EXCEPT ![s] = SubSeq(applied[s], 1, index)]
  /\ Logs'              = [Logs EXCEPT ![s] = Trim(s, @, index)]
  /\ UNCHANGED <<electionVars, leaderVars, applySnappending, applied, messages,
                 historyVars>>
  /\ persist(s)

InstallSnapshotReply(m, term) ==
  [type |-> "InstallSnapshotReply", src |-> m.dst, dst |-> m.src,
   LastIncludedIndex |-> m.LastIncludedIndex, Term |-> term]

\* Does the log of s hold the last entry of the snapshot?
HoldsLastIncluded(s, m) ==
  LET realIndex == RealIndex(s, m.LastIncludedIndex) IN
  /\ realIndex \in 1 .. Len(Logs[s]) - 1
  /\ At(Logs[s], realIndex).Term = m.LastIncludedTerm

InstallSnapshot(m) ==
  LET s == m.dst IN
  /\ m.type = "InstallSnapshot"
  /\ \/ /\ m.Term < CurrentTerm[s]
        /\ UNCHANGED <<electionVars, Logs, snapVars, persister>>
        /\ Reply(m, InstallSnapshotReply(m, CurrentTerm[s]))
     \/ /\ FollowLeader(s, m.Term)
        /\ lastIncludedIndex[s] >= m.LastIncludedIndex
        /\ UNCHANGED <<Logs, snapVars, persister>>
        /\ Reply(m, InstallSnapshotReply(m, m.Term))
     \/ /\ FollowLeader(s, m.Term)
        /\ lastIncludedIndex[s] < m.LastIncludedIndex
        /\ lastIncludedIndex' = [lastIncludedIndex EXCEPT ![s] = m.LastIncludedIndex]
        /\ snapshot' = [snapshot EXCEPT ![s] = m.Data]
        /\ Logs' = [Logs EXCEPT ![s] =
                      IF HoldsLastIncluded(s, m) THEN Trim(s, @, m.LastIncludedIndex)
                      ELSE <<[Term |-> m.LastIncludedTerm, Command |-> NoCommand]>>]
        /\ applySnappending' = [applySnappending EXCEPT ![s] = TRUE]
        /\ persist(s)
        /\ Reply(m, InstallSnapshotReply(m, m.Term))
  /\ UNCHANGED <<leaderVars, committedIndex, lastApplied, applied, historyVars>>

\* The goroutine of sendInstallSnapshotTo().
OnInstallSnapshotReply(m) ==
  LET s == m.dst
      p == m.src
  IN
  /\ m.type = "InstallSnapshotReply"
  /\ Receive(m)
  /\ UNCHANGED <<logVars, snapVars, applied, historyVars>>
  /\ \/ /\ \/ m.Term < CurrentTerm[s]
           \/ m.Term = CurrentTerm[s] /\ matchIndex[s][p] > m.LastIncludedIndex
        /\ UNCHANGED <<electionVars, leaderVars, persister>>
     \/ /\ m.Term > CurrentTerm[s]
        /\ StepDown(s, m.Term)
        /\ UNCHANGED leaderVars
        /\ persist(s)
     \/ /\ m.Term = CurrentTerm[s]
        /\ matchIndex[s][p] <= m.LastIncludedIndex
        /\ matchIndex' = [matchIndex EXCEPT ![s][p] = m.LastIncludedIndex]
        /\ nextIndex'  = [nextIndex EXCEPT ![s][p] = m.LastIncludedIndex + 1]
        /\ UNCHANGED <<electionVars, persister>>

-----------------------------------------------------------------------------
(***************************************************************************)
(* The apply goroutine with the service behind applyCh, and crashes.       *)
(***************************************************************************)

\* Mutant of AfterSnapshot: an outdated snapshot is not ignored.
AfterSnapshot_NoCheck(s) == IF applySnappending[s] THEN snapshot[s] ELSE applied[s]

\* The service after it received the pending snapshot, if there is one; an
\* outdated snapshot is ignored.
AfterSnapshot(s) ==
  IF applySnappending[s] /\ lastIncludedIndex[s] >= Len(applied[s])
  THEN snapshot[s] ELSE applied[s]

\* Mutant of ApplyFrom: lastApplied is not moved up to the snapshot.
ApplyFrom_NoSkip(s) == lastApplied[s]

\* The index below the first command applyLog() sends.
ApplyFrom(s) ==
  IF lastApplied[s] < committedIndex[s]
  THEN Max(lastApplied[s], lastIncludedIndex[s]) ELSE lastApplied[s]

\* One round of applyLog(), and the service receiving what it sent, in order:
\* applyCh is unbuffered and has one sender and one receiver.  The service may
\* receive later than Raft sends; all it can do in between is to take Snapshot()
\* of an index it has reached, which Snapshot allows at any time.  A read beyond
\* the log would panic (ApplyInOrder says it never happens).
applyLog(s) ==
  LET from == ApplyFrom(s)
      upto == Max(from, committedIndex[s])
  IN
  /\ lastApplied[s] < committedIndex[s] \/ applySnappending[s]
  /\ from < upto => upto <= LastLogIndex(s)
  /\ applied' = [applied EXCEPT ![s] = AfterSnapshot(s) \o
                   [k \in 1 .. upto - from |-> At(Logs[s], RealIndex(s, from + k)).Command]]
  /\ lastApplied' = [lastApplied EXCEPT ![s] = upto]
  /\ applySnappending' = [applySnappending EXCEPT ![s] = FALSE]
  /\ UNCHANGED <<electionVars, leaderVars, Logs, committedIndex, lastIncludedIndex,
                 snapshot, persister, messages, historyVars>>

\* s loses everything but the persister, and Make() starts it again.  A crash
\* inside a handler is a crash before it, or after it with its messages lost.
Crash(s) ==
  LET saved == persister[s] IN
  /\ crashes < MaxCrashes
  /\ crashes' = crashes + 1
  /\ CurrentTerm'       = [CurrentTerm EXCEPT ![s] = saved.CurrentTerm]
  /\ VoteFor'           = [VoteFor EXCEPT ![s] = saved.VoteFor]
  /\ Logs'              = [Logs EXCEPT ![s] = saved.Logs]
  /\ lastIncludedIndex' = [lastIncludedIndex EXCEPT ![s] = saved.lastIncludedIndex]
  /\ snapshot'          = [snapshot EXCEPT ![s] = saved.snapshot]
  /\ committedIndex'    = [committedIndex EXCEPT ![s] = saved.lastIncludedIndex]
  /\ lastApplied'       = [lastApplied EXCEPT ![s] = saved.lastIncludedIndex]
  /\ applied'           = [applied EXCEPT ![s] = saved.snapshot]
  /\ identity'          = [identity EXCEPT ![s] = "FOLLOWER"]
  /\ electionTimer'     = [electionTimer EXCEPT ![s] = TRUE]
  /\ votes'             = [votes EXCEPT ![s] = {}]
  /\ nextIndex'         = [nextIndex EXCEPT ![s] = [p \in Server |-> 0]]
  /\ matchIndex'        = [matchIndex EXCEPT ![s] = [p \in Server |-> 0]]
  /\ applySnappending'  = [applySnappending EXCEPT ![s] = FALSE]
  /\ CutOff(s)
  /\ UNCHANGED <<persister, leaders>>

Next ==
  \/ \E s \in Server :
       \/ ElectionTimeout(s)
       \/ LeaderTimerExpires(s)
       \/ HeartbeatTimeout(s)
       \/ \E c \in Submits(s) : Start(s, c)
       \/ \E index \in 1 .. Len(applied[s]) : Snapshot(s, index)
       \/ applyLog(s)
       \/ Crash(s)
  \/ \E m \in DOMAIN messages :
       \/ RequestVote(m)
       \/ OnRequestVoteReply(m)
       \/ ApplyEntries(m)
       \/ OnApplyEntriesReply(m)
       \/ InstallSnapshot(m)
       \/ OnInstallSnapshotReply(m)

Spec == Init /\ [][Next]_vars

-----------------------------------------------------------------------------
(***************************************************************************)
(* Types.                                                                  *)
(***************************************************************************)

Commands == Command \cup {NoCommand}

LogEntry == [Term : Nat, Command : Commands]

\* A log always has an entry at position 0.
Log == Seq(LogEntry) \ {<<>>}

Message ==
       [type : {"RequestVote"}, src : Server, dst : Server, live : BOOLEAN,
        Term : Nat, LastLogIndex : Nat, LastLogTerm : Nat]
  \cup [type : {"RequestVoteReply"}, src : Server, dst : Server,
        Term : Nat, VoteGranted : BOOLEAN]
  \cup [type : {"ApplyEntries"}, src : Server, dst : Server, live : BOOLEAN,
        Term : Nat, LeaderCommit : Nat, PrevLogIndex : Nat, PrevLogTerm : Nat,
        Entries : Seq(LogEntry)]
  \cup [type : {"ApplyEntriesReply"}, src : Server, dst : Server,
        ArgsTerm : Nat, PrevLogIndex : Nat, Count : Nat, Term : Nat,
        Success : BOOLEAN, XTerm : Nat, XIndex : Nat \cup {InvalidIndex}, XLen : Nat]
  \cup [type : {"InstallSnapshot"}, src : Server, dst : Server, live : BOOLEAN,
        Term : Nat, LastIncludedIndex : Nat, LastIncludedTerm : Nat,
        Data : Seq(Commands)]
  \cup [type : {"InstallSnapshotReply"}, src : Server, dst : Server,
        LastIncludedIndex : Nat, Term : Nat]

SavedState == [CurrentTerm : Nat, VoteFor : Server \cup {Unvote}, Logs : Log,
               lastIncludedIndex : Nat, snapshot : Seq(Commands)]

\* Every variable holds a value of its Go type, every message is one of the six
\* RPC structures, and no log is ever empty (Logs[0] is read unconditionally).
TypeOK ==
  /\ CurrentTerm       \in [Server -> Nat]
  /\ identity          \in [Server -> {"FOLLOWER", "CANDIDATE", "LEADER"}]
  /\ VoteFor           \in [Server -> Server \cup {Unvote}]
  /\ electionTimer     \in [Server -> BOOLEAN]
  /\ votes             \in [Server -> SUBSET Server]
  /\ Logs              \in [Server -> Log]
  /\ committedIndex    \in [Server -> Nat]
  /\ lastApplied       \in [Server -> Nat]
  /\ nextIndex         \in [Server -> [Server -> Nat]]
  /\ matchIndex        \in [Server -> [Server -> Nat]]
  /\ lastIncludedIndex \in [Server -> Nat]
  /\ snapshot          \in [Server -> Seq(Commands)]
  /\ applySnappending  \in [Server -> BOOLEAN]
  /\ persister         \in [Server -> SavedState]
  /\ applied           \in [Server -> Seq(Commands)]
  /\ DOMAIN messages \subseteq Message
  /\ messages \in [DOMAIN messages -> Nat \ {0}]
  /\ crashes \in Nat
  /\ leaders \subseteq Server \X Nat

=============================================================================
