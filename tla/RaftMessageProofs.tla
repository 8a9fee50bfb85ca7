------------------------- MODULE RaftMessageProofs --------------------------
(***************************************************************************)
(* What the messages of module Raft say, for any number of peers, any      *)
(* losses, any delays and any crashes: a request of a leader and the reply *)
(* to it are about entries that the log of the leader has, as long as it   *)
(* leads, because a leader only appends. That is why the nextIndex that a  *)
(* leader takes from a reply stays in its log.                             *)
(***************************************************************************)
EXTENDS RaftFacts

-----------------------------------------------------------------------------
(***************************************************************************)
(* Sequences of entries.                                                   *)
(***************************************************************************)

\* The first entry of the term that position n has is not behind it.
LEMMA FirstOfTerm ==
  ASSUME Counting, NEW l \in Log, Sorted(l), NEW n \in 1 .. Len(l)
  PROVE  /\ findFirstIndex(l, l[n].Term) \in Nat
         /\ findFirstIndex(l, l[n].Term) <= n - 1
         /\ l[1].Term < l[n].Term => findFirstIndex(l, l[n].Term) >= 1
<1> DEFINE t == l[n].Term
           S == {i \in DOMAIN l : l[i].Term < t}
<1>1. /\ Len(l) \in Nat \ {0} /\ DOMAIN l = 1 .. Len(l)
      /\ \A i \in 1 .. Len(l) : l[i].Term \in Nat
  BY Zenon, LogFacts, EntryFields
<1>2. n \in Nat /\ n - 1 \in Nat
  BY <1>1
<1>3. ASSUME NEW i \in S PROVE i \in 1 .. n - 1
  <2>1. i \in 1 .. Len(l) /\ l[i].Term < l[n].Term /\ l[n].Term \in Nat /\ l[i].Term \in Nat
    BY Zenon, <1>1
  <2>2. ~(n <= i)
    BY <1>1, <2>1 DEF Sorted
  <2> QED
    BY <1>2, <2>1, <2>2
<1> HIDE DEF S
<1>4. S \in SUBSET (1 .. n - 1)
  BY Zenon, <1>3
<1>5. Cardinality(S) \in Nat /\ Cardinality(S) <= n - 1
  BY <1>2, <1>4 DEF Counting
<1>6. ASSUME l[1].Term < l[n].Term PROVE Cardinality(S) >= 1
  <2>1. 1 \in S
    BY <1>1, <1>6 DEF S
  <2> QED
    BY Zenon, <1>2, <1>4, <2>1 DEF Counting
<1>7. findFirstIndex(l, l[n].Term) = Cardinality(S)
  BY Zenon DEF findFirstIndex, S
<1> QED
  BY Zenon, <1>5, <1>6, <1>7

\* The entry after the last one of a term above that of position 1.
LEMMA AfterTerm ==
  ASSUME Counting, NEW l \in Log, Sorted(l), NEW n \in 1 .. Len(l)
  PROVE  findFirstIndex(l, l[n].Term + 1) >= n
<1> DEFINE t == l[n].Term
           S == {i \in DOMAIN l : l[i].Term < t + 1}
<1>1. /\ Len(l) \in Nat \ {0} /\ DOMAIN l = 1 .. Len(l)
      /\ \A i \in 1 .. Len(l) : l[i].Term \in Nat
  BY Zenon, LogFacts, EntryFields
<1>2. n \in Nat /\ t \in Nat
  BY <1>1
<1>3. ASSUME NEW i \in 1 .. n PROVE i \in S
  <2>1. i \in 1 .. Len(l) /\ i <= n /\ l[i].Term \in Nat
    BY <1>1
  <2>2. l[i].Term <= t
    BY Zenon, <1>1, <2>1 DEF Sorted
  <2> HIDE DEF t
  <2> QED
    BY <1>1, <1>2, <2>1, <2>2
<1>4. S \in SUBSET (1 .. Len(l))
  BY Zenon, <1>1
<1>5. findFirstIndex(l, l[n].Term + 1) = Cardinality(S)
  BY Zenon DEF findFirstIndex
<1> HIDE DEF S
<1>6. 1 .. n \subseteq S
  BY Zenon, <1>3
<1>7. Cardinality(S) >= n
  BY Zenon, <1>1, <1>2, <1>4, <1>6 DEF Counting
<1> QED
  BY Zenon, <1>5, <1>7

-----------------------------------------------------------------------------
(***************************************************************************)
(* What a step can do to the role and the log of one peer.                 *)
(***************************************************************************)

\* Stepping down and following a leader make s a follower.
LEMMA FollowerRole ==
  ASSUME TypeOK, NEW s \in Server, NEW t \in Nat,
         BecomeFollower(s, t) \/ FollowLeader(s, t)
  PROVE  /\ identity'[s] = "FOLLOWER"
         /\ \A v \in Server : RoleStep(v)
<1>1. CASE BecomeFollower(s, t)
  BY Zenon, <1>1 DEF BecomeFollower, RoleStep, TypeOK
<1>2. CASE /\ identity' = [identity EXCEPT ![s] = "FOLLOWER"]
           /\ UNCHANGED <<CurrentTerm, VoteFor, votes>>
  BY Zenon, <1>2 DEF RoleStep, TypeOK
<1> QED
  BY Zenon, <1>1, <1>2 DEF FollowLeader, StepDown

\* A step that leaves the election variables alone changes no role.
LEMMA SameRole == ASSUME UNCHANGED electionVars, NEW v PROVE RoleStep(v)
BY Zenon DEF electionVars, RoleStep

\* What a RequestVote does to the roles.
LEMMA RequestVoteRole ==
  ASSUME TypeOK, NEW m \in DOMAIN messages, RequestVote(m), NEW v \in Server
  PROVE  RoleStep(v)
<1> DEFINE s == m.dst
<1>1. m \in Message /\ m.type = "RequestVote"
  BY Zenon DEF TypeOK, RequestVote
<1>2. s \in Server /\ m.Term \in Nat
  BY Zenon, <1>1, RequestVoteFields
<1> HIDE DEF s
<1>3. CASE UNCHANGED electionVars
  BY Zenon, <1>3, SameRole
<1>4. CASE BecomeFollower(s, m.Term)
  BY Zenon, <1>2, <1>4, FollowerRole
<1>5. CASE /\ CurrentTerm' = [CurrentTerm EXCEPT ![s] = m.Term]
           /\ identity'    = [identity EXCEPT ![s] = "FOLLOWER"]
  BY Zenon, <1>2, <1>5 DEF RoleStep, TypeOK
<1> QED
  BY Zenon, <1>3, <1>4, <1>5 DEF RequestVote, s

\* What a vote does to the roles.
LEMMA OnRequestVoteReplyRole ==
  ASSUME TypeOK, NEW m \in DOMAIN messages, OnRequestVoteReply(m), NEW v \in Server
  PROVE  RoleStep(v)
<1> DEFINE s == m.dst
<1>1. m \in Message /\ m.type = "RequestVoteReply"
  BY Zenon DEF TypeOK, OnRequestVoteReply
<1>2. s \in Server /\ m.Term \in Nat
  BY Zenon, <1>1, RequestVoteReplyFields
<1> HIDE DEF s
<1>3. CASE UNCHANGED electionVars
  BY Zenon, <1>3, SameRole
<1>4. CASE StepDown(s, m.Term)
  BY Zenon, <1>2, <1>4, FollowerRole DEF StepDown
<1>5. CASE /\ identity[s] = "CANDIDATE"
           /\ identity' = [identity EXCEPT ![s] = "LEADER"]
           /\ leaders'  = leaders \cup {<<s, CurrentTerm[s]>>}
           /\ UNCHANGED CurrentTerm
  BY Zenon, <1>2, <1>5 DEF RoleStep, TypeOK
<1>6. CASE UNCHANGED <<identity, CurrentTerm>>
  BY Zenon, <1>6 DEF RoleStep
<1> QED
  BY Zenon, <1>3, <1>4, <1>5, <1>6 DEF OnRequestVoteReply, s

\* What a reply to a leader does to the roles.
LEMMA LeaderReplyRole ==
  ASSUME TypeOK, NEW m \in DOMAIN messages, OnApplyEntriesReply(m) \/ OnInstallSnapshotReply(m),
         NEW v \in Server
  PROVE  RoleStep(v)
<1>1. m \in Message /\ m.type \in {"ApplyEntriesReply", "InstallSnapshotReply"}
  BY Zenon DEF TypeOK, OnApplyEntriesReply, OnInstallSnapshotReply
<1>2. m.dst \in Server /\ m.Term \in Nat
  BY Zenon, <1>1, ApplyEntriesReplyFields, InstallSnapshotReplyFields
<1>3. CASE UNCHANGED electionVars
  BY Zenon, <1>3, SameRole
<1>4. CASE StepDown(m.dst, m.Term)
  BY Zenon, <1>2, <1>4, FollowerRole DEF StepDown
<1> QED
  BY Zenon, <1>3, <1>4 DEF OnApplyEntriesReply, OnInstallSnapshotReply

\* What a request of a leader does to the roles.
LEMMA LeaderRequestRole ==
  ASSUME TypeOK, NEW m \in DOMAIN messages, ApplyEntries(m) \/ InstallSnapshot(m),
         NEW v \in Server
  PROVE  RoleStep(v)
<1>1. m \in Message /\ m.type \in {"ApplyEntries", "InstallSnapshot"}
  BY Zenon DEF TypeOK, ApplyEntries, InstallSnapshot
<1>2. m.dst \in Server /\ m.Term \in Nat
  BY Zenon, <1>1, ApplyEntriesFields, InstallSnapshotFields
<1>3. CASE UNCHANGED electionVars
  BY Zenon, <1>3, SameRole
<1>4. CASE FollowLeader(m.dst, m.Term)
  BY Zenon, <1>2, <1>4, FollowerRole
<1> QED
  BY Zenon, <1>3, <1>4 DEF ApplyEntries, InstallSnapshot

\* Trim() keeps the end of the log, or leaves only the index asked for.
LEMMA TrimEnd ==
  ASSUME TypeOK, NEW s \in Server, NEW index \in Nat, index > lastIncludedIndex[s]
  PROVE  /\ Len(Trim(s, Logs[s], index)) \in Nat
         /\ index + Len(Trim(s, Logs[s], index)) - 1 =
              IF index <= LastLogIndex(s) THEN LastLogIndex(s) ELSE index
<1>1. Logs[s] \in Log
  BY Zenon, PeerFacts
<1>2. Logs[s] \in Seq(LogEntry) /\ Len(Logs[s]) \in Nat \ {0}
  BY Zenon, <1>1, LogFacts
<1>3. PICK base \in Nat, len \in Nat \ {0} : base = lastIncludedIndex[s] /\ len = Len(Logs[s])
  BY Zenon, <1>2, PeerFacts
<1>4. LastLogIndex(s) = len - 1 + base /\ RealIndex(s, index) = index - base /\ index > base
  BY Zenon, <1>3 DEF LastLogIndex, RaftIndex, RealIndex
<1>5. PICK first \in 1 .. len :
        /\ first = Min(RealIndex(s, index), len - 1) + 1
        /\ first = IF index <= len - 1 + base THEN (index - base) + 1 ELSE len
  <2>1. CASE index <= len - 1 + base
    <3>1. Min(RealIndex(s, index), len - 1) = index - base
      BY <1>4, <2>1 DEF Min
    <3>2. (index - base) + 1 \in 1 .. len
      BY <1>4, <2>1
    <3> QED
      BY Zenon, <2>1, <3>1, <3>2
  <2>2. CASE ~(index <= len - 1 + base)
    <3>1. Min(RealIndex(s, index), len - 1) = len - 1
      BY <1>4, <2>2 DEF Min
    <3>2. (len - 1) + 1 = len /\ len \in 1 .. len
      OBVIOUS
    <3> QED
      BY Zenon, <2>2, <3>1, <3>2
  <2> QED
    BY Zenon, <2>1, <2>2
<1>6. Trim(s, Logs[s], index) = SubSeq(Logs[s], first, len)
  BY Zenon, <1>3, <1>5 DEF Trim
<1>7. Len(SubSeq(Logs[s], first, len)) = len - first + 1
  BY <1>2, <1>3, <1>5
<1>8. /\ len - first + 1 \in Nat
      /\ index + (len - first + 1) - 1 = IF index <= len - 1 + base THEN len - 1 + base ELSE index
  BY <1>4, <1>5
<1> QED
  BY Zenon, <1>4, <1>6, <1>7, <1>8

\* Snapshot() does not make the log of anybody shorter at its end.
LEMMA SnapshotLog ==
  ASSUME TypeOK, NEW s \in Server, NEW index \in 1 .. Len(applied[s]), Snapshot(s, index)
  PROVE  \A v \in Server : LogStep(v)
<1>1. applied[s] \in Seq(Commands) /\ lastIncludedIndex[s] \in Nat
  BY Zenon, PeerFacts
<1>2. index \in Nat /\ index > lastIncludedIndex[s]
  BY <1>1 DEF Snapshot
<1>3. /\ Logs'[s] = Trim(s, Logs[s], index) /\ lastIncludedIndex'[s] = index
      /\ \A v \in Server : v # s => /\ Logs'[v] = Logs[v]
                                    /\ lastIncludedIndex'[v] = lastIncludedIndex[v]
  BY Zenon DEF Snapshot, TypeOK
<1>4. LastLogIndex(s)' = Len(Logs'[s]) - 1 + index
  BY Zenon, <1>3 DEF LastLogIndex, RaftIndex
<1>5. LastLogIndex(s)' >= LastLogIndex(s)
  BY <1>2, <1>3, <1>4, TrimEnd, LastLogType
<1> QED
  BY Zenon, <1>3, <1>5 DEF LogStep

\* Every step is one of these, for every peer.
LEMMA NextLog ==
  ASSUME TypeOK, [Next]_vars, NEW v \in Server
  PROVE  LogStep(v)
<1>1. CASE UNCHANGED vars
  BY Zenon, <1>1 DEF vars, logVars, snapVars, LogStep
<1>2. ASSUME NEW s \in Server,
             \/ HeartbeatTimeout(s) \/ applyLog(s) \/ LeaderTimerExpires(s) \/ ElectionTimeout(s)
      PROVE  LogStep(v)
  BY Zenon, <1>2 DEF HeartbeatTimeout, applyLog, LeaderTimerExpires, ElectionTimeout, logVars,
     snapVars, LogStep
<1>3. ASSUME NEW s \in Server, NEW c \in Submits(s), Start(s, c) PROVE LogStep(v)
  BY Zenon, <1>3, StartLog
<1>4. ASSUME NEW s \in Server, NEW x \in 1 .. Len(applied[s]), Snapshot(s, x) PROVE LogStep(v)
  BY Zenon, <1>4, SnapshotLog
<1>5. ASSUME NEW s \in Server, Crash(s) PROVE LogStep(v)
  BY Zenon, <1>5 DEF Crash, LogStep, TypeOK
<1>6. ASSUME NEW m \in DOMAIN messages,
             \/ RequestVote(m) \/ OnRequestVoteReply(m)
             \/ OnApplyEntriesReply(m) \/ OnInstallSnapshotReply(m)
      PROVE  LogStep(v)
  BY Zenon, <1>6
     DEF RequestVote, OnRequestVoteReply, OnApplyEntriesReply, OnInstallSnapshotReply,
     logVars, snapVars, LogStep
<1>7. ASSUME NEW m \in DOMAIN messages, ApplyEntries(m) PROVE LogStep(v)
  <2>1. m.dst \in Server /\ m.Term \in Nat
    <3>1. m \in Message /\ m.type = "ApplyEntries"
      BY Zenon, <1>7 DEF ApplyEntries, TypeOK
    <3> QED
      BY Zenon, <3>1, ApplyEntriesFields
  <2>2. CASE UNCHANGED logVars
    BY Zenon, <1>7, <2>2 DEF ApplyEntries, logVars, snapVars, LogStep
  <2>3. CASE FollowLeader(m.dst, m.Term) /\ Logs' = [Logs EXCEPT ![m.dst] = Merge(m.dst, m)]
    BY Zenon, <1>7, <2>1, <2>3, FollowerRole DEF ApplyEntries, snapVars, LogStep, TypeOK
  <2> QED
    BY Zenon, <1>7, <2>2, <2>3 DEF ApplyEntries
<1>8. ASSUME NEW m \in DOMAIN messages, InstallSnapshot(m) PROVE LogStep(v)
  <2> DEFINE s == m.dst
  <2>0. m \in Message /\ m.type = "InstallSnapshot"
    BY Zenon, <1>8 DEF InstallSnapshot, TypeOK
  <2>1. s \in Server /\ m.Term \in Nat
    BY Zenon, <2>0, InstallSnapshotFields
  <2>2. CASE UNCHANGED <<Logs, snapVars>>
    BY Zenon, <2>2 DEF snapVars, LogStep
  <2>3. CASE /\ FollowLeader(s, m.Term)
             /\ lastIncludedIndex' = [lastIncludedIndex EXCEPT ![s] = m.LastIncludedIndex]
             /\ Logs' = [Logs EXCEPT ![s] =
                           IF HoldsLastIncluded(s, m) THEN Trim(s, @, m.LastIncludedIndex)
                           ELSE <<[Term |-> m.LastIncludedTerm, Command |-> NoCommand]>>]
    <3>1. identity'[s] = "FOLLOWER"
      BY Zenon, <2>1, <2>3, FollowerRole
    <3> QED
      BY Zenon, <2>1, <2>3, <3>1 DEF LogStep, TypeOK
  <2> QED
    BY Zenon, <1>8, <2>2, <2>3 DEF InstallSnapshot
<1> QED
  BY Zenon, <1>1, <1>2, <1>3, <1>4, <1>5, <1>6, <1>7, <1>8 DEF Next

\* What an election timeout does to the roles.
LEMMA ElectionRole ==
  ASSUME TypeOK, NEW s \in Server, ElectionTimeout(s), NEW v \in Server
  PROVE  RoleStep(v)
<1>1. persister'[s].CurrentTerm = CurrentTerm'[s]
  BY Zenon, PersistOne DEF ElectionTimeout
<1> QED
  BY <1>1 DEF ElectionTimeout, RoleStep, TypeOK

\* Every step is one of these, for every peer.
LEMMA NextRole ==
  ASSUME TypeOK, [Next]_vars, NEW v \in Server
  PROVE  RoleStep(v)
<1>1. CASE UNCHANGED vars
  BY Zenon, <1>1, SameRole DEF vars
<1>2. ASSUME NEW s \in Server,
             \/ HeartbeatTimeout(s) \/ applyLog(s)
             \/ \E c \in Submits(s) : Start(s, c)
             \/ \E x \in 1 .. Len(applied[s]) : Snapshot(s, x)
      PROVE  RoleStep(v)
  BY Zenon, <1>2, SameRole DEF HeartbeatTimeout, applyLog, Start, Snapshot
<1>3. ASSUME NEW s \in Server, LeaderTimerExpires(s) PROVE RoleStep(v)
  BY Zenon, <1>3 DEF LeaderTimerExpires, RoleStep
<1>4. ASSUME NEW s \in Server, Crash(s) PROVE RoleStep(v)
  BY Zenon, <1>4 DEF Crash, RoleStep, TypeOK
<1>5. ASSUME NEW s \in Server, ElectionTimeout(s) PROVE RoleStep(v)
  BY Zenon, <1>5, ElectionRole
<1>6. ASSUME NEW m \in DOMAIN messages,
             \/ RequestVote(m) \/ OnRequestVoteReply(m)
             \/ ApplyEntries(m) \/ OnApplyEntriesReply(m)
             \/ InstallSnapshot(m) \/ OnInstallSnapshotReply(m)
      PROVE  RoleStep(v)
  BY Zenon, <1>6, RequestVoteRole, OnRequestVoteReplyRole, LeaderReplyRole, LeaderRequestRole
<1> QED
  BY <1>1, <1>2, <1>3, <1>4, <1>5, <1>6 DEF Next

-----------------------------------------------------------------------------
(***************************************************************************)
(* What leaders send.                                                      *)
(***************************************************************************)

\* What sendHeartBeat() sends when the next entry of p is still in the log.
LEMMA HeartBeatEntries ==
  ASSUME TypeOK, NEW s \in Server, NEW p \in Server, ~NeedsSnapshot(s, p)
  PROVE  ShowsLog(s, HeartBeatTo(s, p, Logs[s]))
<1> DEFINE log  == Logs[s]
           base == lastIncludedIndex[s]
           last == RaftIndex(s, Len(log) - 1)
           prev == IF last >= nextIndex[s][p] THEN nextIndex[s][p] - 1 ELSE last
           m    == HeartBeatTo(s, p, log)
<1>1. log \in Log /\ base \in Nat /\ nextIndex[s][p] \in Nat /\ CurrentTerm[s] \in Nat
  BY Zenon, PeerFacts
<1>2. /\ log \in Seq(LogEntry) /\ Len(log) \in Nat \ {0}
      /\ \A i \in 1 .. Len(log) : log[i] \in LogEntry
  BY Zenon, <1>1, LogFacts
<1>3. last = LastLogIndex(s) /\ last = base + Len(log) - 1
  BY <1>1, <1>2 DEF LastLogIndex, RaftIndex
<1>4. prev \in Nat /\ base <= prev /\ prev <= last
  <2>1. \A x, l, b, k \in Nat : l = b + k - 1 /\ k # 0 /\ ~(x <= b) =>
          LET v == IF l >= x THEN x - 1 ELSE l IN v \in Nat /\ b <= v /\ v <= l
    OBVIOUS
  <2>2. Len(log) \in Nat /\ Len(log) # 0 /\ ~(nextIndex[s][p] <= base)
    BY <1>2 DEF NeedsSnapshot
  <2>3. last \in Nat
    BY <1>1, <1>3, <2>2
  <2> HIDE DEF last
  <2> QED
    BY Zenon, <1>1, <1>3, <2>1, <2>2, <2>3
<1>5. /\ m.type = "ApplyEntries" /\ m.src = s /\ m.Term = CurrentTerm[s]
      /\ m.PrevLogIndex = prev /\ m.PrevLogTerm = log[prev - base + 1].Term
      /\ m.Entries = SubSeq(log, prev - base + 2, Len(log))
  BY Zenon DEF HeartBeatTo, At, RealIndex
<1>6. m \in Message
  BY Zenon, <1>1, HeartBeatType
<1> HIDE DEF m, prev, last
<1>7. prev - base + 2 \in Nat \ {0} /\ prev - base + 2 <= Len(log) + 1
  <2>1. \A v, l, b, k \in Nat : l = b + k - 1 /\ b <= v /\ v <= l =>
          v - b + 2 \in Nat \ {0} /\ v - b + 2 <= k + 1
    OBVIOUS
  <2>2. Len(log) \in Nat /\ Len(log) # 0
    BY <1>2
  <2>3. last \in Nat
    BY <1>1, <1>3, <2>2
  <2> QED
    BY Zenon, <1>1, <1>3, <1>4, <2>1, <2>2, <2>3
<1>8. /\ Len(m.Entries) = last - prev
      /\ \A k \in 1 .. last - prev : m.Entries[k] = log[prev - base + 1 + k]
  <2> DEFINE f == prev - base + 2
             e == SubSeq(log, f, Len(log))
  <2>1. f \in Nat \ {0} /\ f <= Len(log) + 1 /\ Len(log) \in Nat /\ log \in Seq(LogEntry)
    BY Zenon, <1>2, <1>7
  <2>2. m.Entries = e
    BY Zenon, <1>5
  <2>3. Len(log) - f + 1 = last - prev
    BY <1>1, <1>2, <1>3, <1>4
  <2>4. \A k \in 1 .. last - prev : f + k - 1 = prev - base + 1 + k
    BY <1>1, <1>2, <1>3, <1>4
  <2> HIDE DEF f
  <2>5. Len(e) = Len(log) - f + 1 /\ \A k \in 1 .. Len(log) - f + 1 : e[k] = log[f + k - 1]
    BY <2>1
  <2> HIDE DEF e
  <2> QED
    BY Zenon, <2>2, <2>3, <2>4, <2>5
<1>9. /\ EntriesPiece(m) \in PieceSet
      /\ EntriesPiece(m).base = prev /\ EntriesPiece(m).term = CurrentTerm[s]
      /\ EntriesPiece(m).log = Carried(m)
      /\ End(EntriesPiece(m)) = prev + (last - prev)
  BY Zenon, <1>5, <1>6, <1>8, EntriesPieceFields
<1>10. /\ PeerPiece(s) \in PieceSet /\ PeerPiece(s).base = base /\ PeerPiece(s).log = log
       /\ PeerPiece(s).term = CurrentTerm[s] /\ End(PeerPiece(s)) = last
  BY Zenon, <1>3, PeerPieceFields
<1>11. ASSUME NEW i \in Span(EntriesPiece(m))
       PROVE  /\ i \in Span(PeerPiece(s))
              /\ Entry(EntriesPiece(m), i).Term = Entry(PeerPiece(s), i).Term
              /\ prev < i => base < i /\ Entry(EntriesPiece(m), i) = Entry(PeerPiece(s), i)
  <2>1. i \in Nat /\ prev <= i /\ i <= prev + (last - prev)
    BY Zenon, <1>9, PieceFacts
  <2>2. i \in Nat /\ base <= i /\ i <= last /\ last \in Nat
    BY <1>1, <1>2, <1>3, <1>4, <2>1
  <2>3. i \in Span(PeerPiece(s))
    BY Zenon, <1>10, <2>2, PieceFacts
  <2>4. /\ Entry(EntriesPiece(m), i) = Carried(m)[i - prev + 1]
        /\ Entry(PeerPiece(s), i) = log[i - base + 1]
    BY Zenon, <1>9, <1>10 DEF Entry
  <2>5. CASE i = prev
    <3>1. i - prev + 1 = 1
      BY <1>4, <2>5
    <3>2. Carried(m)[1].Term = log[prev - base + 1].Term
      BY Zenon, <1>5, <1>6, CarriedFacts
    <3> QED
      BY <1>4, <2>3, <2>4, <2>5, <3>1, <3>2
  <2>6. CASE prev < i
    <3>1. i - prev \in 1 .. last - prev /\ prev - base + 1 + (i - prev) = i - base + 1
      BY <1>1, <1>4, <2>2, <2>6
    <3>2. Carried(m)[(i - prev) + 1] = m.Entries[i - prev]
      BY Zenon, <1>5, <1>6, <1>8, <3>1, CarriedFacts
    <3>3. m.Entries[i - prev] = log[i - base + 1]
      BY Zenon, <1>8, <3>1
    <3> QED
      BY <1>1, <1>4, <2>2, <2>3, <2>4, <2>6, <3>2, <3>3
  <2> QED
    BY <1>4, <2>1, <2>5, <2>6
<1>12. Part(EntriesPiece(m), PeerPiece(s))
  BY <1>1, <1>9, <1>10, <1>11 DEF Part
<1>13. m.PrevLogIndex + Len(m.Entries) = LastLogIndex(s)
  <2>1. m.PrevLogIndex + Len(m.Entries) = prev + (last - prev)
    BY Zenon, <1>5, <1>8
  <2>2. prev \in Nat /\ last \in Nat
    BY <1>1, <1>2, <1>3, <1>4
  <2> QED
    BY <1>3, <2>1, <2>2
<1> QED
  BY Zenon, <1>5, <1>6, <1>12, <1>13 DEF ShowsLog, m

\* What sendHeartBeat() sends when it no longer is.
LEMMA HeartBeatSnapshot ==
  ASSUME TypeOK, NEW s \in Server, NEW p \in Server, NeedsSnapshot(s, p)
  PROVE  ShowsLog(s, HeartBeatTo(s, p, Logs[s]))
<1> DEFINE m == HeartBeatTo(s, p, Logs[s])
<1>1. Logs[s] \in Log /\ lastIncludedIndex[s] \in Nat /\ CurrentTerm[s] \in Nat
  BY Zenon, PeerFacts
<1>2. /\ m.type = "InstallSnapshot" /\ m.src = s /\ m.Term = CurrentTerm[s]
      /\ m.LastIncludedIndex = lastIncludedIndex[s] /\ m.LastIncludedTerm = Logs[s][0 + 1].Term
      /\ m.Data = snapshot[s]
  BY Zenon DEF HeartBeatTo, At
<1>3. m \in Message
  BY Zenon, <1>1, HeartBeatType
<1> HIDE DEF m
<1>4. /\ SnapshotPiece(m) \in PieceSet
      /\ SnapshotPiece(m).base = lastIncludedIndex[s]
      /\ SnapshotPiece(m).log = LastIncluded(m)
      /\ SnapshotPiece(m).term = CurrentTerm[s]
      /\ End(SnapshotPiece(m)) = lastIncludedIndex[s]
  BY Zenon, <1>2, <1>3, SnapshotPieceFields
<1>5. /\ PeerPiece(s) \in PieceSet /\ PeerPiece(s).base = lastIncludedIndex[s]
      /\ PeerPiece(s).log = Logs[s] /\ PeerPiece(s).term = CurrentTerm[s]
  BY Zenon, PeerPieceFields
<1>6. ASSUME NEW i \in Span(SnapshotPiece(m))
      PROVE  /\ i = lastIncludedIndex[s] /\ i \in Span(PeerPiece(s))
             /\ Entry(SnapshotPiece(m), i).Term = Entry(PeerPiece(s), i).Term
  <2>1. i = lastIncludedIndex[s]
    BY <1>1, <1>4, PieceFacts
  <2>2. i \in Span(PeerPiece(s))
    BY <1>1, <1>5, <2>1, PieceFacts
  <2>3. i - lastIncludedIndex[s] + 1 = 1
    BY <1>1, <2>1
  <2>4. Entry(SnapshotPiece(m), i) = LastIncluded(m)[1] /\ Entry(PeerPiece(s), i) = Logs[s][1]
    BY Zenon, <1>4, <1>5, <2>3 DEF Entry
  <2> QED
    BY <1>2, <1>3, <2>1, <2>2, <2>4, LastIncludedFacts
<1>7. Part(SnapshotPiece(m), PeerPiece(s))
  BY <1>1, <1>4, <1>5, <1>6 DEF Part
<1> QED
  BY Zenon, <1>2, <1>3, <1>7 DEF ShowsLog, m

\* Whatever sendHeartBeat() sends, before or after a step.
LEMMA HeartBeatShows ==
  TypeOK => \A s, p \in Server : ShowsLog(s, HeartBeatTo(s, p, Logs[s]))
BY Zenon, HeartBeatEntries, HeartBeatSnapshot

\* The same after a step.
LEMMA HeartBeatShowsNext ==
  TypeOK' => \A s, p \in Server : ShowsLog(s, HeartBeatTo(s, p, Logs[s]))'
<1>1. TypeOK' => (\A s, p \in Server : ShowsLog(s, HeartBeatTo(s, p, Logs[s])))'
  BY HeartBeatShows, PTL
<1> QED
  BY Zenon, <1>1

-----------------------------------------------------------------------------
(***************************************************************************)
(* What a step can do to the disks and to the requests in flight.          *)
(***************************************************************************)

\* A step saves the state of one peer, or none.
LEMMA NextPersist ==
  ASSUME TypeOK, [Next]_vars
  PROVE  UNCHANGED persister \/ \E s \in Server : persist(s)
<1>1. CASE UNCHANGED vars
  BY Zenon, <1>1 DEF vars
<1>2. ASSUME NEW s \in Server, ElectionTimeout(s) PROVE persist(s)
  BY Zenon, <1>2 DEF ElectionTimeout
<1>3. ASSUME NEW s \in Server, NEW c \in Submits(s), Start(s, c) PROVE persist(s)
  BY Zenon, <1>3 DEF Start
<1>4. ASSUME NEW s \in Server, NEW x \in 1 .. Len(applied[s]), Snapshot(s, x) PROVE persist(s)
  BY Zenon, <1>4 DEF Snapshot
<1>5. ASSUME NEW s \in Server,
             \/ LeaderTimerExpires(s) \/ HeartbeatTimeout(s) \/ applyLog(s) \/ Crash(s)
      PROVE  UNCHANGED persister
  BY Zenon, <1>5 DEF LeaderTimerExpires, HeartbeatTimeout, applyLog, Crash
<1>6. ASSUME NEW m \in DOMAIN messages,
             \/ RequestVote(m) \/ OnRequestVoteReply(m) \/ ApplyEntries(m)
             \/ OnApplyEntriesReply(m) \/ InstallSnapshot(m) \/ OnInstallSnapshotReply(m)
      PROVE  m.dst \in Server /\ (UNCHANGED persister \/ persist(m.dst))
  <2>1. m.dst \in Server
    BY Zenon, MessageEnds DEF TypeOK
  <2>2. CASE RequestVote(m) \/ ApplyEntries(m)
    BY Zenon, <2>1, <2>2 DEF RequestVote, ApplyEntries
  <2>3. CASE OnRequestVoteReply(m)
    BY Zenon, <2>1, <2>3 DEF OnRequestVoteReply
  <2>4. CASE OnApplyEntriesReply(m)
    BY Zenon, <2>1, <2>4 DEF OnApplyEntriesReply
  <2>5. CASE InstallSnapshot(m) \/ OnInstallSnapshotReply(m)
    BY Zenon, <2>1, <2>5 DEF InstallSnapshot, OnInstallSnapshotReply
  <2> QED
    BY Zenon, <1>6, <2>2, <2>3, <2>4, <2>5
<1> QED
  BY Zenon, <1>1, <1>2, <1>3, <1>4, <1>5, <1>6 DEF Next

\* So every disk takes a DiskStep.
LEMMA NextDisk ==
  ASSUME TypeOK, [Next]_vars, NEW v \in Server
  PROVE  DiskStep(v)
<1>1. ASSUME NEW s \in Server, persist(s) PROVE DiskStep(v)
  <2>1. persister'[s] =
          [CurrentTerm |-> CurrentTerm'[s], VoteFor |-> VoteFor'[s], Logs |-> Logs'[s],
           lastIncludedIndex |-> lastIncludedIndex'[s], snapshot |-> snapshot'[s]]
    BY Zenon, <1>1 DEF persist, TypeOK
  <2>2. /\ persister'[s].CurrentTerm = CurrentTerm'[s] /\ persister'[s].Logs = Logs'[s]
        /\ persister'[s].lastIncludedIndex = lastIncludedIndex'[s]
        /\ persister'[s].snapshot = snapshot'[s]
    BY <2>1
  <2>3. DiskPiece(s)' = PeerPiece(s)'
    BY Zenon, <2>2 DEF DiskPiece, PeerPiece
  <2>4. v # s => persister'[v] = persister[v]
    BY Zenon, <1>1, PersistOne
  <2> QED
    BY <2>2, <2>3, <2>4 DEF DiskStep
<1> QED
  BY Zenon, <1>1, NextPersist DEF DiskStep

\* A reply takes nothing but itself into the network, and only for a request
\* whose sender still waits.
LEMMA ReplyDomain ==
  ASSUME NEW m, NEW r, Reply(m, r), NEW k \in DOMAIN messages'
  PROVE  k \in DOMAIN messages \/ (k = r /\ m.live)
<1>1. DOMAIN Without(m) \subseteq DOMAIN messages
  BY Zenon DEF Without
<1>2. CASE messages' = Without(m)
  BY Zenon, <1>1, <1>2
<1>3. CASE /\ m.live
           /\ messages' = [x \in DOMAIN Without(m) \cup {r} |->
                             IF x = r THEN Copies(r) + 1 ELSE Without(m)[x]]
  <2>1. DOMAIN messages' = DOMAIN Without(m) \cup {r}
    BY Zenon, <1>3
  <2> QED
    BY Zenon, <1>1, <1>3, <2>1
<1> QED
  BY Zenon, <1>2, <1>3 DEF Reply

\* Send() adds nothing but what is sent.
LEMMA SendDomain ==
  ASSUME NEW ms, Send(ms), NEW k \in DOMAIN messages'
  PROVE  k \in DOMAIN messages \/ k \in ms
<1>1. PICK kept \in SUBSET ms :
        messages' = [m \in DOMAIN messages \cup kept |->
                       Copies(m) + (IF m \in kept THEN 1 ELSE 0)]
  BY Zenon DEF Send
<1>2. DOMAIN messages' = DOMAIN messages \cup kept
  BY Zenon, <1>1
<1> QED
  BY Zenon, <1>1, <1>2

\* A leader that sends is still the leader, and shows the log it has then.
LEMMA HeartBeatSent ==
  ASSUME TypeOK', NEW s \in Server, sendHeartBeat(s, Logs'[s]), identity[s] = "LEADER",
         UNCHANGED <<electionVars, leaderVars, snapVars, committedIndex>>,
         NEW m \in DOMAIN messages', m \notin DOMAIN messages
  PROVE  identity'[s] = "LEADER" /\ ShowsLog(s, m)'
<1>1. PICK p \in Server : m = HeartBeatTo(s, p, Logs'[s])
  BY SendDomain DEF sendHeartBeat
<1>2. HeartBeatTo(s, p, Logs'[s]) = HeartBeatTo(s, p, Logs[s])'
  BY Zenon
     DEF HeartBeatTo, NeedsSnapshot, RaftIndex, RealIndex, electionVars, leaderVars, snapVars
<1>3. ShowsLog(s, HeartBeatTo(s, p, Logs[s]))'
  BY Zenon, HeartBeatShowsNext
<1>4. ASSUME NEW x, x = HeartBeatTo(s, p, Logs[s])' PROVE ShowsLog(s, x)'
  BY Zenon, <1>3, <1>4 DEF ShowsLog
<1> QED
  BY Zenon, <1>1, <1>2, <1>4 DEF electionVars

\* Where a request with entries or a snapshot comes from.
LEMMA NextSent ==
  ASSUME TypeOK, TypeOK', [Next]_vars, \A s \in Server : ~Crash(s),
         NEW m \in DOMAIN messages', m.type \in {"ApplyEntries", "InstallSnapshot"}
  PROVE  \/ m \in DOMAIN messages
         \/ \E s \in Server : identity'[s] = "LEADER" /\ ShowsLog(s, m)'
<1>1. CASE UNCHANGED vars
  BY Zenon, <1>1 DEF vars
<1>2. ASSUME NEW s \in Server, ElectionTimeout(s) PROVE m \in DOMAIN messages
  <2> DEFINE ms == {[type |-> "RequestVote", src |-> s, dst |-> p, live |-> TRUE,
                     Term |-> CurrentTerm[s] + 1, LastLogIndex |-> LastLogIndex(s),
                     LastLogTerm |-> LastLogTerm(s)] : p \in Server \ {s}}
  <2>1. Send(ms)
    BY Zenon, <1>2 DEF ElectionTimeout
  <2>2. \A k \in ms : k.type = "RequestVote"
    OBVIOUS
  <2> HIDE DEF ms
  <2> QED
    BY Zenon, <2>1, <2>2, SendDomain
<1>3. ASSUME NEW s \in Server, HeartbeatTimeout(s), m \notin DOMAIN messages
      PROVE  identity'[s] = "LEADER" /\ ShowsLog(s, m)'
  <2>1. /\ sendHeartBeat(s, Logs'[s]) /\ identity[s] = "LEADER"
        /\ UNCHANGED <<electionVars, leaderVars, snapVars, committedIndex>>
    BY Zenon, <1>3 DEF HeartbeatTimeout, logVars
  <2> QED
    BY Zenon, <1>3, <2>1, HeartBeatSent
<1>4. ASSUME NEW s \in Server, NEW c \in Submits(s), Start(s, c), m \notin DOMAIN messages
      PROVE  identity'[s] = "LEADER" /\ ShowsLog(s, m)'
  <2>1. /\ sendHeartBeat(s, Logs'[s]) /\ identity[s] = "LEADER"
        /\ UNCHANGED <<electionVars, leaderVars, snapVars, committedIndex>>
    BY Zenon, <1>4 DEF Start
  <2> QED
    BY Zenon, <1>4, <2>1, HeartBeatSent
<1>5. ASSUME NEW s \in Server,
             \/ LeaderTimerExpires(s) \/ applyLog(s)
             \/ \E x \in 1 .. Len(applied[s]) : Snapshot(s, x)
      PROVE  m \in DOMAIN messages
  BY Zenon, <1>5 DEF LeaderTimerExpires, applyLog, Snapshot
<1>6. ASSUME NEW k \in DOMAIN messages,
             OnRequestVoteReply(k) \/ OnApplyEntriesReply(k) \/ OnInstallSnapshotReply(k)
      PROVE  m \in DOMAIN messages
  <2>1. Receive(k)
    BY Zenon, <1>6 DEF OnRequestVoteReply, OnApplyEntriesReply, OnInstallSnapshotReply
  <2> QED
    BY Zenon, <2>1 DEF Receive, Without
<1>7. ASSUME NEW k \in DOMAIN messages, RequestVote(k) \/ ApplyEntries(k) \/ InstallSnapshot(k)
      PROVE  m \in DOMAIN messages
  <2>1. CASE RequestVote(k)
    <3>1. PICK t, g : Reply(k, RequestVoteReply(k, t, g))
      BY Zenon, <2>1 DEF RequestVote
    <3> QED
      BY <3>1, ReplyDomain DEF RequestVoteReply
  <2>2. CASE ApplyEntries(k)
    <3>1. \A a, b, c, d, e : ApplyEntriesReply(k, a, b, c, d, e).type = "ApplyEntriesReply"
      BY Zenon DEF ApplyEntriesReply
    <3>2. Mismatch(k.dst, k).type = "ApplyEntriesReply"
      <4> HIDE DEF ApplyEntriesReply
      <4>1. \E a, b, c, d, e : Mismatch(k.dst, k) = ApplyEntriesReply(k, a, b, c, d, e)
        BY Zenon DEF Mismatch
      <4> QED
        BY Zenon, <3>1, <4>1
    <3>3. PICK r : Reply(k, r) /\ r.type = "ApplyEntriesReply"
      <4>1. CASE Reply(k, Mismatch(k.dst, k))
        BY Zenon, <3>2, <4>1
      <4>2. CASE \E a, b, c, d, e : Reply(k, ApplyEntriesReply(k, a, b, c, d, e))
        BY Zenon, <3>1, <4>2
      <4> QED
        BY Zenon, <2>2, <4>1, <4>2 DEF ApplyEntries
    <3> QED
      BY Zenon, <3>3, ReplyDomain
  <2>3. CASE InstallSnapshot(k)
    <3>1. PICK t : Reply(k, InstallSnapshotReply(k, t))
      BY Zenon, <2>3 DEF InstallSnapshot
    <3> QED
      BY <3>1, ReplyDomain DEF InstallSnapshotReply
  <2> QED
    BY Zenon, <1>7, <2>1, <2>2, <2>3
<1> QED
  BY Zenon, <1>1, <1>2, <1>3, <1>4, <1>5, <1>6, <1>7 DEF Next

-----------------------------------------------------------------------------
(***************************************************************************)
(* What a step can do to the log of one peer.                              *)
(***************************************************************************)

\* A request that outlives its sender says the same.
LEMMA OrphanPiece ==
  ASSUME NEW m \in Message, NEW s
  PROVE  /\ m.type = "ApplyEntries" =>
              /\ EntriesPiece(Orphan(m, s)) = EntriesPiece(m)
              /\ Orphan(m, s).PrevLogIndex = m.PrevLogIndex
              /\ Orphan(m, s).Entries = m.Entries
         /\ m.type = "InstallSnapshot" =>
              /\ SnapshotPiece(Orphan(m, s)) = SnapshotPiece(m)
              /\ Orphan(m, s).LastIncludedIndex = m.LastIncludedIndex
              /\ Orphan(m, s).Data = m.Data
<1>1. CASE Orphan(m, s) = m /\ ~(IsRequest(m) /\ m.src = s)
  BY Zenon, <1>1 DEF IsRequest
<1>2. CASE IsRequest(m) /\ m.src = s /\ Orphan(m, s) = [m EXCEPT !.live = FALSE]
  <2> DEFINE o == [m EXCEPT !.live = FALSE]
  <2>1. CASE m.type = "ApplyEntries"
    <3>1. /\ o.PrevLogIndex = m.PrevLogIndex /\ o.PrevLogTerm = m.PrevLogTerm
          /\ o.Entries = m.Entries /\ o.Term = m.Term
      BY Zenon, <2>1, ApplyEntriesFields
    <3> HIDE DEF o
    <3> QED
      BY Zenon, <1>2, <2>1, <3>1 DEF EntriesPiece, Carried, o
  <2>2. CASE m.type = "InstallSnapshot"
    <3>1. /\ o.LastIncludedIndex = m.LastIncludedIndex
          /\ o.LastIncludedTerm = m.LastIncludedTerm
          /\ o.Data = m.Data /\ o.Term = m.Term
      BY Zenon, <2>2, InstallSnapshotFields
    <3> HIDE DEF o
    <3> QED
      BY Zenon, <1>2, <2>2, <3>1 DEF SnapshotPiece, LastIncluded, o
  <2> QED
    BY Zenon, <2>1, <2>2
<1> QED
  BY Zenon, <1>1, <1>2 DEF Orphan

\* Where the pieces in the requests in flight come from.
LEMMA NextRequests ==
  ASSUME TypeOK, TypeOK', [Next]_vars, NEW m \in DOMAIN messages'
  PROVE  /\ m.type = "ApplyEntries" =>
              \/ EntriesPiece(m) \in Pieces
              \/ \E s \in Server : Part(EntriesPiece(m), PeerPiece(s)')
         /\ m.type = "InstallSnapshot" =>
              \/ SnapshotPiece(m) \in Pieces
              \/ \E s \in Server : Part(SnapshotPiece(m), PeerPiece(s)')
<1>1. CASE m \in DOMAIN messages
  BY Zenon, <1>1 DEF Pieces, Sent
<1>2. ASSUME NEW s \in Server, Crash(s)
      PROVE  \E k \in DOMAIN messages : k \in Message /\ m = Orphan(k, s) /\ m.type = k.type
  <2>1. PICK k \in DOMAIN messages : m = Orphan(k, s)
    BY Zenon, <1>2, CutOffMessages DEF Crash, TypeOK, MessagesOK
  <2>2. k \in Message
    BY Zenon DEF TypeOK
  <2> QED
    BY Zenon, <2>1, <2>2, OrphanMessage
<1>3. ASSUME NEW s \in Server, Crash(s)
      PROVE  /\ m.type = "ApplyEntries" => EntriesPiece(m) \in Pieces
             /\ m.type = "InstallSnapshot" => SnapshotPiece(m) \in Pieces
  <2>1. PICK k \in DOMAIN messages : k \in Message /\ m = Orphan(k, s) /\ m.type = k.type
    BY Zenon, <1>2, <1>3
  <2>2. CASE m.type = "ApplyEntries"
    <3>1. EntriesPiece(m) = EntriesPiece(k)
      BY Zenon, <2>1, <2>2, OrphanPiece
    <3> QED
      BY Zenon, <2>1, <2>2, <3>1 DEF Pieces, Sent
  <2>3. CASE m.type = "InstallSnapshot"
    <3>1. SnapshotPiece(m) = SnapshotPiece(k)
      BY Zenon, <2>1, <2>3, OrphanPiece
    <3> QED
      BY Zenon, <2>1, <2>3, <3>1 DEF Pieces, Sent
  <2> QED
    BY Zenon, <2>2, <2>3
<1>4. CASE m \notin DOMAIN messages /\ \A s \in Server : ~Crash(s)
  <2> SUFFICES ASSUME m.type \in {"ApplyEntries", "InstallSnapshot"}
               PROVE  \E s \in Server :
                        /\ m.type = "ApplyEntries" => Part(EntriesPiece(m), PeerPiece(s)')
                        /\ m.type = "InstallSnapshot" => Part(SnapshotPiece(m), PeerPiece(s)')
    BY Zenon
  <2>1. PICK s \in Server : ShowsLog(s, m)'
    BY Zenon, <1>4, NextSent
  <2> QED
    BY Zenon, <2>1 DEF ShowsLog
<1> QED
  BY Zenon, <1>1, <1>3, <1>4

-----------------------------------------------------------------------------
(***************************************************************************)
(* Replies.                                                                *)
(***************************************************************************)

\* The two replies to a request that fails the consistency check, and the one
\* that promises the entries.
LEMMA AnswersFields ==
  ASSUME NEW k \in Message, k.type = "ApplyEntries", NEW r,
         r.dst = k.src, r.ArgsTerm = k.Term, r.PrevLogIndex = k.PrevLogIndex,
         r.Count = Len(k.Entries), r.Term = k.Term,
         \/ r.Success
         \/ r.XIndex = InvalidIndex /\ r.XLen \in 1 .. r.PrevLogIndex
         \/ r.XTerm > 0 /\ r.XIndex \in 1 .. r.PrevLogIndex
  PROVE  Answers(r, k)
<1>1. k.Term \in Nat
  BY Zenon, ApplyEntriesFields
<1>2. r.Term >= r.ArgsTerm
  BY <1>1
<1> QED
  BY Zenon, <1>2 DEF Answers

\* The positions of the log and of the request of the entry before the new ones.
LEMMA PreviousEntry ==
  ASSUME TypeOK, NEW s \in Server, NEW m \in Message, m.type = "ApplyEntries",
         NEW d \in Nat, d = m.PrevLogIndex - lastIncludedIndex[s], d < Len(Logs[s])
  PROVE  /\ m.PrevLogIndex \in Span(PeerPiece(s))
         /\ Entry(PeerPiece(s), m.PrevLogIndex) = Logs[s][d + 1]
         /\ m.PrevLogIndex \in Span(EntriesPiece(m))
         /\ Entry(EntriesPiece(m), m.PrevLogIndex).Term = m.PrevLogTerm
<1>1. PICK base \in Nat, prev \in Nat, len \in Nat :
        base = lastIncludedIndex[s] /\ prev = m.PrevLogIndex /\ len = Len(Logs[s])
  <2>1. lastIncludedIndex[s] \in Nat /\ m.PrevLogIndex \in Nat /\ Logs[s] \in Log
    BY Zenon, PeerFacts, ApplyEntriesFields
  <2>2. Len(Logs[s]) \in Nat
    BY Zenon, <2>1, LogFacts
  <2> QED
    BY Zenon, <2>1, <2>2
<1>2. d = prev - base /\ d < len
  BY Zenon, <1>1
<1>3. /\ PeerPiece(s) \in PieceSet /\ PeerPiece(s).base = base /\ PeerPiece(s).log = Logs[s]
      /\ Len(PeerPiece(s).log) = len
      /\ EntriesPiece(m) \in PieceSet /\ EntriesPiece(m).base = prev
      /\ EntriesPiece(m).log = Carried(m)
  BY Zenon, <1>1, PeerPieceFields, EntriesPieceFields
<1>4. prev \in Span(PeerPiece(s))
  <2>1. base <= prev /\ prev <= base + len - 1
    BY <1>2
  <2>2. End(PeerPiece(s)) = base + len - 1
    BY Zenon, <1>3 DEF End
  <2> QED
    BY Zenon, <1>3, <2>1, <2>2, PieceFacts
<1>5. Entry(PeerPiece(s), prev) = Logs[s][d + 1]
  BY Zenon, <1>2, <1>3 DEF Entry
<1>6. prev \in Span(EntriesPiece(m))
  BY <1>3, PieceFacts
<1>7. Entry(EntriesPiece(m), prev).Term = m.PrevLogTerm
  <2>1. prev - prev + 1 = 1
    OBVIOUS
  <2>2. Entry(EntriesPiece(m), prev) = Carried(m)[1]
    BY Zenon, <1>3, <2>1 DEF Entry
  <2>3. Carried(m)[1].Term = m.PrevLogTerm
    BY Zenon, CarriedFacts
  <2> QED
    BY Zenon, <2>2, <2>3
<1> QED
  BY Zenon, <1>1, <1>4, <1>5, <1>6, <1>7

\* The back-off information of a failed consistency check: a term of the log
\* and an index above 0 and not above PrevLogIndex.
LEMMA MismatchBounds ==
  ASSUME Counting, TypeOK, NEW s \in Server, NEW m \in Message, m.type = "ApplyEntries",
         WellFormed(PeerPiece(s)), WellFormed(EntriesPiece(m)), ~ReplicateCheck(s, m)
  PROVE  Answers(Mismatch(s, m), m)
<1>1. PICK base \in Nat, prev \in Nat, log \in Log :
        base = lastIncludedIndex[s] /\ prev = m.PrevLogIndex /\ log = Logs[s]
  BY Zenon, PeerFacts, ApplyEntriesFields
<1>2. Len(log) \in Nat \ {0} /\ m.Term \in Nat
  BY Zenon, <1>1, LogFacts, ApplyEntriesFields
<1>3. PICK d \in Int, xlen \in Nat : d = prev - base /\ xlen = Len(log) + base
  BY <1>2
<1>4. /\ RealIndex(s, m.PrevLogIndex) = d
      /\ RaftIndex(s, Len(Logs[s])) = xlen
  BY Zenon, <1>1, <1>3 DEF RealIndex, RaftIndex
<1>5. CASE d < 0
  <2>1. Mismatch(s, m) = ApplyEntriesReply(m, m.Term, TRUE, 0, 0, 0)
    BY Zenon, <1>4, <1>5 DEF Mismatch
  <2> QED
    <3>1. /\ Mismatch(s, m).dst = m.src /\ Mismatch(s, m).ArgsTerm = m.Term
          /\ Mismatch(s, m).PrevLogIndex = m.PrevLogIndex
          /\ Mismatch(s, m).Count = Len(m.Entries)
          /\ Mismatch(s, m).Term = m.Term /\ Mismatch(s, m).Success = TRUE
      BY <2>1 DEF ApplyEntriesReply
    <3> QED
      BY Zenon, <3>1, AnswersFields
<1>6. CASE ~(d < 0) /\ d >= Len(log)
  <2>1. Mismatch(s, m) = ApplyEntriesReply(m, m.Term, FALSE, 0, InvalidIndex, xlen)
    BY Zenon, <1>1, <1>4, <1>6 DEF Mismatch
  <2>2. xlen \in 1 .. prev
    BY <1>2, <1>3, <1>6
  <2>3. /\ Mismatch(s, m).dst = m.src /\ Mismatch(s, m).ArgsTerm = m.Term
        /\ Mismatch(s, m).PrevLogIndex = m.PrevLogIndex
        /\ Mismatch(s, m).Count = Len(m.Entries)
        /\ Mismatch(s, m).Term = m.Term /\ Mismatch(s, m).Success = FALSE
        /\ Mismatch(s, m).XIndex = InvalidIndex /\ Mismatch(s, m).XLen = xlen
    BY <2>1 DEF ApplyEntriesReply
  <2>4. Mismatch(s, m).XLen \in 1 .. Mismatch(s, m).PrevLogIndex
    BY Zenon, <1>1, <2>2, <2>3
  <2> QED
    BY Zenon, <2>3, <2>4, AnswersFields
<1>7. CASE d \in Nat /\ d < Len(log)
  <2> DEFINE xterm == log[d + 1].Term
             first == findFirstIndex(log, xterm)
  <2>1. Mismatch(s, m) = ApplyEntriesReply(m, m.Term, FALSE, xterm, first + base, xlen)
    <3>1. ~(d < 0) /\ ~(d >= Len(log))
      BY <1>2, <1>7
    <3>2. RaftIndex(s, first) = first + base /\ At(log, d).Term = xterm
      BY Zenon, <1>1 DEF RaftIndex, At
    <3> HIDE DEF xterm
    <3> QED
      BY Zenon, <1>1, <1>4, <3>1, <3>2 DEF Mismatch
  <2>2. xterm # m.PrevLogTerm
    <3>1. d \in 0 .. Len(log) - 1
      BY <1>2, <1>7
    <3> QED
      BY Zenon, <1>1, <1>4, <3>1 DEF ReplicateCheck, At
  <2>3. d + 1 \in 1 .. Len(log) /\ (d + 1) - 1 = d
    BY <1>2, <1>7
  <2>4. xterm \in Nat /\ log[1].Term \in Nat
    BY <1>1, <1>2, <2>3, LogFacts, EntryFields
  <2>5. /\ prev \in Span(PeerPiece(s)) /\ Entry(PeerPiece(s), prev).Term = xterm
        /\ prev \in Span(EntriesPiece(m)) /\ Entry(EntriesPiece(m), prev).Term = m.PrevLogTerm
    BY Zenon, <1>1, <1>3, <1>7, PreviousEntry
  <2>6. xterm > 0
    BY <2>2, <2>4, <2>5 DEF WellFormed
  <2>7. Sorted(log)
    BY Zenon, <1>1, PeerPieceFields DEF WellFormed
  <2>8. base = 0 => log[1].Term = 0
    <3>1. /\ PeerPiece(s) \in PieceSet /\ PeerPiece(s).base = base /\ PeerPiece(s).log = log
      BY Zenon, <1>1, PeerPieceFields
    <3>2. base \in Span(PeerPiece(s))
      BY <3>1, PieceFacts
    <3>3. base - base + 1 = 1
      OBVIOUS
    <3>4. Entry(PeerPiece(s), base) = log[1]
      BY Zenon, <3>1, <3>3 DEF Entry
    <3> QED
      BY Zenon, <3>2, <3>4 DEF WellFormed
  <2>9. first \in Nat /\ first <= d /\ (log[1].Term < xterm => first >= 1)
    BY Zenon, <1>1, <2>3, <2>7, FirstOfTerm
  <2> HIDE DEF first, xterm
  <2>10. first + base \in 1 .. prev
    <3>1. first + base <= prev
      BY <1>3, <1>7, <2>9
    <3>2. first + base >= 1
      BY <2>4, <2>6, <2>8, <2>9
    <3> QED
      BY <2>9, <3>1, <3>2
  <2>11. /\ Mismatch(s, m).dst = m.src /\ Mismatch(s, m).ArgsTerm = m.Term
         /\ Mismatch(s, m).PrevLogIndex = m.PrevLogIndex
         /\ Mismatch(s, m).Count = Len(m.Entries)
         /\ Mismatch(s, m).Term = m.Term /\ Mismatch(s, m).Success = FALSE
         /\ Mismatch(s, m).XTerm = xterm /\ Mismatch(s, m).XIndex = first + base
    BY <2>1 DEF ApplyEntriesReply
  <2>12. /\ Mismatch(s, m).XTerm > 0
         /\ Mismatch(s, m).XIndex \in 1 .. Mismatch(s, m).PrevLogIndex
    BY Zenon, <1>1, <2>6, <2>10, <2>11
  <2> QED
    BY Zenon, <2>11, <2>12, AnswersFields
<1> QED
  BY <1>2, <1>5, <1>6, <1>7

\* ApplyEntries adds no message but an answer to its request.
LEMMA ApplyEntriesAnswers ==
  ASSUME Counting, TypeOK, PiecesInv, NEW k \in DOMAIN messages, ApplyEntries(k),
         NEW m \in DOMAIN messages', m \notin DOMAIN messages
  PROVE  Answers(m, k)
<1> DEFINE s == k.dst
<1>1. k \in Message /\ k.type = "ApplyEntries"
  BY Zenon DEF TypeOK, ApplyEntries
<1>2. s \in Server /\ k.Term \in Nat
  BY Zenon, <1>1, ApplyEntriesFields
<1>3. CurrentTerm[s] \in Nat
  BY Zenon, <1>2, PeerFacts
<1>4. WellFormed(PeerPiece(s)) /\ WellFormed(EntriesPiece(k))
  BY Zenon, <1>1, <1>2 DEF PiecesInv, Pieces, Sent
<1> HIDE DEF s
<1>5. CASE /\ k.Term < CurrentTerm[s]
           /\ Reply(k, ApplyEntriesReply(k, CurrentTerm[s], FALSE, 0, 0, 0))
  <2>1. m = ApplyEntriesReply(k, CurrentTerm[s], FALSE, 0, 0, 0)
    BY Zenon, <1>5, ReplyDomain
  <2>2. /\ m.dst = k.src /\ m.ArgsTerm = k.Term /\ m.PrevLogIndex = k.PrevLogIndex
        /\ m.Count = Len(k.Entries) /\ m.Term = CurrentTerm[s] /\ m.Success = FALSE
    BY Zenon, <2>1 DEF ApplyEntriesReply
  <2>3. m.Term >= m.ArgsTerm /\ m.Term # m.ArgsTerm
    BY <1>2, <1>3, <1>5, <2>2
  <2> QED
    BY Zenon, <2>2, <2>3 DEF Answers
<1>6. CASE ~ReplicateCheck(s, k) /\ Reply(k, Mismatch(s, k))
  <2>1. m = Mismatch(s, k)
    BY Zenon, <1>6, ReplyDomain
  <2> QED
    BY Zenon, <1>1, <1>2, <1>4, <1>6, <2>1, MismatchBounds
<1>7. CASE Reply(k, ApplyEntriesReply(k, k.Term, TRUE, 0, 0, 0))
  <2>1. m = ApplyEntriesReply(k, k.Term, TRUE, 0, 0, 0)
    BY Zenon, <1>7, ReplyDomain
  <2>2. /\ m.dst = k.src /\ m.ArgsTerm = k.Term /\ m.PrevLogIndex = k.PrevLogIndex
        /\ m.Count = Len(k.Entries) /\ m.Term = k.Term /\ m.Success = TRUE
    BY Zenon, <2>1 DEF ApplyEntriesReply
  <2> QED
    BY Zenon, <1>1, <2>2, AnswersFields
<1> QED
  BY Zenon, <1>5, <1>6, <1>7 DEF ApplyEntries, s

\* Where a leader's replies come from.
LEMMA NextReplies ==
  ASSUME Counting, TypeOK, PiecesInv, [Next]_vars,
         NEW m \in DOMAIN messages', m \notin DOMAIN messages,
         m.type \in {"ApplyEntriesReply", "InstallSnapshotReply"}
  PROVE  \E k \in DOMAIN messages :
           \/ /\ m.type = "ApplyEntriesReply" /\ k.type = "ApplyEntries" /\ Answers(m, k)
           \/ /\ m.type = "InstallSnapshotReply" /\ k.type = "InstallSnapshot" /\ k.live
              /\ m.dst = k.src /\ m.LastIncludedIndex = k.LastIncludedIndex
              /\ InstallSnapshot(k)
<1>1. CASE UNCHANGED vars
  BY Zenon, <1>1 DEF vars
<1>2. ASSUME NEW s \in Server, ElectionTimeout(s) PROVE FALSE
  <2> DEFINE ms == {[type |-> "RequestVote", src |-> s, dst |-> p, live |-> TRUE,
                     Term |-> CurrentTerm[s] + 1, LastLogIndex |-> LastLogIndex(s),
                     LastLogTerm |-> LastLogTerm(s)] : p \in Server \ {s}}
  <2>1. Send(ms)
    BY Zenon, <1>2 DEF ElectionTimeout
  <2>2. \A a, b, c, d, e, f : [type |-> "RequestVote", src |-> a, dst |-> b, live |-> c,
           Term |-> d, LastLogIndex |-> e, LastLogTerm |-> f].type = "RequestVote"
    BY Zenon
  <2>3. ASSUME NEW k \in ms PROVE k.type = "RequestVote"
    <3>1. PICK p \in Server \ {s} :
            k = [type |-> "RequestVote", src |-> s, dst |-> p, live |-> TRUE,
                 Term |-> CurrentTerm[s] + 1, LastLogIndex |-> LastLogIndex(s),
                 LastLogTerm |-> LastLogTerm(s)]
      BY Zenon
    <3> QED
      BY Zenon, <2>2, <3>1
  <2> HIDE DEF ms
  <2>4. m \in ms
    BY Zenon, <2>1, SendDomain
  <2>5. m.type = "RequestVote"
    BY Zenon, <2>3, <2>4
  <2> QED
    BY Zenon, <2>5
<1>3. ASSUME NEW s \in Server, HeartbeatTimeout(s) \/ \E c \in Submits(s) : Start(s, c)
      PROVE  FALSE
  <2>1. PICK log : sendHeartBeat(s, log)
    BY Zenon, <1>3 DEF HeartbeatTimeout, Start
  <2>2. PICK p \in Server : m = HeartBeatTo(s, p, log)
    BY <2>1, SendDomain DEF sendHeartBeat
  <2>3. HeartBeatTo(s, p, log).type \in {"ApplyEntries", "InstallSnapshot"}
    <3>1. \A a, b, c, d, e, f, g :
            [type |-> "InstallSnapshot", src |-> a, dst |-> b, live |-> c, Term |-> d,
             LastIncludedIndex |-> e, LastIncludedTerm |-> f, Data |-> g].type = "InstallSnapshot"
      BY Zenon
    <3>2. \A a, b, c, d, e, f, g, h :
            [type |-> "ApplyEntries", src |-> a, dst |-> b, live |-> c, Term |-> d, LeaderCommit |-> e,
             PrevLogIndex |-> f, PrevLogTerm |-> g, Entries |-> h].type = "ApplyEntries"
      BY Zenon
    <3> QED
      BY Zenon, <3>1, <3>2 DEF HeartBeatTo
  <2> QED
    BY Zenon, <2>2, <2>3
<1>4. ASSUME NEW s \in Server,
             \/ LeaderTimerExpires(s) \/ applyLog(s)
             \/ \E x \in 1 .. Len(applied[s]) : Snapshot(s, x)
      PROVE  FALSE
  BY Zenon, <1>4 DEF LeaderTimerExpires, applyLog, Snapshot
<1>5. ASSUME NEW s \in Server, Crash(s) PROVE FALSE
  <2>1. PICK k \in DOMAIN messages : m = Orphan(k, s)
    BY Zenon, <1>5, CutOffMessages DEF Crash, TypeOK, MessagesOK
  <2>2. k \in Message
    BY Zenon DEF TypeOK
  <2>3. m.type = k.type /\ (~IsRequest(k) => m = k)
    BY Zenon, <2>1, <2>2, OrphanMessage
  <2> QED
    BY Zenon, <2>3 DEF IsRequest
<1>6. ASSUME NEW k \in DOMAIN messages,
             OnRequestVoteReply(k) \/ OnApplyEntriesReply(k) \/ OnInstallSnapshotReply(k)
      PROVE  FALSE
  <2>1. Receive(k)
    BY Zenon, <1>6 DEF OnRequestVoteReply, OnApplyEntriesReply, OnInstallSnapshotReply
  <2> QED
    BY Zenon, <2>1 DEF Receive, Without
<1>7. ASSUME NEW k \in DOMAIN messages, RequestVote(k) PROVE FALSE
  <2>1. PICK t, g : Reply(k, RequestVoteReply(k, t, g))
    BY Zenon, <1>7 DEF RequestVote
  <2>2. m = RequestVoteReply(k, t, g)
    BY Zenon, <2>1, ReplyDomain
  <2>3. m.type = "RequestVoteReply"
    BY Zenon, <2>2 DEF RequestVoteReply
  <2> QED
    BY Zenon, <2>3
<1>8. ASSUME NEW k \in DOMAIN messages, ApplyEntries(k)
      PROVE  m.type = "ApplyEntriesReply" /\ k.type = "ApplyEntries" /\ Answers(m, k)
  <2>1. k.type = "ApplyEntries" /\ Answers(m, k)
    BY Zenon, <1>8, ApplyEntriesAnswers DEF ApplyEntries
  <2>2. \A a, b, c, d, e : ApplyEntriesReply(k, a, b, c, d, e).type = "ApplyEntriesReply"
    BY Zenon DEF ApplyEntriesReply
  <2>3. \E a, b, c, d, e : Mismatch(k.dst, k) = ApplyEntriesReply(k, a, b, c, d, e)
    BY Zenon DEF Mismatch
  <2>4. PICK r : Reply(k, r) /\ r.type = "ApplyEntriesReply"
    <3>1. CASE Reply(k, Mismatch(k.dst, k))
      BY Zenon, <2>2, <2>3, <3>1
    <3>2. CASE \E a, b, c, d, e : Reply(k, ApplyEntriesReply(k, a, b, c, d, e))
      BY Zenon, <2>2, <3>2
    <3> QED
      BY Zenon, <1>8, <3>1, <3>2 DEF ApplyEntries
  <2> QED
    BY Zenon, <2>1, <2>4, ReplyDomain
<1>9. ASSUME NEW k \in DOMAIN messages, InstallSnapshot(k)
      PROVE  /\ m.type = "InstallSnapshotReply" /\ k.type = "InstallSnapshot" /\ k.live
             /\ m.dst = k.src /\ m.LastIncludedIndex = k.LastIncludedIndex
  <2>1. PICK t : Reply(k, InstallSnapshotReply(k, t))
    BY Zenon, <1>9 DEF InstallSnapshot
  <2>2. m = InstallSnapshotReply(k, t) /\ k.live
    BY Zenon, <2>1, ReplyDomain
  <2>3. /\ m.type = "InstallSnapshotReply" /\ m.dst = k.src
        /\ m.LastIncludedIndex = k.LastIncludedIndex
    BY Zenon, <2>2 DEF InstallSnapshotReply
  <2>4. k.type = "InstallSnapshot"
    BY Zenon, <1>9 DEF InstallSnapshot
  <2> QED
    BY Zenon, <2>2, <2>3, <2>4
<1> QED
  BY Zenon, <1>1, <1>2, <1>3, <1>4, <1>5, <1>6, <1>7, <1>8, <1>9 DEF Next

\* A crash of s leaves no reply to s, and nobody waits for one.
LEMMA CrashMessages ==
  ASSUME TypeOK, NEW s \in Server, Crash(s), NEW m \in DOMAIN messages'
  PROVE  \E k \in DOMAIN messages :
           /\ k \in Message /\ m = Orphan(k, s) /\ m.type = k.type
           /\ m.src = k.src /\ m.Term = k.Term
           /\ ~IsRequest(k) => m = k /\ m.dst # s
<1> DEFINE D == {Orphan(k, s) : k \in {k \in DOMAIN messages : IsRequest(k) \/ k.dst # s}}
           F(k) == IF IsRequest(k) /\ k.src = s
                   THEN Copies(k) + Copies([k EXCEPT !.live = TRUE])
                   ELSE messages[k]
<1>1. messages' = [k \in D |-> F(k)]
  BY Zenon DEF Crash, CutOff
<1> HIDE DEF F
<1>2. m \in D
  BY Zenon, <1>1
<1>3. PICK k \in DOMAIN messages : (IsRequest(k) \/ k.dst # s) /\ m = Orphan(k, s)
  BY Zenon, <1>2
<1>4. k \in Message
  BY Zenon DEF TypeOK
<1> QED
  BY Zenon, <1>3, <1>4, OrphanMessage

\* A leader that waits for the answer to a snapshot still has it or a later one.
LEMMA SnapshotRequestsStep ==
  ASSUME Counting, TypeOK, TypeOK', PiecesInv, SnapshotsInv, RequestsInv, [Next]_vars
  PROVE  /\ \A m \in Sent("InstallSnapshot")' :
              m.live => m.LastIncludedIndex <= lastIncludedIndex'[m.src]
         /\ \A m \in Sent("InstallSnapshotReply")' :
              m.LastIncludedIndex <= lastIncludedIndex'[m.dst]
<1>0. /\ \A v \in Server : lastIncludedIndex[v] \in Nat /\ lastIncludedIndex'[v] \in Nat
      /\ \A v \in Server : ~Crash(v) => lastIncludedIndex[v] <= lastIncludedIndex'[v]
      /\ DOMAIN messages \subseteq Message
  BY Zenon, SnapshotForward DEF TypeOK
<1>1. ASSUME NEW k \in DOMAIN messages, k.type = "InstallSnapshot", k.live, ~Crash(k.src)
      PROVE  k.LastIncludedIndex <= lastIncludedIndex'[k.src]
  <2>1. k.src \in Server /\ k.LastIncludedIndex \in Nat
    BY Zenon, <1>0, <1>1, InstallSnapshotFields
  <2>2. k.LastIncludedIndex <= lastIncludedIndex[k.src]
    BY Zenon, <1>1 DEF RequestsInv, Sent
  <2> QED
    BY <1>0, <1>1, <2>1, <2>2
<1>2. ASSUME NEW k \in DOMAIN messages, k.type = "InstallSnapshotReply", ~Crash(k.dst)
      PROVE  k.LastIncludedIndex <= lastIncludedIndex'[k.dst]
  <2>1. k.dst \in Server /\ k.LastIncludedIndex \in Nat
    BY Zenon, <1>0, <1>2, InstallSnapshotReplyFields
  <2>2. k.LastIncludedIndex <= lastIncludedIndex[k.dst]
    BY Zenon, <1>2 DEF RequestsInv, Sent
  <2> QED
    BY <1>0, <1>2, <2>1, <2>2
<1>3. CASE \A s \in Server : ~Crash(s)
  <2>0. \A k \in DOMAIN messages : ~Crash(k.src) /\ ~Crash(k.dst)
    BY Zenon, <1>0, <1>3, MessageEnds
  <2>1. ASSUME NEW m \in DOMAIN messages', m.type = "InstallSnapshot", m.live
        PROVE  m.LastIncludedIndex <= lastIncludedIndex'[m.src]
    <3>1. CASE m \in DOMAIN messages
      BY Zenon, <1>1, <2>0, <2>1, <3>1
    <3>2. CASE m \notin DOMAIN messages
      <4>1. PICK s \in Server : ShowsLog(s, m)'
        BY Zenon, <1>3, <2>1, <3>2, NextSent
      <4>2. m.src = s /\ m.LastIncludedIndex = lastIncludedIndex'[s]
        BY Zenon, <2>1, <4>1 DEF ShowsLog
      <4> QED
        BY <1>0, <4>2
    <3> QED
      BY Zenon, <3>1, <3>2
  <2>2. ASSUME NEW m \in DOMAIN messages', m.type = "InstallSnapshotReply"
        PROVE  m.LastIncludedIndex <= lastIncludedIndex'[m.dst]
    <3>1. CASE m \in DOMAIN messages
      BY Zenon, <1>2, <2>0, <2>2, <3>1
    <3>2. CASE m \notin DOMAIN messages
      <4>1. PICK k \in DOMAIN messages :
              /\ k.type = "InstallSnapshot" /\ k.live
              /\ m.dst = k.src /\ m.LastIncludedIndex = k.LastIncludedIndex
        BY Zenon, <2>2, <3>2, NextReplies
      <4> QED
        BY Zenon, <1>1, <2>0, <4>1
    <3> QED
      BY Zenon, <3>1, <3>2
  <2> QED
    BY Zenon, <2>1, <2>2 DEF Sent
<1>4. ASSUME NEW s \in Server, Crash(s), NEW m \in DOMAIN messages'
      PROVE  /\ m.type = "InstallSnapshot" /\ m.live =>
                  m.LastIncludedIndex <= lastIncludedIndex'[m.src]
             /\ m.type = "InstallSnapshotReply" =>
                  m.LastIncludedIndex <= lastIncludedIndex'[m.dst]
  <2>0. \A v \in Server : v # s => lastIncludedIndex'[v] = lastIncludedIndex[v]
    <3>1. lastIncludedIndex' =
            [lastIncludedIndex EXCEPT ![s] = persister[s].lastIncludedIndex]
      BY Zenon, <1>4 DEF Crash
    <3>2. DOMAIN lastIncludedIndex = Server
      BY Zenon DEF TypeOK
    <3> QED
      BY Zenon, <3>1, <3>2
  <2>1. PICK k \in DOMAIN messages :
          /\ k \in Message /\ m = Orphan(k, s) /\ m.type = k.type
          /\ m.src = k.src /\ m.Term = k.Term
          /\ ~IsRequest(k) => m = k /\ m.dst # s
    BY Zenon, <1>4, CrashMessages
  <2>2. CASE m.type = "InstallSnapshot" /\ m.live
    <3>0. ASSUME k.src = s PROVE FALSE
      <4>1. k.type = "InstallSnapshot" /\ IsRequest(k)
        BY Zenon, <2>1, <2>2 DEF IsRequest
      <4>2. m = [k EXCEPT !.live = FALSE]
        BY Zenon, <2>1, <3>0, <4>1 DEF Orphan
      <4>3. m.live = FALSE
        BY Zenon, <2>1, <4>1, <4>2, InstallSnapshotFields
      <4> QED
        BY Zenon, <2>2, <4>3
    <3>1. m.src # s /\ m = k /\ k.live
      BY Zenon, <2>1, <2>2, <3>0 DEF Orphan
    <3>2. k.LastIncludedIndex <= lastIncludedIndex[k.src]
      BY Zenon, <2>1, <2>2, <3>1 DEF RequestsInv, Sent
    <3>3. lastIncludedIndex'[k.src] = lastIncludedIndex[k.src]
      BY Zenon, <2>0, <2>1, <3>1, MessageEnds
    <3> QED
      BY Zenon, <2>1, <2>2, <3>1, <3>2, <3>3
  <2>3. CASE m.type = "InstallSnapshotReply"
    <3>1. m = k /\ m.dst # s
      BY Zenon, <2>1, <2>3 DEF IsRequest
    <3>2. m.LastIncludedIndex <= lastIncludedIndex[m.dst]
      BY Zenon, <2>3, <3>1 DEF RequestsInv, Sent
    <3>3. lastIncludedIndex'[m.dst] = lastIncludedIndex[m.dst]
      BY Zenon, <2>0, <2>1, <3>1, MessageEnds
    <3> QED
      BY Zenon, <2>3, <3>2, <3>3
  <2> QED
    BY Zenon, <2>2, <2>3
<1> QED
  BY Zenon, <1>3, <1>4 DEF Sent

-----------------------------------------------------------------------------
(***************************************************************************)
(* Where a leader goes back to.                                            *)
(***************************************************************************)

\* A leader that was the leader of a term not before its own is in that term.
LEMMA LeaderOfTerm ==
  ASSUME TypeOK, LeadersInv, NEW s \in Server, NEW t \in Nat, identity[s] = "LEADER",
         <<s, t>> \in leaders, t >= CurrentTerm[s]
  PROVE  Leads(s, t)
<1>1. CurrentTerm[s] \in Nat
  BY Zenon, PeerFacts
<1>2. persister[s].CurrentTerm = CurrentTerm[s]
  BY Zenon DEF LeadersInv
<1>3. t <= persister[s].CurrentTerm
  <2>1. <<s, t>>[1] = s /\ <<s, t>>[2] = t
    BY Zenon
  <2> QED
    BY Zenon, <2>1 DEF LeadersInv
<1>4. t = CurrentTerm[s]
  BY <1>1, <1>2, <1>3
<1> QED
  BY Zenon, <1>4 DEF Leads

\* A leader backs off to an index of its log.
LEMMA BackOffBounds ==
  ASSUME Counting, TypeOK, NEW s \in Server, NEW m \in Message, m.type = "ApplyEntriesReply",
         WellFormed(PeerPiece(s)), m.PrevLogIndex <= LastLogIndex(s),
         \/ m.XIndex = InvalidIndex /\ m.XLen \in 1 .. m.PrevLogIndex
         \/ m.XTerm > 0 /\ m.XIndex \in 1 .. m.PrevLogIndex
  PROVE  BackOff(s, m) \in 1 .. LastLogIndex(s) + 1
<1>1. PICK base \in Nat, prev \in Nat, last \in Nat, xterm \in Nat, log \in Log :
        /\ base = lastIncludedIndex[s] /\ prev = m.PrevLogIndex /\ log = Logs[s]
        /\ last = LastLogIndex(s) /\ xterm = m.XTerm
  BY Zenon, PeerFacts, LastLogType, ApplyEntriesReplyFields
<1>2. /\ Len(log) \in Nat \ {0} /\ DOMAIN log = 1 .. Len(log)
      /\ \A i \in 1 .. Len(log) : log[i].Term \in Nat
  BY Zenon, LogFacts, EntryFields
<1>3. last = Len(log) - 1 + base /\ prev <= last
  BY Zenon, <1>1 DEF LastLogIndex, RaftIndex
<1>4. CASE m.XIndex = InvalidIndex /\ m.XLen \in 1 .. m.PrevLogIndex
  <2>1. BackOff(s, m) = m.XLen
    BY Zenon, <1>4 DEF BackOff
  <2>2. m.XLen \in 1 .. prev
    BY Zenon, <1>1, <1>4
  <2>3. m.XLen \in 1 .. last + 1
    BY <1>3, <2>2
  <2> QED
    BY Zenon, <1>1, <2>1, <2>3
<1>5. CASE m.XTerm > 0 /\ m.XIndex \in 1 .. m.PrevLogIndex
  <2> DEFINE index == findFirstIndex(log, xterm)
             above == findFirstIndex(log, xterm + 1)
  <2>0. m.XIndex \in 1 .. prev /\ m.XIndex # InvalidIndex /\ xterm > 0
    BY <1>1, <1>5 DEF InvalidIndex
  <2>1. CASE index = Len(log) \/ At(log, index).Term # xterm
    <3>1. BackOff(s, m) = m.XIndex
      BY Zenon, <1>1, <2>0, <2>1 DEF BackOff
    <3>2. m.XIndex \in 1 .. last + 1
      BY <1>3, <2>0
    <3> QED
      BY Zenon, <1>1, <3>1, <3>2
  <2>2. CASE index # Len(log) /\ At(log, index).Term = xterm
    <3>1. BackOff(s, m) = (above - 1) + base
      BY Zenon, <1>1, <2>0, <2>2 DEF BackOff, RaftIndex
    <3>2. index \in 0 .. Len(log) /\ above \in 0 .. Len(log)
      BY Zenon, FindFirstIndexType
    <3>3. index + 1 \in 1 .. Len(log) /\ log[index + 1].Term = xterm
      BY <1>2, <2>2, <3>2 DEF At
    <3>4. Sorted(log)
      BY Zenon, <1>1, PeerPieceFields DEF WellFormed
    <3>5. above >= index + 1
      BY Zenon, <3>3, <3>4, AfterTerm
    <3>6. base = 0 => log[1].Term = 0
      <4>1. /\ PeerPiece(s) \in PieceSet /\ PeerPiece(s).base = base
            /\ PeerPiece(s).log = log
        BY Zenon, <1>1, PeerPieceFields
      <4>2. base \in Span(PeerPiece(s))
        BY <4>1, PieceFacts
      <4>3. base - base + 1 = 1
        OBVIOUS
      <4>4. Entry(PeerPiece(s), base) = log[1]
        BY Zenon, <4>1, <4>3 DEF Entry
      <4> QED
        BY Zenon, <4>2, <4>4 DEF WellFormed
    <3>7. base = 0 => index + 1 # 1
      BY <2>0, <3>3, <3>6
    <3> HIDE DEF index, above
    <3>8. (above - 1) + base >= 1
      BY <3>2, <3>3, <3>5, <3>7
    <3>9. (above - 1) + base <= last + 1
      BY <1>2, <1>3, <3>2
    <3>10. (above - 1) + base \in 1 .. last + 1
      BY <3>2, <3>8, <3>9
    <3> QED
      BY Zenon, <1>1, <3>1, <3>10
  <2> QED
    BY Zenon, <2>1, <2>2
<1> QED
  BY Zenon, <1>4, <1>5

\* What a leader makes of a reply: its log reaches what the reply is about.
LEMMA ReplyNextIndex ==
  ASSUME Counting, TypeOK, PiecesInv, LeadersInv, RequestsInv, NEW m \in DOMAIN messages,
         m.type = "ApplyEntriesReply", identity[m.dst] = "LEADER",
         m.Term >= CurrentTerm[m.dst], m.Term <= m.ArgsTerm
  PROVE  /\ LastSent(m) + 1 \in 1 .. LastLogIndex(m.dst) + 1
         /\ ~m.Success => BackOff(m.dst, m) \in 1 .. LastLogIndex(m.dst) + 1
<1> DEFINE s == m.dst
<1>1. m \in Message /\ m \in Sent("ApplyEntriesReply")
  BY Zenon DEF TypeOK, Sent
<1>2. /\ s \in Server /\ m.ArgsTerm \in Nat /\ m.Term \in Nat
      /\ m.PrevLogIndex \in Nat /\ m.Count \in Nat
  BY Zenon, <1>1, ApplyEntriesReplyFields
<1>3. /\ Reaches(s, m.ArgsTerm, m.PrevLogIndex + m.Count)
      /\ m.Term >= m.ArgsTerm
      /\ ~m.Success /\ m.Term = m.ArgsTerm =>
            \/ m.XIndex = InvalidIndex /\ m.XLen \in 1 .. m.PrevLogIndex
            \/ m.XTerm > 0 /\ m.XIndex \in 1 .. m.PrevLogIndex
  BY Zenon, <1>1 DEF RequestsInv
<1>4. CurrentTerm[s] \in Nat /\ LastLogIndex(s) \in Nat
  BY Zenon, <1>2, PeerFacts, LastLogType
<1>5. m.Term = m.ArgsTerm /\ m.ArgsTerm >= CurrentTerm[s]
  BY <1>2, <1>3, <1>4
<1>6. Leads(s, m.ArgsTerm)
  BY Zenon, <1>2, <1>3, <1>5, LeaderOfTerm DEF Reaches
<1>7. m.PrevLogIndex + m.Count <= LastLogIndex(s)
  BY Zenon, <1>3, <1>6 DEF Reaches
<1>8. LastSent(m) + 1 \in 1 .. LastLogIndex(s) + 1
  BY <1>2, <1>4, <1>7 DEF LastSent
<1>9. m.PrevLogIndex <= LastLogIndex(s)
  BY <1>2, <1>4, <1>7
<1>10. WellFormed(PeerPiece(s))
  BY Zenon, <1>2 DEF PiecesInv, Pieces
<1> QED
  BY Zenon, <1>1, <1>2, <1>3, <1>5, <1>8, <1>9, <1>10, BackOffBounds

-----------------------------------------------------------------------------
(***************************************************************************)
(* What a leader has said stays true.                                      *)
(***************************************************************************)

\* The history of leaders only grows.
LEMMA LeadersGrow ==
  ASSUME TypeOK, [Next]_vars
  PROVE  leaders \subseteq leaders'
BY Zenon, NewLeader

\* The new leader of a step was a candidate of its term.
LEMMA WinnerRole ==
  ASSUME TypeOK, [Next]_vars, NEW s \in Server, <<s, CurrentTerm[s]>> \notin leaders,
         <<s, CurrentTerm[s]>> \in leaders'
  PROVE  /\ identity[s] = "CANDIDATE" /\ identity'[s] = "LEADER"
         /\ CurrentTerm'[s] = CurrentTerm[s]
<1>1. ASSUME NEW m \in DOMAIN messages, OnRequestVoteReply(m)
      PROVE  /\ identity[s] = "CANDIDATE" /\ identity'[s] = "LEADER"
             /\ CurrentTerm'[s] = CurrentTerm[s]
  <2> DEFINE v == m.dst
  <2>1. m \in Message /\ m.type = "RequestVoteReply"
    BY Zenon, <1>1 DEF TypeOK, OnRequestVoteReply
  <2>2. v \in Server
    BY Zenon, <2>1, RequestVoteReplyFields
  <2>3. /\ identity[v] = "CANDIDATE"
        /\ identity' = [identity EXCEPT ![v] = "LEADER"]
        /\ leaders'  = leaders \cup {<<v, CurrentTerm[v]>>}
        /\ UNCHANGED CurrentTerm
    BY Zenon, <1>1 DEF OnRequestVoteReply
  <2> HIDE DEF v
  <2>4. s = v
    BY Zenon, <2>3
  <2> QED
    BY Zenon, <2>2, <2>3, <2>4 DEF TypeOK
<1>2. ASSUME NEW m \in DOMAIN messages, ~OnRequestVoteReply(m),
             \/ RequestVote(m) \/ ApplyEntries(m) \/ OnApplyEntriesReply(m)
             \/ InstallSnapshot(m) \/ OnInstallSnapshotReply(m)
      PROVE  leaders' = leaders
  BY Zenon, <1>2 DEF RequestVote, ApplyEntries, OnApplyEntriesReply, InstallSnapshot,
     OnInstallSnapshotReply, historyVars
<1>3. ASSUME NEW v \in Server,
             \/ ElectionTimeout(v) \/ LeaderTimerExpires(v) \/ HeartbeatTimeout(v)
             \/ applyLog(v) \/ Crash(v)
             \/ \E c \in Submits(v) : Start(v, c)
             \/ \E x \in 1 .. Len(applied[v]) : Snapshot(v, x)
      PROVE  leaders' = leaders
  BY Zenon, <1>3 DEF ElectionTimeout, LeaderTimerExpires, HeartbeatTimeout, applyLog, Crash,
     Start, Snapshot, historyVars
<1>4. CASE UNCHANGED vars
  BY Zenon, <1>4 DEF vars, historyVars
<1> QED
  BY Zenon, <1>1, <1>2, <1>3, <1>4 DEF Next

\* A leader was the leader of the same term before the step and its log did not
\* shrink, or nobody has led in its term before.
LEMMA LeaderStep ==
  ASSUME ElectionInv, ElectionInv', LeadersInv, [Next]_vars,
         NEW s \in Server, identity'[s] = "LEADER"
  PROVE  \/ /\ identity[s] = "LEADER"
            /\ CurrentTerm'[s] = CurrentTerm[s]
            /\ LastLogIndex(s) <= LastLogIndex(s)'
         \/ \A l \in leaders : l[2] # CurrentTerm'[s]
<1>0. TypeOK /\ LastLogIndex(s) \in Nat
  BY Zenon, LastLogType DEF ElectionInv
<1>1. RoleStep(s) /\ LogStep(s) /\ leaders \subseteq leaders'
  BY Zenon, <1>0, NextRole, NextLog, LeadersGrow
<1>2. CASE identity'[s] = identity[s] /\ CurrentTerm'[s] = CurrentTerm[s]
  <2>1. LastLogIndex(s) <= LastLogIndex(s)'
    <3>1. CASE Logs'[s] = Logs[s] /\ lastIncludedIndex'[s] = lastIncludedIndex[s]
      BY <1>0, <3>1 DEF LastLogIndex, RaftIndex
    <3> QED
      BY Zenon, <1>0, <1>1, <3>1 DEF LogStep
  <2> QED
    BY Zenon, <1>2, <2>1
<1>3. CASE /\ identity[s] = "CANDIDATE"
           /\ CurrentTerm'[s] = CurrentTerm[s]
           /\ <<s, CurrentTerm[s]>> \in leaders'
  <2>1. ASSUME NEW l \in leaders, l[2] = CurrentTerm[s] PROVE FALSE
    <3>1. l[1] = s
      BY Zenon, <1>1, <1>3, <2>1 DEF ElectionInv, ElectionSafety
    <3> QED
      BY Zenon, <1>3, <2>1, <3>1 DEF LeadersInv
  <2> QED
    BY Zenon, <1>3, <2>1
<1> QED
  BY Zenon, <1>1, <1>2, <1>3 DEF RoleStep

\* What a leader's log reached, it still reaches as long as it is the leader.
LEMMA ReachesStable ==
  ASSUME ElectionInv, ElectionInv', LeadersInv, [Next]_vars,
         NEW s \in Server, NEW t, NEW n \in Nat, Reaches(s, t, n)
  PROVE  Reaches(s, t, n)'
<1>1. leaders \subseteq leaders' /\ LastLogIndex(s) \in Nat
  BY Zenon, LeadersGrow, LastLogType DEF ElectionInv
<1>2. LastLogIndex(s)' \in Nat
  BY Zenon, LastLogNatNext DEF ElectionInv
<1>3. ASSUME Leads(s, t)' PROVE n <= LastLogIndex(s)'
  <2>1. identity'[s] = "LEADER" /\ CurrentTerm'[s] = t
    BY Zenon, <1>3 DEF Leads
  <2>2. CASE \A l \in leaders : l[2] # CurrentTerm'[s]
    BY Zenon, <2>1, <2>2 DEF Reaches
  <2>3. CASE /\ identity[s] = "LEADER"
             /\ CurrentTerm'[s] = CurrentTerm[s]
             /\ LastLogIndex(s) <= LastLogIndex(s)'
    BY <1>1, <1>2, <2>1, <2>3 DEF Reaches, Leads
  <2> QED
    BY Zenon, <2>1, <2>2, <2>3, LeaderStep
<1> QED
  BY Zenon, <1>1, <1>3 DEF Reaches

\* Entries stay created.
LEMMA CreatedStable ==
  ASSUME ElectionInv, ElectionInv', LeadersInv, [Next]_vars,
         NEW p \in PieceSet, Created(p)
  PROVE  Created(p)'
<1> SUFFICES ASSUME NEW i \in p.base + 1 .. End(p)
             PROVE  /\ \E l \in leaders' : l[2] = Entry(p, i).Term
                    /\ \A s \in Server : Leads(s, Entry(p, i).Term)' => i <= LastLogIndex(s)'
  BY Zenon DEF Created
<1>1. PICK l \in leaders : l[2] = Entry(p, i).Term
  BY Zenon DEF Created
<1>2. l \in leaders'
  BY Zenon, LeadersGrow DEF ElectionInv
<1>3. i \in Nat
  BY PieceFacts
<1>4. ASSUME NEW s \in Server, Leads(s, Entry(p, i).Term)' PROVE i <= LastLogIndex(s)'
  <2>1. identity'[s] = "LEADER" /\ CurrentTerm'[s] = Entry(p, i).Term
    BY Zenon, <1>4 DEF Leads
  <2>2. /\ identity[s] = "LEADER" /\ CurrentTerm'[s] = CurrentTerm[s]
        /\ LastLogIndex(s) <= LastLogIndex(s)'
    BY Zenon, <1>1, <2>1, LeaderStep
  <2>3. i <= LastLogIndex(s)
    BY Zenon, <2>1, <2>2 DEF Created, Leads
  <2>4. LastLogIndex(s) \in Nat /\ LastLogIndex(s)' \in Nat
    BY Zenon, LastLogType, LastLogNatNext DEF ElectionInv
  <2> QED
    BY <1>3, <2>2, <2>3, <2>4
<1> QED
  BY Zenon, <1>1, <1>2, <1>4

\* What the requests say about the leaders' logs stays true.
LEMMA RequestsStep ==
  ASSUME ElectionInv, ElectionInv', LeadersInv, LeadersInv', RequestsInv, [Next]_vars,
         NEW m \in Sent("ApplyEntries")'
  PROVE  Reaches(m.src, m.Term, m.PrevLogIndex + Len(m.Entries))'
<1>0. TypeOK /\ TypeOK' /\ m \in DOMAIN messages' /\ m.type = "ApplyEntries"
  BY Zenon DEF ElectionInv, Sent
<1>1. ASSUME NEW k \in DOMAIN messages, k.type = "ApplyEntries"
      PROVE  Reaches(k.src, k.Term, k.PrevLogIndex + Len(k.Entries))'
  <2>1. k \in Message /\ Reaches(k.src, k.Term, k.PrevLogIndex + Len(k.Entries))
    BY Zenon, <1>0, <1>1 DEF RequestsInv, Sent, TypeOK
  <2>2. k.src \in Server /\ k.PrevLogIndex \in Nat /\ Len(k.Entries) \in Nat
    <3>1. k.src \in Server /\ k.PrevLogIndex \in Nat /\ k.Entries \in Seq(LogEntry)
      BY Zenon, <1>1, <2>1, ApplyEntriesFields
    <3> QED
      BY <3>1
  <2>3. k.PrevLogIndex + Len(k.Entries) \in Nat
    BY <2>2
  <2> QED
    BY Zenon, <2>1, <2>2, <2>3, ReachesStable
<1>2. CASE m \in DOMAIN messages
  BY Zenon, <1>0, <1>1, <1>2
<1>3. ASSUME NEW s \in Server, Crash(s)
      PROVE  Reaches(m.src, m.Term, m.PrevLogIndex + Len(m.Entries))'
  <2>1. PICK k \in DOMAIN messages : /\ k \in Message /\ m = Orphan(k, s) /\ m.type = k.type
                                     /\ m.src = k.src /\ m.Term = k.Term
    BY <1>0, <1>3, CrashMessages
  <2>2. m.PrevLogIndex = k.PrevLogIndex /\ m.Entries = k.Entries /\ k.type = "ApplyEntries"
    BY Zenon, <1>0, <2>1, OrphanPiece
  <2> QED
    BY Zenon, <1>1, <2>1, <2>2
<1>4. CASE m \notin DOMAIN messages /\ \A s \in Server : ~Crash(s)
  <2>1. PICK s \in Server : identity'[s] = "LEADER" /\ ShowsLog(s, m)'
    BY Zenon, <1>0, <1>4, NextSent
  <2>2. /\ m.src = s /\ m.Term = CurrentTerm'[s]
        /\ m.PrevLogIndex + Len(m.Entries) = LastLogIndex(s)'
    BY Zenon, <1>0, <2>1 DEF ShowsLog
  <2>3. <<s, CurrentTerm'[s]>> \in leaders'
    BY Zenon, <2>1 DEF LeadersInv
  <2>4. LastLogIndex(s)' <= LastLogIndex(s)'
    BY <1>0, LastLogNatNext
  <2> QED
    BY Zenon, <2>2, <2>3, <2>4 DEF Reaches
<1> QED
  BY Zenon, <1>2, <1>3, <1>4

\* What the replies say about the leaders' logs stays true.
LEMMA RepliesStep ==
  ASSUME Counting, ElectionInv, ElectionInv', PiecesInv, LeadersInv, RequestsInv, [Next]_vars,
         NEW m \in Sent("ApplyEntriesReply")'
  PROVE  /\ Reaches(m.dst, m.ArgsTerm, m.PrevLogIndex + m.Count)'
         /\ m.Term >= m.ArgsTerm
         /\ m.Success => m.Term = m.ArgsTerm
         /\ ~m.Success /\ m.Term = m.ArgsTerm =>
              \/ m.XIndex = InvalidIndex /\ m.XLen \in 1 .. m.PrevLogIndex
              \/ m.XTerm > 0 /\ m.XIndex \in 1 .. m.PrevLogIndex
<1>0. TypeOK /\ TypeOK' /\ m \in DOMAIN messages' /\ m.type = "ApplyEntriesReply"
  BY Zenon DEF ElectionInv, Sent
<1>1. CASE m \in DOMAIN messages
  <2>1. m \in Message /\ m \in Sent("ApplyEntriesReply")
    BY Zenon, <1>0, <1>1 DEF TypeOK, Sent
  <2>2. m.dst \in Server /\ m.PrevLogIndex \in Nat /\ m.Count \in Nat
    BY Zenon, <1>0, <2>1, ApplyEntriesReplyFields
  <2>3. m.PrevLogIndex + m.Count \in Nat
    BY <2>2
  <2>4. Reaches(m.dst, m.ArgsTerm, m.PrevLogIndex + m.Count)
    BY Zenon, <2>1 DEF RequestsInv
  <2>5. Reaches(m.dst, m.ArgsTerm, m.PrevLogIndex + m.Count)'
    BY Zenon, <2>2, <2>3, <2>4, ReachesStable
  <2> QED
    BY Zenon, <2>1, <2>5 DEF RequestsInv
<1>2. CASE m \notin DOMAIN messages
  <2>1. PICK k \in DOMAIN messages : k.type = "ApplyEntries" /\ Answers(m, k)
    BY Zenon, <1>0, <1>2, NextReplies
  <2>2. k \in Message /\ Reaches(k.src, k.Term, k.PrevLogIndex + Len(k.Entries))
    BY Zenon, <1>0, <2>1 DEF RequestsInv, Sent, TypeOK
  <2>3. k.src \in Server /\ k.PrevLogIndex \in Nat /\ Len(k.Entries) \in Nat
    BY <2>1, <2>2, ApplyEntriesFields
  <2>4. k.PrevLogIndex + Len(k.Entries) \in Nat
    BY <2>3
  <2>5. Reaches(k.src, k.Term, k.PrevLogIndex + Len(k.Entries))'
    BY Zenon, <2>2, <2>3, <2>4, ReachesStable
  <2>6. /\ m.dst = k.src /\ m.ArgsTerm = k.Term
        /\ m.PrevLogIndex = k.PrevLogIndex /\ m.Count = Len(k.Entries)
    BY Zenon, <2>1 DEF Answers
  <2>7. Reaches(m.dst, m.ArgsTerm, m.PrevLogIndex + m.Count)'
    BY Zenon, <2>5, <2>6
  <2> QED
    BY Zenon, <2>1, <2>7 DEF Answers
<1> QED
  BY Zenon, <1>1, <1>2

\* All of this stays true.
LEMMA RequestsInvStep ==
  ASSUME Counting, ElectionInv, ElectionInv', PiecesInv, SnapshotsInv, LeadersInv, LeadersInv',
         RequestsInv, [Next]_vars
  PROVE  RequestsInv'
<1>0. TypeOK /\ TypeOK'
  BY Zenon DEF ElectionInv
<1>1. \A m \in Sent("ApplyEntries")' :
        Reaches(m.src, m.Term, m.PrevLogIndex + Len(m.Entries))'
  BY Zenon, RequestsStep
<1>2. \A m \in Sent("ApplyEntriesReply")' :
        /\ Reaches(m.dst, m.ArgsTerm, m.PrevLogIndex + m.Count)'
        /\ m.Term >= m.ArgsTerm
        /\ m.Success => m.Term = m.ArgsTerm
        /\ ~m.Success /\ m.Term = m.ArgsTerm =>
             \/ m.XIndex = InvalidIndex /\ m.XLen \in 1 .. m.PrevLogIndex
             \/ m.XTerm > 0 /\ m.XIndex \in 1 .. m.PrevLogIndex
  BY Zenon, RepliesStep
<1>3. /\ \A m \in Sent("InstallSnapshot")' :
           m.live => m.LastIncludedIndex <= lastIncludedIndex'[m.src]
      /\ \A m \in Sent("InstallSnapshotReply")' :
           m.LastIncludedIndex <= lastIncludedIndex'[m.dst]
  BY Zenon, <1>0, SnapshotRequestsStep
<1> QED
  BY Zenon, <1>1, <1>2, <1>3 DEF RequestsInv

-----------------------------------------------------------------------------
(***************************************************************************)
(* nextIndex.                                                              *)
(***************************************************************************)

\* The others stay as they are.
LEMMA OneNextIndex ==
  ASSUME TypeOK, NEW a \in Server, NEW b \in Server, NEW x, NextIndexSet(a, b, x),
         NEW v \in Server, NEW q \in Server
  PROVE  nextIndex'[v][q] = IF v = a /\ q = b THEN x ELSE nextIndex[v][q]
<1>1. CASE v = a
  <2>1. nextIndex'[v] = [nextIndex[a] EXCEPT ![b] = x] /\ nextIndex[a] \in [Server -> Nat]
    BY Zenon, <1>1 DEF NextIndexSet, TypeOK
  <2> QED
    BY Zenon, <1>1, <2>1
<1>2. CASE v # a
  BY Zenon, <1>2 DEF NextIndexSet, TypeOK
<1> QED
  BY Zenon, <1>1, <1>2

\* nextIndex stays in the log, or after its end.
LEMMA NextIndexStep ==
  ASSUME Counting, TypeOK, TypeOK', PiecesInv, SnapshotsInv, LeadersInv, RequestsInv, NextIndexInLog,
         [Next]_vars, NEW v \in Server, identity'[v] = "LEADER", NEW q \in Server
  PROVE  nextIndex'[v][q] \in 1 .. LastLogIndex(v)' + 1
<1>0. LastLogIndex(v) \in Nat /\ LastLogIndex(v)' \in Nat
  BY Zenon, LastLogNat, LastLogNatNext
<1>1. LastLogIndex(v) <= LastLogIndex(v)'
  <2>1. CASE Logs'[v] = Logs[v] /\ lastIncludedIndex'[v] = lastIncludedIndex[v]
    BY <1>0, <2>1 DEF LastLogIndex, RaftIndex
  <2> QED
    BY Zenon, <1>0, <2>1, NextLog DEF LogStep
<1>2. CASE nextIndex'[v][q] \in 1 .. LastLogIndex(v) + 1
  BY <1>0, <1>1, <1>2
<1>3. CASE identity[v] = "LEADER" /\ nextIndex'[v][q] = nextIndex[v][q]
  <2>1. nextIndex[v][q] \in 1 .. LastLogIndex(v) + 1
    BY Zenon, <1>3 DEF NextIndexInLog
  <2> QED
    BY Zenon, <1>2, <1>3, <2>1
<1>4. CASE UNCHANGED vars
  BY Zenon, <1>3, <1>4 DEF vars, electionVars, leaderVars
<1>5. ASSUME NEW s \in Server,
             \/ LeaderTimerExpires(s) \/ HeartbeatTimeout(s) \/ applyLog(s)
             \/ \E c \in Submits(s) : Start(s, c)
             \/ \E x \in 1 .. Len(applied[s]) : Snapshot(s, x)
      PROVE  UNCHANGED <<identity, nextIndex>>
  BY Zenon, <1>5
     DEF LeaderTimerExpires, HeartbeatTimeout, applyLog, Start, Snapshot, electionVars,
     leaderVars
<1>6. ASSUME NEW s \in Server, ElectionTimeout(s)
      PROVE  identity[v] = "LEADER" /\ nextIndex' = nextIndex
  BY <1>6 DEF ElectionTimeout, leaderVars, TypeOK
<1>7. ASSUME NEW s \in Server, Crash(s)
      PROVE  identity[v] = "LEADER" /\ nextIndex'[v] = nextIndex[v]
  <2>1. DOMAIN identity = Server /\ DOMAIN nextIndex = Server
    BY Zenon DEF TypeOK
  <2>2. /\ identity' = [identity EXCEPT ![s] = "FOLLOWER"]
        /\ nextIndex' = [nextIndex EXCEPT ![s] = [p \in Server |-> 0]]
    BY Zenon, <1>7 DEF Crash
  <2>3. v # s
    BY Zenon, <2>1, <2>2
  <2> QED
    BY Zenon, <2>1, <2>2, <2>3
<1>8. ASSUME NEW m \in DOMAIN messages, RequestVote(m) \/ ApplyEntries(m) \/ InstallSnapshot(m)
      PROVE  identity[v] = "LEADER" /\ nextIndex' = nextIndex
  <2>0. m \in Message /\ m.dst \in Server
    BY Zenon, MessageEnds DEF TypeOK
  <2>1. nextIndex' = nextIndex
    BY Zenon, <1>8 DEF RequestVote, ApplyEntries, InstallSnapshot, leaderVars
  <2>2. identity' = identity \/ identity' = [identity EXCEPT ![m.dst] = "FOLLOWER"]
    BY Zenon, <1>8 DEF RequestVote, ApplyEntries, InstallSnapshot, electionVars, BecomeFollower,
       FollowLeader, StepDown
  <2> QED
    BY Zenon, <2>0, <2>1, <2>2 DEF TypeOK
<1>9. ASSUME NEW m \in DOMAIN messages, OnRequestVoteReply(m)
      PROVE  \/ identity[v] = "LEADER" /\ nextIndex'[v] = nextIndex[v]
             \/ nextIndex'[v][q] = LastLogIndex(v) + 1
  <2>0. m \in Message /\ m.dst \in Server
    BY Zenon, MessageEnds DEF TypeOK
  <2>1. CASE nextIndex' = nextIndex /\ identity' = identity
    BY Zenon, <2>1
  <2>2. CASE nextIndex' = nextIndex /\ identity' = [identity EXCEPT ![m.dst] = "FOLLOWER"]
    BY Zenon, <2>0, <2>2 DEF TypeOK
  <2>3. CASE /\ identity' = [identity EXCEPT ![m.dst] = "LEADER"]
             /\ nextIndex' = [nextIndex EXCEPT ![m.dst] =
                                [p \in Server |-> LastLogIndex(m.dst) + 1]]
    <3>1. CASE v = m.dst
      <4>1. nextIndex'[v] = [p \in Server |-> LastLogIndex(v) + 1]
        BY Zenon, <2>0, <2>3, <3>1 DEF TypeOK
      <4> QED
        BY Zenon, <4>1
    <3>2. CASE v # m.dst
      BY Zenon, <2>0, <2>3, <3>2 DEF TypeOK
    <3> QED
      BY Zenon, <3>1, <3>2
  <2> QED
    BY Zenon, <1>9, <2>1, <2>2, <2>3 DEF OnRequestVoteReply, electionVars, leaderVars, StepDown,
       BecomeFollower
<1>10. ASSUME NEW m \in DOMAIN messages, OnApplyEntriesReply(m)
       PROVE  \/ identity[v] = "LEADER" /\ nextIndex'[v][q] = nextIndex[v][q]
              \/ nextIndex'[v][q] \in 1 .. LastLogIndex(v) + 1
  <2>0. m \in Message /\ m.dst \in Server /\ m.src \in Server /\ m.type = "ApplyEntriesReply"
    BY Zenon, <1>10, MessageEnds DEF TypeOK, OnApplyEntriesReply
  <2>1. CASE nextIndex' = nextIndex /\ identity' = identity
    BY Zenon, <2>1
  <2>2. CASE nextIndex' = nextIndex /\ identity' = [identity EXCEPT ![m.dst] = "FOLLOWER"]
    BY Zenon, <2>0, <2>2 DEF TypeOK
  <2>3. CASE /\ identity' = identity /\ ~m.Success
             /\ m.Term >= CurrentTerm[m.dst] /\ m.Term <= m.ArgsTerm
             /\ nextIndex' = [nextIndex EXCEPT ![m.dst][m.src] = BackOff(m.dst, m)]
    <3>0. nextIndex'[v][q] = IF v = m.dst /\ q = m.src THEN BackOff(m.dst, m) ELSE nextIndex[v][q]
      <4>1. PICK x : x = BackOff(m.dst, m)
        BY Zenon
      <4>2. NextIndexSet(m.dst, m.src, x)
        BY Zenon, <2>3, <4>1 DEF NextIndexSet
      <4>3. nextIndex'[v][q] = IF v = m.dst /\ q = m.src THEN x ELSE nextIndex[v][q]
        BY <2>0, <4>2, OneNextIndex
      <4> QED
        BY Zenon, <4>1, <4>3
    <3>1. CASE v = m.dst /\ q = m.src
      <4>1. nextIndex'[v][q] = BackOff(m.dst, m)
        BY Zenon, <3>0, <3>1
      <4>2. identity[m.dst] = "LEADER"
        BY Zenon, <2>3, <3>1
      <4>3. BackOff(m.dst, m) \in 1 .. LastLogIndex(m.dst) + 1
        BY Zenon, <2>0, <2>3, <4>2, ReplyNextIndex
      <4> QED
        BY Zenon, <3>1, <4>1, <4>3
    <3>2. CASE ~(v = m.dst /\ q = m.src)
      BY Zenon, <2>3, <3>0, <3>2
    <3> QED
      BY Zenon, <3>1, <3>2
  <2>4. CASE /\ identity' = identity /\ m.Success /\ m.Term >= CurrentTerm[m.dst]
             /\ nextIndex' = [nextIndex EXCEPT ![m.dst][m.src] = LastSent(m) + 1]
    <3>0. nextIndex'[v][q] = IF v = m.dst /\ q = m.src THEN LastSent(m) + 1 ELSE nextIndex[v][q]
      <4>1. NextIndexSet(m.dst, m.src, LastSent(m) + 1)
        BY Zenon, <2>4 DEF NextIndexSet
      <4> QED
        BY <2>0, <4>1, OneNextIndex
    <3>1. CASE v = m.dst /\ q = m.src
      <4>1. nextIndex'[v][q] = LastSent(m) + 1
        BY Zenon, <3>0, <3>1
      <4>2. identity[m.dst] = "LEADER"
        BY Zenon, <2>4, <3>1
      <4>3. m.Term = m.ArgsTerm
        BY Zenon, <2>0, <2>4 DEF RequestsInv, Sent
      <4>4. m.Term <= m.ArgsTerm
        BY <2>0, <4>3, ApplyEntriesReplyFields
      <4>5. LastSent(m) + 1 \in 1 .. LastLogIndex(m.dst) + 1
        BY Zenon, <2>0, <2>4, <4>2, <4>4, ReplyNextIndex
      <4> QED
        BY Zenon, <3>1, <4>1, <4>5
    <3>2. CASE ~(v = m.dst /\ q = m.src)
      BY Zenon, <2>4, <3>0, <3>2
    <3> QED
      BY Zenon, <3>1, <3>2
  <2> QED
    BY Zenon, <1>10, <2>1, <2>2, <2>3, <2>4 DEF OnApplyEntriesReply, electionVars, leaderVars,
       StepDown, BecomeFollower
<1>11. ASSUME NEW m \in DOMAIN messages, OnInstallSnapshotReply(m)
       PROVE  \/ identity[v] = "LEADER" /\ nextIndex'[v][q] = nextIndex[v][q]
              \/ nextIndex'[v][q] \in 1 .. LastLogIndex(v) + 1
  <2>0. m \in Message /\ m.dst \in Server /\ m.src \in Server /\ m.type = "InstallSnapshotReply"
    BY Zenon, <1>11, MessageEnds DEF TypeOK, OnInstallSnapshotReply
  <2>1. CASE nextIndex' = nextIndex /\ identity' = identity
    BY Zenon, <2>1
  <2>2. CASE nextIndex' = nextIndex /\ identity' = [identity EXCEPT ![m.dst] = "FOLLOWER"]
    BY Zenon, <2>0, <2>2 DEF TypeOK
  <2>3. CASE /\ identity' = identity
             /\ nextIndex' = [nextIndex EXCEPT ![m.dst][m.src] = m.LastIncludedIndex + 1]
    <3>0. nextIndex'[v][q] =
            IF v = m.dst /\ q = m.src THEN m.LastIncludedIndex + 1 ELSE nextIndex[v][q]
      <4>1. PICK x : x = m.LastIncludedIndex + 1
        BY Zenon
      <4>2. NextIndexSet(m.dst, m.src, x)
        BY Zenon, <2>3, <4>1 DEF NextIndexSet
      <4>3. nextIndex'[v][q] = IF v = m.dst /\ q = m.src THEN x ELSE nextIndex[v][q]
        BY <2>0, <4>2, OneNextIndex
      <4> QED
        BY Zenon, <4>1, <4>3
    <3>1. CASE v = m.dst /\ q = m.src
      <4>1. nextIndex'[v][q] = m.LastIncludedIndex + 1
        BY Zenon, <3>0, <3>1
      <4>2. m.LastIncludedIndex \in Nat /\ lastIncludedIndex[v] \in Nat
        BY Zenon, <2>0, InstallSnapshotReplyFields, PeerFacts
      <4>3. m.LastIncludedIndex <= lastIncludedIndex[v]
        BY Zenon, <2>0, <3>1 DEF RequestsInv, Sent
      <4>4. lastIncludedIndex[v] <= LastLogIndex(v)
        BY Zenon, SnapshotReach
      <4>5. m.LastIncludedIndex + 1 \in 1 .. LastLogIndex(v) + 1
        BY <1>0, <4>2, <4>3, <4>4
      <4> QED
        BY Zenon, <4>1, <4>5
    <3>2. CASE ~(v = m.dst /\ q = m.src)
      BY Zenon, <2>3, <3>0, <3>2
    <3> QED
      BY Zenon, <3>1, <3>2
  <2> QED
    BY Zenon, <1>11, <2>1, <2>2, <2>3 DEF OnInstallSnapshotReply, electionVars, leaderVars,
       StepDown, BecomeFollower
<1>12. LastLogIndex(v) + 1 \in 1 .. LastLogIndex(v) + 1
  BY <1>0
<1> QED
  BY Zenon, <1>2, <1>3, <1>4, <1>5, <1>6, <1>7, <1>8, <1>9, <1>10, <1>11, <1>12 DEF Next

=============================================================================
