------------------------- MODULE RaftElectionProofs -------------------------
(***************************************************************************)
(* Types, elections and election timers of module Raft, for any number of  *)
(* peers, any losses, any delays and any crashes: what each step           *)
(* preserves.                                                              *)
(*                                                                         *)
(* At most one leader per term. The argument is about what is on disk. A   *)
(* vote is evidence (it is counted by a candidate, or a reply that grants  *)
(* it is in flight), and evidence of v's vote for i in term t binds v: its *)
(* persister holds that vote or a later term, and there is no evidence for *)
(* anybody else. A winner was elected by a majority of bound peers, and    *)
(* two majorities share one.                                               *)
(***************************************************************************)
EXTENDS RaftFacts

-----------------------------------------------------------------------------
(***************************************************************************)
(* Sequences.                                                              *)
(***************************************************************************)

\* The empty sequence.
LEMMA EmptyFacts ==
  ASSUME NEW S
  PROVE  <<>> \in Seq(S)
OBVIOUS

-----------------------------------------------------------------------------
(***************************************************************************)
(* The network.                                                            *)
(***************************************************************************)

\* Receiving adds nothing.
LEMMA ReceiveMessages ==
  ASSUME MessagesOK, NEW m, Receive(m)
  PROVE  MessagesOK' /\ DOMAIN messages' \subseteq DOMAIN messages
<1>1. messages' = [k \in {k \in DOMAIN messages : k # m \/ messages[k] > 1} |->
                     IF k = m THEN messages[k] - 1 ELSE messages[k]]
  BY Zenon DEF Receive, Without
<1>2. DOMAIN messages' = {k \in DOMAIN messages : k # m \/ messages[k] > 1}
  BY Zenon, <1>1
<1>3. ASSUME NEW k \in DOMAIN messages' PROVE messages'[k] \in Nat \ {0}
  <2>1. messages[k] \in Nat \ {0} /\ (k # m \/ messages[k] > 1)
    BY Zenon, <1>2 DEF MessagesOK
  <2>2. messages'[k] = IF k = m THEN messages[k] - 1 ELSE messages[k]
    BY Zenon, <1>1, <1>2
  <2> QED
    BY <2>1, <2>2
<1> QED
  BY Zenon, <1>1, <1>2, <1>3 DEF MessagesOK

\* Replying adds only the reply, and only when the caller still waits.
LEMMA ReplyMessages ==
  ASSUME MessagesOK, NEW m, NEW r \in Message, Reply(m, r)
  PROVE  /\ MessagesOK'
         /\ DOMAIN messages' \subseteq DOMAIN messages \cup {r}
         /\ ~m.live => DOMAIN messages' \subseteq DOMAIN messages
<1>1. CASE messages' = Without(m)
  BY Zenon, <1>1, ReceiveMessages DEF Receive
<1>2. CASE /\ m.live
           /\ messages' = [k \in DOMAIN Without(m) \cup {r} |->
                             IF k = r THEN Copies(r) + 1 ELSE Without(m)[k]]
  <2>1. DOMAIN Without(m) \subseteq DOMAIN messages
    BY Zenon DEF Without
  <2>2. \A k \in DOMAIN Without(m) : Without(m)[k] \in Nat \ {0}
    BY DEF Without, MessagesOK
  <2>3. Copies(r) \in Nat
    BY Zenon DEF Copies, MessagesOK
  <2>4. DOMAIN messages' = DOMAIN Without(m) \cup {r}
    BY Zenon, <1>2
  <2>5. \A k \in DOMAIN messages' : messages'[k] \in Nat \ {0}
    BY <1>2, <2>2, <2>3, <2>4
  <2> QED
    BY Zenon, <1>2, <2>1, <2>4, <2>5 DEF MessagesOK
<1> QED
  BY Zenon, <1>1, <1>2 DEF Reply

-----------------------------------------------------------------------------
(***************************************************************************)
(* Logs.                                                                   *)
(***************************************************************************)

\* The log after ApplyEntries copied the entries of a request into it.
LEMMA MergeType ==
  ASSUME TypeOK, NEW s \in Server, NEW m \in Message, m.type = "ApplyEntries",
         ReplicateCheck(s, m)
  PROVE  Merge(s, m) \in Log
<1> DEFINE log   == Logs[s]
           first == RealIndex(s, m.PrevLogIndex + 1) + 1
           after == first + Len(m.Entries)
<1>1. log \in Log /\ lastIncludedIndex[s] \in Nat
  BY Zenon, PeerFacts
<1>2. m.Entries \in Seq(LogEntry) /\ m.PrevLogIndex \in Nat
  BY Zenon, ApplyEntriesFields
<1>3. log \in Seq(LogEntry) /\ Len(log) \in Nat
  BY Zenon, <1>1, LogFacts
<1>4. first \in 2 .. Len(log) + 1
  <2>1. PICK prev \in Nat, base \in Nat, len \in Nat :
          prev = m.PrevLogIndex /\ base = lastIncludedIndex[s] /\ len = Len(log)
    BY Zenon, <1>1, <1>2, <1>3
  <2>2. prev - base \in 0 .. len - 1 /\ first = ((prev + 1) - base) + 1
    BY Zenon, <2>1 DEF ReplicateCheck, RealIndex
  <2> HIDE DEF log, first
  <2>3. first \in 2 .. len + 1
    BY <2>2
  <2> QED
    BY Zenon, <2>1, <2>3
<1>5. Len(m.Entries) \in Nat
  BY <1>2
<1> HIDE DEF log, first
<1>6. SubSeq(log, 1, first - 1) \in Seq(LogEntry) /\ Len(SubSeq(log, 1, first - 1)) >= 1
  BY <1>3, <1>4
<1>7. SubSeq(log, after, Len(log)) \in Seq(LogEntry)
  BY <1>3, <1>4, <1>5
<1> HIDE DEF after
<1>8. ASSUME NEW tail \in {<<>>, SubSeq(log, after, Len(log))}
      PROVE  SubSeq(log, 1, first - 1) \o m.Entries \o tail \in Log
  <2>1. SubSeq(log, 1, first - 1) \o m.Entries \in Seq(LogEntry)
        /\ Len(SubSeq(log, 1, first - 1) \o m.Entries) >= 1
    BY <1>2, <1>5, <1>6, ConcatFacts
  <2>2. tail \in Seq(LogEntry)
    BY Zenon, <1>7, EmptyFacts
  <2>3. SubSeq(log, 1, first - 1) \o m.Entries \o tail \in Seq(LogEntry)
        /\ Len(SubSeq(log, 1, first - 1) \o m.Entries \o tail) >= 1
    BY <2>1, <2>2, ConcatFacts
  <2> QED
    BY Zenon, <2>3, LongLog
<1> QED
  BY Zenon, <1>8 DEF Merge, log, first, after

\* The replies of ApplyEntries.
LEMMA ApplyEntriesReplyType ==
  ASSUME NEW m \in Message, m.type = "ApplyEntries",
         NEW term \in Nat, NEW success \in BOOLEAN, NEW xterm \in Nat,
         NEW xindex \in Nat \cup {InvalidIndex}, NEW xlen \in Nat
  PROVE  ApplyEntriesReply(m, term, success, xterm, xindex, xlen) \in Message
<1>1. /\ m.src \in Server /\ m.dst \in Server /\ m.Term \in Nat /\ m.PrevLogIndex \in Nat
      /\ Len(m.Entries) \in Nat
  BY ApplyEntriesFields
<1> QED
  BY Zenon, <1>1 DEF ApplyEntriesReply, Message

\* The reply to a request that fails the consistency check.
LEMMA MismatchType ==
  ASSUME Counting, TypeOK, NEW s \in Server, NEW m \in Message, m.type = "ApplyEntries"
  PROVE  Mismatch(s, m) \in Message
<1> DEFINE prevIndex == RealIndex(s, m.PrevLogIndex)
           xlen  == RaftIndex(s, Len(Logs[s]))
           xterm == At(Logs[s], prevIndex).Term
<1>1. Logs[s] \in Log /\ lastIncludedIndex[s] \in Nat
  BY Zenon, PeerFacts
<1>2. m.PrevLogIndex \in Nat /\ m.Term \in Nat
  BY Zenon, ApplyEntriesFields
<1>3. Len(Logs[s]) \in Nat /\ \A i \in 1 .. Len(Logs[s]) : Logs[s][i].Term \in Nat
  BY Zenon, <1>1, LogFacts, EntryFields
<1>4. xlen \in Nat /\ prevIndex \in Int
  BY <1>1, <1>2, <1>3 DEF RaftIndex, RealIndex
<1>5. CASE prevIndex < 0
  BY Zenon, <1>2, <1>5, ApplyEntriesReplyType DEF Mismatch
<1>6. CASE ~(prevIndex < 0) /\ prevIndex >= Len(Logs[s])
  BY Zenon, <1>2, <1>4, <1>6, ApplyEntriesReplyType DEF Mismatch
<1>7. CASE ~(prevIndex < 0) /\ ~(prevIndex >= Len(Logs[s]))
  <2>1. xterm \in Nat
    BY <1>3, <1>4, <1>7 DEF At
  <2>2. RaftIndex(s, findFirstIndex(Logs[s], xterm)) \in Nat
    BY <1>1, <1>3, FindFirstIndexType DEF RaftIndex
  <2> QED
    BY Zenon, <1>2, <1>4, <1>7, <2>1, <2>2, ApplyEntriesReplyType DEF Mismatch
<1> QED
  BY Zenon, <1>5, <1>6, <1>7

\* nextIndex after a failed consistency check.
LEMMA BackOffType ==
  ASSUME Counting, TypeOK, NEW s \in Server, NEW m \in Message, m.type = "ApplyEntriesReply"
  PROVE  BackOff(s, m) \in Nat
<1> DEFINE log   == Logs[s]
           index == findFirstIndex(log, m.XTerm)
<1>1. log \in Log /\ lastIncludedIndex[s] \in Nat
  BY Zenon, PeerFacts
<1>2. m.XTerm \in Nat /\ m.XIndex \in Nat \cup {InvalidIndex} /\ m.XLen \in Nat
  BY Zenon, ApplyEntriesReplyFields
<1>3. /\ Len(log) \in Nat /\ DOMAIN log = 1 .. Len(log)
      /\ index \in 0 .. Len(log)
      /\ findFirstIndex(log, m.XTerm + 1) \in 0 .. Len(log)
  BY Zenon, <1>1, LogFacts, FindFirstIndexType
<1>4. CASE m.XIndex = InvalidIndex \/ index = Len(log) \/ At(log, index).Term # m.XTerm
  BY Zenon, <1>2, <1>4 DEF BackOff
\* When the log has an entry of term t, findFirstIndex(t + 1) - 1 is a position.
<1>FindFirstIndexPositive. ASSUME NEW l \in Log, NEW t \in Nat, NEW i \in DOMAIN l,
                                  l[i].Term = t
                           PROVE  findFirstIndex(l, t + 1) >= 1
  <2> USE <1>FindFirstIndexPositive
  <2> DEFINE S == {k \in DOMAIN l : l[k].Term < t + 1}
  <2>1. i \in S
    OBVIOUS
  <2>2. S \in SUBSET (1 .. Len(l)) /\ Len(l) \in Nat
    BY Zenon, LogFacts
  <2>3. findFirstIndex(l, t + 1) = Cardinality(S)
    BY Zenon DEF findFirstIndex
  <2> HIDE DEF S
  <2>4. Cardinality(S) >= 1
    BY Zenon, <2>1, <2>2 DEF Counting
  <2> QED
    BY Zenon, <2>3, <2>4
<1>5. CASE /\ m.XIndex # InvalidIndex /\ index # Len(log)
           /\ At(log, index).Term = m.XTerm
  <2>1. index + 1 \in DOMAIN log /\ log[index + 1].Term = m.XTerm
    BY <1>3, <1>5 DEF At
  <2>2. findFirstIndex(log, m.XTerm + 1) >= 1
    BY Zenon, <1>1, <1>2, <2>1, <1>FindFirstIndexPositive
  <2>3. BackOff(s, m) = findFirstIndex(log, m.XTerm + 1) - 1 + lastIncludedIndex[s]
    BY Zenon, <1>5 DEF BackOff, RaftIndex
  <2> QED
    BY <1>1, <1>3, <2>2, <2>3
<1> QED
  BY Zenon, <1>4, <1>5

\* committedIndex after updateCommittedIndex().
LEMMA UpdateCommittedIndexType ==
  ASSUME Counting, TypeOK, NEW s \in Server, NEW match, updateCommittedIndex(s, match)
  PROVE  committedIndex' \in [Server -> Nat]
<1>1. PICK n \in Replicated(s, match) \cup {committedIndex[s]} :
        committedIndex' = [committedIndex EXCEPT ![s] = n]
  BY Zenon DEF updateCommittedIndex
<1>2. Logs[s] \in Log /\ lastIncludedIndex[s] \in Nat /\ committedIndex[s] \in Nat
  BY Zenon, PeerFacts
<1>3. Len(Logs[s]) \in Nat
  BY Zenon, <1>2, LogFacts
<1>4. /\ findFirstIndex(Logs[s], CurrentTerm[s]) \in Nat
      /\ findFirstIndex(Logs[s], CurrentTerm[s] + 1) \in Nat
  BY <1>2, <1>3, FindFirstIndexType
<1>5. n \in Nat
  BY <1>1, <1>2, <1>4 DEF Replicated, RaftIndex
<1> QED
  BY Zenon, <1>1, <1>5 DEF TypeOK

-----------------------------------------------------------------------------
(***************************************************************************)
(* Every step keeps the types.                                             *)
(***************************************************************************)

\* Stepping down keeps the types of the election variables.
LEMMA StepDownType ==
  ASSUME TypeOK, NEW s \in Server, NEW t \in Nat, StepDown(s, t)
  PROVE  ElectionOK'
BY Zenon DEF StepDown, BecomeFollower, ElectionOK, TypeOK

\* So does following a leader.
LEMMA FollowLeaderType ==
  ASSUME TypeOK, NEW s \in Server, NEW t \in Nat, FollowLeader(s, t)
  PROVE  ElectionOK'
<1>1. CASE StepDown(s, t)
  BY Zenon, <1>1, StepDownType
<1>2. CASE /\ identity'      = [identity EXCEPT ![s] = "FOLLOWER"]
           /\ electionTimer' = [electionTimer EXCEPT ![s] = TRUE]
           /\ UNCHANGED <<CurrentTerm, VoteFor, votes>>
  BY Zenon, <1>2 DEF ElectionOK, TypeOK
<1> QED
  BY Zenon, <1>1, <1>2 DEF FollowLeader

\* The replies of RequestVote.
LEMMA RequestVoteReplyType ==
  ASSUME NEW m \in Message, m.type = "RequestVote", NEW t \in Nat, NEW g \in BOOLEAN
  PROVE  RequestVoteReply(m, t, g) \in Message
<1>1. m.src \in Server /\ m.dst \in Server
  BY Zenon, MessageEnds
<1> QED
  BY Zenon, <1>1 DEF RequestVoteReply, Message

\* The replies of InstallSnapshot.
LEMMA InstallSnapshotReplyType ==
  ASSUME NEW m \in Message, m.type = "InstallSnapshot", NEW t \in Nat
  PROVE  InstallSnapshotReply(m, t) \in Message
<1>1. m.src \in Server /\ m.dst \in Server /\ m.LastIncludedIndex \in Nat
  BY Zenon, InstallSnapshotFields
<1> QED
  BY Zenon, <1>1 DEF InstallSnapshotReply, Message

\* A fresh peer, as Make() leaves it, has the types.
LEMMA InitType == Init => TypeOK
<1> SUFFICES ASSUME Init PROVE TypeOK
  BY Zenon
<1> DEFINE log == <<[Term |-> 0, Command |-> NoCommand]>>
<1>1. log \in Log
  <2>1. [Term |-> 0, Command |-> NoCommand] \in LogEntry
    BY Zenon, NewEntry DEF Commands
  <2> QED
    BY <2>1 DEF Log
<1>2. <<>> \in Seq(Commands)
  BY Zenon, EmptyFacts
<1>3. Logs = [s \in Server |-> log] /\ Logs \in [Server -> Log]
  BY Zenon, <1>1 DEF Init
<1>4. persister \in [Server -> SavedState]
  <2> DEFINE saved == [CurrentTerm |-> 0, VoteFor |-> Unvote, Logs |-> log,
                       lastIncludedIndex |-> 0, snapshot |-> <<>>]
  <2>1. saved \in SavedState
    BY Zenon, <1>1, <1>2 DEF SavedState
  <2>2. persister = [s \in Server |-> saved]
    BY Zenon DEF Init
  <2> HIDE DEF saved
  <2> QED
    BY Zenon, <2>1, <2>2
<1>5. snapshot \in [Server -> Seq(Commands)] /\ applied \in [Server -> Seq(Commands)]
  BY Zenon, <1>2 DEF Init
<1>6. nextIndex \in [Server -> [Server -> Nat]] /\ matchIndex \in [Server -> [Server -> Nat]]
  BY Zenon DEF Init
<1>7. DOMAIN messages = {} /\ messages \in [DOMAIN messages -> Nat \ {0}]
  BY Zenon DEF Init
<1> QED
  BY Zenon, <1>3, <1>4, <1>5, <1>6, <1>7 DEF Init, TypeOK

\* Every step of a peer or of the network preserves the types.
LEMMA NextType == Counting /\ TypeOK /\ [Next]_vars => TypeOK'
<1> SUFFICES ASSUME Counting, TypeOK, [Next]_vars PROVE TypeOK'
  BY Zenon
<1>1. CASE UNCHANGED vars
  BY Zenon, <1>1 DEF vars, TypeOK, electionVars, leaderVars, logVars, snapVars, historyVars
\* Sending adds only what is sent.
<1>SendMessages. ASSUME MessagesOK, NEW ms, ms \subseteq Message, Send(ms)
                 PROVE  MessagesOK' /\ DOMAIN messages' \subseteq DOMAIN messages \cup ms
  <2> USE <1>SendMessages
  <2>1. PICK kept \in SUBSET ms :
          messages' = [m \in DOMAIN messages \cup kept |->
                         Copies(m) + (IF m \in kept THEN 1 ELSE 0)]
    BY Zenon DEF Send
  <2>2. \A m \in DOMAIN messages : Copies(m) \in Nat \ {0}
    BY Zenon DEF Copies, MessagesOK
  <2>3. \A m : m \notin DOMAIN messages => Copies(m) = 0
    BY Zenon DEF Copies
  <2>4. DOMAIN messages' = DOMAIN messages \cup kept
    BY Zenon, <2>1
  <2>5. ASSUME NEW m \in DOMAIN messages \cup kept PROVE messages'[m] \in Nat \ {0}
    <3>1. messages'[m] = Copies(m) + (IF m \in kept THEN 1 ELSE 0)
      BY Zenon, <2>1
    <3> QED
      BY <3>1, <2>2, <2>3
  <2> QED
    BY Zenon, <2>1, <2>4, <2>5 DEF MessagesOK
\* What persist() saves.
<1>PersistType. ASSUME NEW s \in Server, persist(s), CurrentTerm'[s] \in Nat,
                       VoteFor'[s] \in Server \cup {Unvote}, Logs'[s] \in Log,
                       lastIncludedIndex'[s] \in Nat, snapshot'[s] \in Seq(Commands)
                PROVE  persister' \in [Server -> SavedState]
  BY Zenon, <1>PersistType DEF persist, TypeOK, SavedState
\* TypeOK is preserved by an election: ticker() raises the term and votes for
\* itself.
<1>ElectionTimeoutType. ASSUME NEW s \in Server, ElectionTimeout(s)
                        PROVE  TypeOK'
  <2> USE <1>ElectionTimeoutType
  <2>1. ElectionOK'
    BY DEF ElectionTimeout, ElectionOK, TypeOK
  <2>2. persister' \in [Server -> SavedState]
    BY Zenon, <2>1, <1>PersistType DEF ElectionTimeout, ElectionOK, TypeOK, snapVars, logVars
  <2>3. MessagesOK'
    <3> DEFINE args(p) == [type |-> "RequestVote", src |-> s, dst |-> p, live |-> TRUE,
                           Term |-> CurrentTerm[s] + 1, LastLogIndex |-> LastLogIndex(s),
                           LastLogTerm |-> LastLogTerm(s)]
               ms == {args(p) : p \in Server \ {s}}
    <3>1. CurrentTerm[s] + 1 \in Nat /\ LastLogIndex(s) \in Nat /\ LastLogTerm(s) \in Nat
      BY LastLogType, PeerFacts
    <3>2. ASSUME NEW p \in Server PROVE args(p) \in Message
      BY Zenon, <3>1 DEF Message
    <3>3. Send(ms)
      BY Zenon DEF ElectionTimeout
    <3>4. ms \subseteq Message
      <4> HIDE DEF args
      <4> QED
        BY Zenon, <3>2
    <3> HIDE DEF ms
    <3> QED
      BY Zenon, <3>3, <3>4, <1>SendMessages DEF TypeOK, MessagesOK
  <2> QED
    BY Zenon, <2>1, <2>2, <2>3 DEF ElectionTimeout, ElectionOK, MessagesOK, TypeOK, leaderVars,
       logVars, snapVars, historyVars
\* TypeOK is preserved by the expiry of a leader's election timer.
<1>LeaderTimerExpiresType. ASSUME NEW s \in Server, LeaderTimerExpires(s)
                           PROVE  TypeOK'
  BY Zenon, <1>LeaderTimerExpiresType DEF LeaderTimerExpires, TypeOK, leaderVars, logVars,
     snapVars, historyVars
\* sendHeartBeat() keeps the network well formed.
<1>SendHeartBeatType. ASSUME NEW s \in Server, NEW log \in Log, sendHeartBeat(s, log)
                      PROVE  MessagesOK'
  <2> USE <1>SendHeartBeatType
  <2> DEFINE ms == {HeartBeatTo(s, p, log) : p \in Server \ {s}}
  <2>1. ms \subseteq Message
    BY Zenon, HeartBeatType
  <2>2. Send(ms)
    BY Zenon DEF sendHeartBeat
  <2> HIDE DEF ms
  <2> QED
    BY Zenon, <2>1, <2>2, <1>SendMessages DEF TypeOK, MessagesOK
\* TypeOK is preserved by the heartbeats: what sendHeartBeat() sends is a
\* message.
<1>HeartbeatTimeoutType. ASSUME NEW s \in Server, HeartbeatTimeout(s)
                         PROVE  TypeOK'
  <2> USE <1>HeartbeatTimeoutType
  <2>1. MessagesOK'
    BY Zenon, PeerFacts, <1>SendHeartBeatType DEF HeartbeatTimeout
  <2> QED
    BY Zenon, <2>1 DEF HeartbeatTimeout, TypeOK, MessagesOK, electionVars, leaderVars, logVars,
       snapVars, historyVars
\* TypeOK is preserved by applyLog(): the service executes commands of the
\* log.
<1>ApplyLogType. ASSUME NEW s \in Server, applyLog(s)
                 PROVE  TypeOK'
  <2> USE <1>ApplyLogType
  <2> DEFINE from == ApplyFrom(s)
             upto == Max(from, committedIndex[s])
             cmd(k) == At(Logs[s], RealIndex(s, from + k)).Command
             sent == [k \in 1 .. upto - from |-> cmd(k)]
  <2>1. /\ Logs[s] \in Log /\ committedIndex[s] \in Nat /\ lastApplied[s] \in Nat
        /\ lastIncludedIndex[s] \in Nat /\ snapshot[s] \in Seq(Commands)
        /\ applied[s] \in Seq(Commands)
    BY Zenon, PeerFacts
  <2>2. /\ Len(Logs[s]) \in Nat
        /\ \A i \in 1 .. Len(Logs[s]) : Logs[s][i].Command \in Commands
    BY Zenon, <2>1, LogFacts, EntryFields
  <2>3. from \in Nat /\ (from < committedIndex[s] => from >= lastIncludedIndex[s])
    BY <2>1 DEF ApplyFrom, Max
  <2>4. from < upto => upto <= LastLogIndex(s)
    BY Zenon DEF applyLog
  <2>5. LastLogIndex(s) = Len(Logs[s]) - 1 + lastIncludedIndex[s]
    BY Zenon DEF LastLogIndex, RaftIndex
  <2> HIDE DEF from
  <2>6. upto \in Nat /\ upto >= from /\ (from < upto => upto = committedIndex[s])
    BY <2>1, <2>3 DEF Max
  <2> HIDE DEF upto
  <2>7. ASSUME NEW k \in 1 .. upto - from PROVE cmd(k) \in Commands
    <3>1. k \in Nat /\ 1 <= k /\ from + k <= upto /\ from < upto
      BY <2>3, <2>6
    <3>2. from >= lastIncludedIndex[s] /\ upto <= Len(Logs[s]) - 1 + lastIncludedIndex[s]
      BY Zenon, <2>3, <2>4, <2>5, <2>6, <3>1
    <3> DEFINE n    == Len(Logs[s])
               base == lastIncludedIndex[s]
    <3>3. n \in Nat /\ base \in Nat /\ from >= base /\ upto <= n - 1 + base
      BY Zenon, <2>1, <2>2, <3>2
    <3>4. RealIndex(s, from + k) + 1 = (from + k) - base + 1
      BY Zenon DEF RealIndex
    <3> HIDE DEF n, base
    <3>5. (from + k) - base + 1 \in 1 .. n
      BY <2>3, <2>6, <3>1, <3>3
    <3> QED
      BY Zenon, <2>2, <3>4, <3>5 DEF At, n
  \* A function on 1 .. n is a sequence.
  <2>FunctionIsSeq. ASSUME NEW S, NEW n \in Nat, NEW f \in [1 .. n -> S]
                    PROVE  f \in Seq(S)
    BY <2>FunctionIsSeq
  <2>8. sent \in Seq(Commands)
    <3> HIDE DEF cmd
    <3>1. upto - from \in Nat
      BY <2>3, <2>6
    <3>2. sent \in [1 .. upto - from -> Commands]
      BY Zenon, <2>7
    <3> QED
      BY Zenon, <3>1, <3>2, <2>FunctionIsSeq
  <2>9. AfterSnapshot(s) \in Seq(Commands)
    BY Zenon, <2>1 DEF AfterSnapshot
  <2>10. applied' = [applied EXCEPT ![s] = AfterSnapshot(s) \o sent]
         /\ lastApplied' = [lastApplied EXCEPT ![s] = upto]
    BY Zenon DEF applyLog, from, upto
  <2> HIDE DEF sent
  <2>11. AfterSnapshot(s) \o sent \in Seq(Commands)
    BY Zenon, <2>8, <2>9, ConcatFacts
  <2>12. applied' \in [Server -> Seq(Commands)] /\ lastApplied' \in [Server -> Nat]
    BY Zenon, <2>6, <2>10, <2>11 DEF TypeOK
  <2>13. applySnappending' \in [Server -> BOOLEAN]
    BY Zenon DEF applyLog, TypeOK
  <2> QED
    BY Zenon, <2>12, <2>13 DEF applyLog, TypeOK, electionVars, leaderVars, historyVars
\* TypeOK is preserved by a restart: what the persister holds is a state of a
\* peer.
<1>CrashType. ASSUME NEW s \in Server, Crash(s)
              PROVE  TypeOK'
  <2> USE <1>CrashType
  <2>1. persister[s] \in SavedState
    BY Zenon DEF TypeOK
  <2>2. /\ persister[s].CurrentTerm \in Nat /\ persister[s].VoteFor \in Server \cup {Unvote}
        /\ persister[s].Logs \in Log /\ persister[s].lastIncludedIndex \in Nat
        /\ persister[s].snapshot \in Seq(Commands)
    BY Zenon, <2>1 DEF SavedState
  <2>3. MessagesOK'
    BY Zenon, CutOffMessages DEF Crash, TypeOK, MessagesOK
  <2>4. /\ CurrentTerm' \in [Server -> Nat]
        /\ VoteFor' \in [Server -> Server \cup {Unvote}]
        /\ identity' \in [Server -> {"FOLLOWER", "CANDIDATE", "LEADER"}]
        /\ electionTimer' \in [Server -> BOOLEAN]
        /\ votes' \in [Server -> SUBSET Server]
    BY Zenon, <2>2 DEF Crash, TypeOK
  <2>5. /\ Logs' \in [Server -> Log]
        /\ lastIncludedIndex' \in [Server -> Nat]
        /\ committedIndex' \in [Server -> Nat]
        /\ lastApplied' \in [Server -> Nat]
        /\ snapshot' \in [Server -> Seq(Commands)]
        /\ applied' \in [Server -> Seq(Commands)]
        /\ applySnappending' \in [Server -> BOOLEAN]
    BY Zenon, <2>2 DEF Crash, TypeOK
  <2>6. /\ nextIndex' \in [Server -> [Server -> Nat]]
        /\ matchIndex' \in [Server -> [Server -> Nat]]
    <3>1. [p \in Server |-> 0] \in [Server -> Nat]
      BY Zenon
    <3>2. /\ nextIndex \in [Server -> [Server -> Nat]]
          /\ matchIndex \in [Server -> [Server -> Nat]]
      BY Zenon DEF TypeOK
    <3>3. /\ nextIndex'  = [nextIndex EXCEPT ![s] = [p \in Server |-> 0]]
          /\ matchIndex' = [matchIndex EXCEPT ![s] = [p \in Server |-> 0]]
      BY Zenon DEF Crash
    <3> QED
      BY Zenon, <3>1, <3>2, <3>3
  <2>7. crashes' \in Nat
    BY DEF Crash, TypeOK
  <2> QED
    BY Zenon, <2>3, <2>4, <2>5, <2>6, <2>7 DEF Crash, MessagesOK, TypeOK
<1>2. ASSUME NEW s \in Server,
             \/ ElectionTimeout(s) \/ LeaderTimerExpires(s) \/ HeartbeatTimeout(s)
             \/ applyLog(s) \/ Crash(s)
      PROVE  TypeOK'
  BY Zenon, <1>2, <1>ElectionTimeoutType, <1>LeaderTimerExpiresType, <1>HeartbeatTimeoutType,
     <1>ApplyLogType, <1>CrashType
\* TypeOK is preserved by Start(): the new entry is a log entry.
<1>StartType. ASSUME NEW s \in Server, NEW c \in Submits(s), Start(s, c)
              PROVE  TypeOK'
  <2> USE <1>StartType
  <2>1. Logs[s] \in Log /\ CurrentTerm[s] \in Nat /\ c \in Commands
    BY Zenon, PeerFacts, SubmitsAssumption DEF Commands
  <2>2. [Term |-> CurrentTerm[s], Command |-> c] \in LogEntry
    BY Zenon, <2>1, NewEntry
  \* One more element.
  <2>AppendFacts. ASSUME NEW S, NEW a \in Seq(S), NEW e \in S
                  PROVE  Append(a, e) \in Seq(S) /\ Len(Append(a, e)) = Len(a) + 1
    BY <2>AppendFacts
  <2>3. Append(Logs[s], [Term |-> CurrentTerm[s], Command |-> c]) \in Log
    BY <2>1, <2>2, LogFacts, <2>AppendFacts DEF Log
  <2>4. Logs' \in [Server -> Log] /\ Logs'[s] \in Log
    BY Zenon, <2>3 DEF Start, TypeOK
  <2>5. MessagesOK'
    BY Zenon, <2>4, <1>SendHeartBeatType DEF Start
  <2>6. persister' \in [Server -> SavedState]
    BY Zenon, <2>4, <1>PersistType DEF Start, TypeOK, electionVars, snapVars
  <2> QED
    BY Zenon, <2>4, <2>5, <2>6 DEF Start, TypeOK, MessagesOK, electionVars, leaderVars,
       snapVars,
       historyVars
\* The log after doSnapshot() cut it.
<1>TrimType. ASSUME NEW s \in Server, NEW index \in Nat, index > lastIncludedIndex[s]
             PROVE  Trim(s, Logs[s], index) \in Log
  <2> USE <1>TrimType
  <2>1. Logs[s] \in Log /\ lastIncludedIndex[s] \in Nat
    BY Zenon, PeerFacts
  <2>2. Len(Logs[s]) \in Nat \ {0}
    BY Zenon, <2>1, LogFacts
  <2>3. Min(RealIndex(s, index), Len(Logs[s]) - 1) + 1 \in 1 .. Len(Logs[s])
    BY <2>1, <2>2 DEF Min, RealIndex
  <2>4. Len(Logs[s]) \in Min(RealIndex(s, index), Len(Logs[s]) - 1) + 1 .. Len(Logs[s])
    BY <2>2, <2>3
  \* A non-empty piece of a log is a log.
  <2>SubLog. ASSUME NEW l \in Log, NEW i \in 1 .. Len(l), NEW j \in i .. Len(l)
             PROVE  SubSeq(l, i, j) \in Log
    <3> USE <2>SubLog
    <3>1. SubSeq(l, i, j) \in Seq(LogEntry) /\ Len(SubSeq(l, i, j)) = j - i + 1
      BY LogFacts
    <3> QED
      BY <3>1 DEF Log
  <2> QED
    BY Zenon, <2>1, <2>3, <2>4, <2>SubLog DEF Trim
\* TypeOK is preserved by Snapshot(): the cut log keeps an entry at position
\* 0.
<1>SnapshotType. ASSUME NEW s \in Server, NEW index \in 1 .. Len(applied[s]),
                        Snapshot(s, index)
                 PROVE  TypeOK'
  <2> USE <1>SnapshotType
  <2>1. /\ applied[s] \in Seq(Commands) /\ committedIndex[s] \in Nat /\ lastApplied[s] \in Nat
        /\ lastIncludedIndex[s] \in Nat
    BY Zenon, PeerFacts
  <2>2. index \in Nat /\ index > lastIncludedIndex[s] /\ index <= Len(applied[s])
    BY <2>1 DEF Snapshot
  <2>3. Trim(s, Logs[s], index) \in Log
    BY Zenon, <2>2, <1>TrimType
  <2>4. SubSeq(applied[s], 1, index) \in Seq(Commands)
    BY <2>1, <2>2
  <2>5. Max(committedIndex[s], index) \in Nat /\ Max(lastApplied[s], index) \in Nat
    BY Zenon, <2>1, <2>2 DEF Max
  <2>6. /\ Logs' \in [Server -> Log]
        /\ snapshot' \in [Server -> Seq(Commands)]
        /\ lastIncludedIndex' \in [Server -> Nat]
        /\ committedIndex' \in [Server -> Nat]
        /\ lastApplied' \in [Server -> Nat]
    BY Zenon, <2>2, <2>3, <2>4, <2>5 DEF Snapshot, TypeOK
  <2>7. persister' \in [Server -> SavedState]
    BY Zenon, <2>6, <1>PersistType DEF Snapshot, TypeOK, electionVars
  <2> QED
    BY Zenon, <2>6, <2>7 DEF Snapshot, TypeOK, electionVars, leaderVars, historyVars
<1>4. ASSUME NEW s \in Server, NEW i \in 1 .. Len(applied[s]), Snapshot(s, i) PROVE TypeOK'
  BY Zenon, <1>4, <1>SnapshotType
\* TypeOK is preserved by the RequestVote handler.
<1>RequestVoteType. ASSUME NEW m \in DOMAIN messages, RequestVote(m)
                    PROVE  TypeOK'
  <2> USE <1>RequestVoteType
  <2> DEFINE s == m.dst
  <2>1. m \in Message /\ m.type = "RequestVote"
    BY Zenon DEF TypeOK, RequestVote
  <2>2. s \in Server /\ m.src \in Server /\ m.Term \in Nat
    BY Zenon, <2>1, RequestVoteFields
  <2>3. CurrentTerm[s] \in Nat
    BY Zenon, <2>2, PeerFacts
  <2> HIDE DEF s
  <2>4. ElectionOK'
    <3>1. CASE UNCHANGED electionVars
      BY Zenon, <3>1 DEF electionVars, ElectionOK, TypeOK
    <3>2. CASE /\ BecomeFollower(s, m.Term)
               /\ electionTimer' = [electionTimer EXCEPT ![s] = @ \/ identity[s] # "FOLLOWER"]
      BY Zenon, <3>2, <2>2 DEF BecomeFollower, ElectionOK, TypeOK
    <3>3. CASE /\ CurrentTerm'   = [CurrentTerm EXCEPT ![s] = m.Term]
               /\ identity'      = [identity EXCEPT ![s] = "FOLLOWER"]
               /\ VoteFor'       = [VoteFor EXCEPT ![s] = m.src]
               /\ electionTimer' = [electionTimer EXCEPT ![s] = TRUE]
               /\ votes'         = [votes EXCEPT ![s] = {}]
      BY Zenon, <3>3, <2>2 DEF ElectionOK, TypeOK
    <3> QED
      BY Zenon, <3>1, <3>2, <3>3 DEF RequestVote, s
  <2>5. MessagesOK'
    <3>1. PICK t \in Nat, g \in BOOLEAN : Reply(m, RequestVoteReply(m, t, g))
      BY Zenon, <2>2, <2>3 DEF RequestVote, s
    <3> QED
      BY Zenon, <2>1, <3>1, RequestVoteReplyType, ReplyMessages DEF TypeOK, MessagesOK
  <2>6. persister' \in [Server -> SavedState]
    BY Zenon, <2>2, <2>4, <1>PersistType
       DEF RequestVote, s, ElectionOK, TypeOK, logVars, snapVars
  <2> QED
    BY Zenon, <2>4, <2>5, <2>6 DEF RequestVote, ElectionOK, MessagesOK, TypeOK, leaderVars,
       logVars, snapVars, historyVars
\* TypeOK is preserved by a RequestVote reply, whether stale, of a newer term
\* or granted.
<1>OnRequestVoteReplyType. ASSUME NEW m \in DOMAIN messages, OnRequestVoteReply(m)
                           PROVE  TypeOK'
  <2> USE <1>OnRequestVoteReplyType
  <2> DEFINE s == m.dst
  <2>1. m \in Message /\ m.type = "RequestVoteReply"
    BY Zenon DEF TypeOK, OnRequestVoteReply
  <2>2. s \in Server /\ m.src \in Server /\ m.Term \in Nat
    BY Zenon, <2>1, RequestVoteReplyFields
  <2>3. CurrentTerm[s] \in Nat /\ LastLogIndex(s) \in Nat
    BY Zenon, <2>2, PeerFacts, LastLogType
  <2> HIDE DEF s
  <2>4. MessagesOK'
    BY Zenon, ReceiveMessages DEF OnRequestVoteReply, TypeOK, MessagesOK
  <2>5. CASE UNCHANGED <<electionVars, leaderVars, persister, leaders>>
    BY Zenon, <2>4, <2>5 DEF OnRequestVoteReply, TypeOK, MessagesOK, electionVars, leaderVars,
       logVars, snapVars
  <2>6. CASE StepDown(s, m.Term) /\ UNCHANGED <<leaderVars, leaders>> /\ persist(s)
    <3>1. ElectionOK'
      BY Zenon, <2>2, <2>6, StepDownType
    <3>2. persister' \in [Server -> SavedState]
      BY Zenon, <2>2, <2>6, <3>1, <1>PersistType
         DEF OnRequestVoteReply, ElectionOK, TypeOK, logVars, snapVars
    <3> QED
      BY Zenon, <2>4, <2>6, <3>1, <3>2 DEF OnRequestVoteReply, ElectionOK, TypeOK, MessagesOK,
         leaderVars, logVars, snapVars
  <2>7. CASE /\ votes' = [votes EXCEPT ![s] = votes[s] \cup {m.src}]
             /\ identity'   = [identity EXCEPT ![s] = "LEADER"]
             /\ nextIndex'  = [nextIndex EXCEPT ![s] = [p \in Server |-> LastLogIndex(s) + 1]]
             /\ matchIndex' = [matchIndex EXCEPT ![s] = [p \in Server |-> 0]]
             /\ leaders'    = leaders \cup {<<s, CurrentTerm[s]>>}
             /\ UNCHANGED <<CurrentTerm, VoteFor, electionTimer, persister>>
    <3>1. votes' \in [Server -> SUBSET Server]
      BY Zenon, <2>2, <2>7 DEF TypeOK
    <3>2. leaders' \subseteq Server \X Nat
      <4>1. leaders \subseteq Server \X Nat /\ <<s, CurrentTerm[s]>> \in Server \X Nat
        BY Zenon, <2>2, <2>3 DEF TypeOK
      <4> QED
        BY Zenon, <2>7, <4>1
    <3>3. /\ nextIndex' \in [Server -> [Server -> Nat]]
          /\ matchIndex' \in [Server -> [Server -> Nat]]
      <4>1. [p \in Server |-> LastLogIndex(s) + 1] \in [Server -> Nat]
        BY <2>3
      <4>2. [p \in Server |-> 0] \in [Server -> Nat]
        BY Zenon
      <4>3. /\ nextIndex \in [Server -> [Server -> Nat]]
            /\ matchIndex \in [Server -> [Server -> Nat]]
        BY Zenon DEF TypeOK
      <4> QED
        BY Zenon, <2>2, <2>7, <4>1, <4>2, <4>3
    <3>4. identity' \in [Server -> {"FOLLOWER", "CANDIDATE", "LEADER"}]
      BY Zenon, <2>2, <2>7 DEF TypeOK
    <3> QED
      BY Zenon, <2>4, <2>7, <3>1, <3>2, <3>3, <3>4 DEF OnRequestVoteReply, TypeOK, MessagesOK,
         logVars, snapVars
  <2>8. CASE /\ votes' = [votes EXCEPT ![s] = votes[s] \cup {m.src}]
             /\ UNCHANGED <<identity, leaderVars, leaders>>
             /\ UNCHANGED <<CurrentTerm, VoteFor, electionTimer, persister>>
    <3>1. votes' \in [Server -> SUBSET Server]
      BY Zenon, <2>2, <2>8 DEF TypeOK
    <3> QED
      BY Zenon, <2>4, <2>8, <3>1 DEF OnRequestVoteReply, TypeOK, MessagesOK, leaderVars,
         logVars,
         snapVars
  <2> QED
    BY Zenon, <2>5, <2>6, <2>7, <2>8 DEF OnRequestVoteReply, s
\* TypeOK is preserved by the ApplyEntries handler: the merged log is a log.
<1>ApplyEntriesType. ASSUME NEW m \in DOMAIN messages, ApplyEntries(m)
                     PROVE  TypeOK'
  <2> USE <1>ApplyEntriesType
  <2> DEFINE s == m.dst
  <2>1. m \in Message /\ m.type = "ApplyEntries"
    BY Zenon DEF TypeOK, ApplyEntries
  <2>2. /\ s \in Server /\ m.src \in Server /\ m.Term \in Nat /\ m.LeaderCommit \in Nat
        /\ m.PrevLogIndex \in Nat
    BY Zenon, <2>1, ApplyEntriesFields
  <2>3. CurrentTerm[s] \in Nat /\ committedIndex[s] \in Nat /\ LastLogIndex(s) \in Nat
    BY Zenon, <2>2, PeerFacts, LastLogType
  <2> HIDE DEF s
  <2>4. ElectionOK'
    <3>1. CASE UNCHANGED electionVars
      BY Zenon, <3>1 DEF electionVars, ElectionOK, TypeOK
    <3>2. CASE FollowLeader(s, m.Term)
      BY Zenon, <2>2, <3>2, FollowLeaderType
    <3> QED
      BY Zenon, <3>1, <3>2 DEF ApplyEntries, s
  <2>5. /\ Logs' \in [Server -> Log] /\ committedIndex' \in [Server -> Nat]
        /\ lastApplied' = lastApplied
    <3>1. CASE UNCHANGED logVars
      BY Zenon, <3>1 DEF logVars, TypeOK
    <3>2. CASE /\ ReplicateCheck(s, m)
               /\ Logs' = [Logs EXCEPT ![s] = Merge(s, m)]
               /\ committedIndex' = [committedIndex EXCEPT ![s] = FollowerCommit(s, m)]
               /\ UNCHANGED lastApplied
      <4>1. Merge(s, m) \in Log
        BY Zenon, <2>1, <2>2, <3>2, MergeType
      <4>2. FollowerCommit(s, m) \in Nat
        BY <2>2, <2>3 DEF FollowerCommit, Min
      <4> QED
        BY Zenon, <2>2, <3>2, <4>1, <4>2 DEF TypeOK
    <3> QED
      BY Zenon, <3>1, <3>2 DEF ApplyEntries, s
  <2>6. MessagesOK'
    <3>1. CASE Reply(m, Mismatch(s, m))
      BY Zenon, <2>1, <2>2, <3>1, MismatchType, ReplyMessages DEF TypeOK, MessagesOK
    <3>2. ASSUME NEW t \in Nat, NEW b \in BOOLEAN, Reply(m, ApplyEntriesReply(m, t, b, 0, 0, 0))
          PROVE  MessagesOK'
      <4>1. ApplyEntriesReply(m, t, b, 0, 0, 0) \in Message
        BY Zenon, <2>1, ApplyEntriesReplyType
      <4> QED
        BY Zenon, <3>2, <4>1, ReplyMessages DEF TypeOK, MessagesOK
    <3> QED
      BY Zenon, <2>2, <2>3, <3>1, <3>2 DEF ApplyEntries, s
  <2>7. persister' \in [Server -> SavedState]
    BY Zenon, <2>2, <2>4, <2>5, <1>PersistType DEF ApplyEntries, s, ElectionOK, TypeOK, snapVars
  <2> QED
    BY Zenon, <2>4, <2>5, <2>6, <2>7 DEF ApplyEntries, ElectionOK, MessagesOK, TypeOK,
       leaderVars,
       snapVars, historyVars
\* TypeOK is preserved by an ApplyEntries reply: back-off, matchIndex and
\* commit stay naturals.
<1>OnApplyEntriesReplyType. ASSUME NEW m \in DOMAIN messages, OnApplyEntriesReply(m)
                            PROVE  TypeOK'
  <2> USE <1>OnApplyEntriesReplyType
  <2> DEFINE s == m.dst
             p == m.src
  <2>1. m \in Message /\ m.type = "ApplyEntriesReply"
    BY Zenon DEF TypeOK, OnApplyEntriesReply
  <2>2. /\ s \in Server /\ p \in Server /\ m.Term \in Nat /\ m.PrevLogIndex \in Nat
        /\ m.Count \in Nat
    BY Zenon, <2>1, ApplyEntriesReplyFields
  <2> HIDE DEF s, p
  <2>3. MessagesOK'
    BY Zenon, ReceiveMessages DEF OnApplyEntriesReply, TypeOK, MessagesOK
  <2>4. CASE UNCHANGED <<electionVars, leaderVars, committedIndex, persister>>
    BY Zenon, <2>3, <2>4 DEF OnApplyEntriesReply, TypeOK, MessagesOK, electionVars, leaderVars,
       snapVars, historyVars
  <2>5. CASE StepDown(s, m.Term) /\ UNCHANGED <<leaderVars, committedIndex>> /\ persist(s)
    <3>1. ElectionOK'
      BY Zenon, <2>2, <2>5, StepDownType
    <3>2. persister' \in [Server -> SavedState]
      BY Zenon, <2>2, <2>5, <3>1, <1>PersistType
         DEF OnApplyEntriesReply, ElectionOK, TypeOK, snapVars
    <3> QED
      BY Zenon, <2>3, <2>5, <3>1, <3>2 DEF OnApplyEntriesReply, ElectionOK, TypeOK, MessagesOK,
         leaderVars, snapVars, historyVars
  <2>6. CASE /\ nextIndex' = [nextIndex EXCEPT ![s][p] = BackOff(s, m)]
             /\ UNCHANGED <<electionVars, matchIndex, committedIndex, persister>>
    <3>1. BackOff(s, m) \in Nat
      BY Zenon, <2>1, <2>2, BackOffType
    <3>2. nextIndex' \in [Server -> [Server -> Nat]]
      BY Zenon, <2>2, <2>6, <3>1 DEF TypeOK
    <3> QED
      BY Zenon, <2>3, <2>6, <3>2 DEF OnApplyEntriesReply, TypeOK, MessagesOK, electionVars,
         snapVars, historyVars
  <2>7. CASE /\ matchIndex' = [matchIndex EXCEPT ![s][p] = LastSent(m)]
             /\ nextIndex'  = [nextIndex EXCEPT ![s][p] = LastSent(m) + 1]
             /\ updateCommittedIndex(s, matchIndex'[s])
             /\ UNCHANGED <<electionVars, persister>>
    <3>1. LastSent(m) \in Nat /\ LastSent(m) + 1 \in Nat
      BY <2>2 DEF LastSent
    <3>2. /\ nextIndex' \in [Server -> [Server -> Nat]]
          /\ matchIndex' \in [Server -> [Server -> Nat]]
      BY Zenon, <2>2, <2>7, <3>1 DEF TypeOK
    <3>3. committedIndex' \in [Server -> Nat]
      BY Zenon, <2>2, <2>7, UpdateCommittedIndexType
    <3> QED
      BY Zenon, <2>3, <2>7, <3>2, <3>3 DEF OnApplyEntriesReply, TypeOK, MessagesOK,
         electionVars,
         snapVars, historyVars
  <2> QED
    BY Zenon, <2>4, <2>5, <2>6, <2>7 DEF OnApplyEntriesReply, s, p
\* TypeOK is preserved by the InstallSnapshot handler: the log is cut or
\* replaced, never emptied.
<1>InstallSnapshotType. ASSUME NEW m \in DOMAIN messages, InstallSnapshot(m)
                        PROVE  TypeOK'
  <2> USE <1>InstallSnapshotType
  <2> DEFINE s == m.dst
  <2>1. m \in Message /\ m.type = "InstallSnapshot"
    BY Zenon DEF TypeOK, InstallSnapshot
  <2>2. /\ s \in Server /\ m.src \in Server /\ m.Term \in Nat /\ m.LastIncludedIndex \in Nat
        /\ m.LastIncludedTerm \in Nat /\ m.Data \in Seq(Commands)
    BY Zenon, <2>1, InstallSnapshotFields
  <2>3. CurrentTerm[s] \in Nat
    BY Zenon, <2>2, PeerFacts
  <2> HIDE DEF s
  <2>4. ElectionOK'
    <3>1. CASE UNCHANGED electionVars
      BY Zenon, <3>1 DEF electionVars, ElectionOK, TypeOK
    <3>2. CASE FollowLeader(s, m.Term)
      BY Zenon, <2>2, <3>2, FollowLeaderType
    <3> QED
      BY Zenon, <3>1, <3>2 DEF InstallSnapshot, s
  <2>5. MessagesOK'
    <3>1. PICK t \in Nat : Reply(m, InstallSnapshotReply(m, t))
      BY Zenon, <2>2, <2>3 DEF InstallSnapshot, s
    <3> QED
      BY Zenon, <2>1, <3>1, InstallSnapshotReplyType, ReplyMessages DEF TypeOK, MessagesOK
  <2>6. CASE UNCHANGED <<Logs, snapVars, persister>>
    BY Zenon, <2>4, <2>5, <2>6 DEF InstallSnapshot, ElectionOK, MessagesOK, TypeOK, leaderVars,
       snapVars, historyVars
  <2>7. CASE
          /\ lastIncludedIndex[s] < m.LastIncludedIndex
          /\ lastIncludedIndex' = [lastIncludedIndex EXCEPT ![s] = m.LastIncludedIndex]
          /\ snapshot' = [snapshot EXCEPT ![s] = m.Data]
          /\ Logs' = [Logs EXCEPT ![s] =
                        IF HoldsLastIncluded(s, m) THEN Trim(s, @, m.LastIncludedIndex)
                        ELSE <<[Term |-> m.LastIncludedTerm, Command |-> NoCommand]>>]
          /\ applySnappending' = [applySnappending EXCEPT ![s] = TRUE]
          /\ persist(s)
    <3>1. Trim(s, Logs[s], m.LastIncludedIndex) \in Log
      BY Zenon, <2>2, <2>7, PeerFacts, <1>TrimType
    <3>2. <<[Term |-> m.LastIncludedTerm, Command |-> NoCommand]>> \in Log
      <4>1. [Term |-> m.LastIncludedTerm, Command |-> NoCommand] \in LogEntry
        BY Zenon, <2>2, NewEntry DEF Commands
      <4> QED
        BY <4>1 DEF Log
    <3>3. /\ Logs' \in [Server -> Log]
          /\ lastIncludedIndex' \in [Server -> Nat]
          /\ snapshot' \in [Server -> Seq(Commands)]
          /\ applySnappending' \in [Server -> BOOLEAN]
      BY Zenon, <2>2, <2>7, <3>1, <3>2 DEF TypeOK
    <3>4. persister' \in [Server -> SavedState]
      BY Zenon, <2>2, <2>4, <2>7, <3>3, <1>PersistType DEF ElectionOK, TypeOK
    <3> QED
      BY Zenon, <2>4, <2>5, <3>3, <3>4 DEF InstallSnapshot, ElectionOK, MessagesOK, TypeOK,
         leaderVars, historyVars
  <2> QED
    BY Zenon, <2>6, <2>7 DEF InstallSnapshot, s
\* TypeOK is preserved by an InstallSnapshot reply.
<1>OnInstallSnapshotReplyType. ASSUME NEW m \in DOMAIN messages,
                                      OnInstallSnapshotReply(m)
                               PROVE  TypeOK'
  <2> USE <1>OnInstallSnapshotReplyType
  <2> DEFINE s == m.dst
             p == m.src
  <2>1. m \in Message /\ m.type = "InstallSnapshotReply"
    BY Zenon DEF TypeOK, OnInstallSnapshotReply
  <2>2. s \in Server /\ p \in Server /\ m.Term \in Nat /\ m.LastIncludedIndex \in Nat
    BY Zenon, <2>1, InstallSnapshotReplyFields
  <2> HIDE DEF s, p
  <2>3. MessagesOK'
    BY Zenon, ReceiveMessages DEF OnInstallSnapshotReply, TypeOK, MessagesOK
  <2>4. CASE UNCHANGED <<electionVars, leaderVars, persister>>
    BY Zenon, <2>3, <2>4 DEF OnInstallSnapshotReply, TypeOK, MessagesOK, electionVars,
       leaderVars,
       logVars, snapVars, historyVars
  <2>5. CASE StepDown(s, m.Term) /\ UNCHANGED leaderVars /\ persist(s)
    <3>1. ElectionOK'
      BY Zenon, <2>2, <2>5, StepDownType
    <3>2. persister' \in [Server -> SavedState]
      BY Zenon, <2>2, <2>5, <3>1, <1>PersistType
         DEF OnInstallSnapshotReply, ElectionOK, TypeOK, logVars, snapVars
    <3> QED
      BY Zenon, <2>3, <2>5, <3>1, <3>2 DEF OnInstallSnapshotReply, ElectionOK, TypeOK,
         MessagesOK,
         leaderVars, logVars, snapVars, historyVars
  <2>6. CASE /\ matchIndex' = [matchIndex EXCEPT ![s][p] = m.LastIncludedIndex]
             /\ nextIndex'  = [nextIndex EXCEPT ![s][p] = m.LastIncludedIndex + 1]
             /\ UNCHANGED <<electionVars, persister>>
    <3>1. /\ nextIndex' \in [Server -> [Server -> Nat]]
          /\ matchIndex' \in [Server -> [Server -> Nat]]
      <4>1. m.LastIncludedIndex \in Nat /\ m.LastIncludedIndex + 1 \in Nat
        BY <2>2
      <4> QED
        BY Zenon, <2>2, <2>6, <4>1 DEF TypeOK
    <3> QED
      BY Zenon, <2>3, <2>6, <3>1 DEF OnInstallSnapshotReply, TypeOK, MessagesOK, electionVars,
         logVars, snapVars, historyVars
  <2> QED
    BY Zenon, <2>4, <2>5, <2>6 DEF OnInstallSnapshotReply, s, p
<1>5. ASSUME NEW m \in DOMAIN messages,
             \/ RequestVote(m) \/ OnRequestVoteReply(m)
             \/ ApplyEntries(m) \/ OnApplyEntriesReply(m)
             \/ InstallSnapshot(m) \/ OnInstallSnapshotReply(m)
      PROVE  TypeOK'
  BY Zenon, <1>5, <1>RequestVoteType, <1>OnRequestVoteReplyType, <1>ApplyEntriesType,
     <1>OnApplyEntriesReplyType, <1>InstallSnapshotType, <1>OnInstallSnapshotReplyType
<1> QED
  BY Zenon, <1>1, <1>2, <1>StartType, <1>4, <1>5 DEF Next

-----------------------------------------------------------------------------
(***************************************************************************)
(* What a step can do to the term, the vote and the persister of one peer. *)
(***************************************************************************)

\* Stepping down moves to a later term without a vote, and affects one peer.
LEMMA StepDownVote ==
  ASSUME TypeOK, NEW s \in Server, NEW t \in Nat, t > CurrentTerm[s], BecomeFollower(s, t)
  PROVE  /\ CurrentTerm'[s] = t /\ VoteFor'[s] = Unvote /\ votes'[s] = {}
         /\ \A v \in Server : v # s => /\ CurrentTerm'[v] = CurrentTerm[v]
                                       /\ VoteFor'[v] = VoteFor[v]
                                       /\ votes'[v] = votes[v]
BY Zenon DEF BecomeFollower, TypeOK

\* Following a leader keeps the term and the vote, or steps down.
LEMMA FollowLeaderVote ==
  ASSUME TypeOK, NEW s \in Server, NEW t \in Nat, FollowLeader(s, t)
  PROVE  /\ \/ CurrentTerm'[s] > CurrentTerm[s] /\ VoteFor'[s] = Unvote /\ votes'[s] = {}
            \/ /\ CurrentTerm'[s] = CurrentTerm[s] /\ VoteFor'[s] = VoteFor[s]
               /\ votes'[s] = votes[s]
         /\ \A v \in Server : v # s => /\ CurrentTerm'[v] = CurrentTerm[v]
                                       /\ VoteFor'[v] = VoteFor[v]
                                       /\ votes'[v] = votes[v]
<1>1. CASE t > CurrentTerm[s] /\ StepDown(s, t)
  BY Zenon, <1>1, StepDownVote DEF StepDown
<1>2. CASE UNCHANGED <<CurrentTerm, VoteFor, votes>>
  BY Zenon, <1>2
<1> QED
  BY Zenon, <1>1, <1>2 DEF FollowLeader

\* Every step but a crash is one of the first three, for every peer.
LEMMA NextLive ==
  ASSUME TypeOK, [Next]_vars, \A s \in Server : ~Crash(s), NEW v \in Server
  PROVE  LiveStep(v)
<1>1. CASE UNCHANGED vars
  BY Zenon, <1>1 DEF vars, electionVars, LiveStep, Untouched
\* LiveStep holds, peer by peer, of an election: ticker() raises the term and
\* votes for itself.
<1>ElectionTimeoutVote. ASSUME NEW s \in Server, ElectionTimeout(s)
                        PROVE  LiveStep(v)
  <2> USE <1>ElectionTimeoutVote
  <2>1. CurrentTerm[s] \in Nat
    BY Zenon, PeerFacts
  <2>2. CASE v = s
    <3>1. CurrentTerm'[s] = CurrentTerm[s] + 1
      BY Zenon DEF ElectionTimeout, TypeOK
    <3> QED
      BY <2>1, <2>2, <3>1, PersistOne DEF ElectionTimeout, LiveStep, SavedForward, Forward
  <2>3. CASE v # s
    <3>1. CurrentTerm'[v] = CurrentTerm[v] /\ VoteFor'[v] = VoteFor[v]
      BY Zenon, <2>3 DEF ElectionTimeout, TypeOK
    <3> QED
      BY Zenon, <2>3, <3>1, PersistOne DEF ElectionTimeout, LiveStep, Untouched
  <2> QED
    BY Zenon, <2>2, <2>3
<1>3. ASSUME NEW s \in Server, LeaderTimerExpires(s) \/ HeartbeatTimeout(s) \/ applyLog(s)
      PROVE  LiveStep(v)
  BY Zenon, <1>3 DEF LeaderTimerExpires, HeartbeatTimeout, applyLog, electionVars, LiveStep,
     Untouched
<1>4. ASSUME NEW s \in Server, UNCHANGED electionVars, persist(s) PROVE LiveStep(v)
  <2>1. CurrentTerm'[v] = CurrentTerm[v] /\ VoteFor'[v] = VoteFor[v]
    BY Zenon, <1>4 DEF electionVars
  <2>2. CASE v = s
    <3>1. CurrentTerm[v] \in Nat
      BY Zenon, PeerFacts
    <3>2. persister'[v].CurrentTerm = CurrentTerm'[v] /\ persister'[v].VoteFor = VoteFor'[v]
      BY Zenon, <1>4, <2>2, PersistOne
    <3> QED
      BY <2>1, <3>1, <3>2 DEF LiveStep, SavedForward, Forward
  <2>3. CASE v # s
    BY Zenon, <1>4, <2>1, <2>3, PersistOne DEF LiveStep, Untouched
  <2> QED
    BY Zenon, <2>2, <2>3
<1>5. ASSUME NEW s \in Server, NEW c \in Submits(s), Start(s, c) PROVE LiveStep(v)
  BY Zenon, <1>4, <1>5 DEF Start
<1>6. ASSUME NEW s \in Server, NEW i \in 1 .. Len(applied[s]), Snapshot(s, i)
      PROVE  LiveStep(v)
  BY Zenon, <1>4, <1>6 DEF Snapshot
\* LiveStep holds, peer by peer, of the RequestVote handler.
<1>RequestVoteVote. ASSUME NEW m \in DOMAIN messages, RequestVote(m)
                    PROVE  LiveStep(v)
  <2> USE <1>RequestVoteVote
  <2> DEFINE s == m.dst
  <2>1. m \in Message /\ m.type = "RequestVote"
    BY Zenon DEF TypeOK, RequestVote
  <2>2. s \in Server /\ m.src \in Server /\ m.Term \in Nat
    BY Zenon, <2>1, RequestVoteFields
  <2>3. CurrentTerm[s] \in Nat
    BY Zenon, <2>2, PeerFacts
  <2>4. persist(s)
    BY Zenon DEF RequestVote
  <2> HIDE DEF s
  <2>5. CASE v # s
    <3>1. CurrentTerm'[v] = CurrentTerm[v] /\ VoteFor'[v] = VoteFor[v]
      BY Zenon, <2>2, <2>5 DEF RequestVote, s, electionVars, BecomeFollower, TypeOK
    <3> QED
      BY Zenon, <2>2, <2>4, <2>5, <3>1, PersistOne DEF LiveStep, Untouched
  <2>6. CASE v = s
    <3>1. Forward(s)
      <4>1. CASE UNCHANGED electionVars
        BY <2>3, <4>1 DEF Forward, electionVars
      <4>2. CASE m.Term > CurrentTerm[s] /\ BecomeFollower(s, m.Term)
        BY <2>2, <2>3, <4>2, StepDownVote DEF Forward
      <4>3. CASE /\ ~VoteRefused(s, m)
                 /\ CurrentTerm'   = [CurrentTerm EXCEPT ![s] = m.Term]
                 /\ VoteFor'       = [VoteFor EXCEPT ![s] = m.src]
        <5>1. CurrentTerm'[s] = m.Term /\ VoteFor'[s] = m.src
          BY Zenon, <2>2, <4>3 DEF TypeOK
        <5> QED
          BY <2>2, <2>3, <4>3, <5>1 DEF Forward, VoteRefused
      <4> QED
        BY Zenon, <4>1, <4>2, <4>3 DEF RequestVote, s
    <3> QED
      BY Zenon, <2>2, <2>4, <2>6, <3>1, PersistOne DEF LiveStep, SavedForward
  <2> QED
    BY Zenon, <2>5, <2>6
\* The three reply handlers step down alike.
<1>StepDownSaved. ASSUME NEW s \in Server, NEW t \in Nat, t > CurrentTerm[s],
                         StepDown(s, t), persist(s)
                  PROVE  LiveStep(v)
  <2> USE <1>StepDownSaved
  <2>1. CurrentTerm[s] \in Nat
    BY Zenon, PeerFacts
  <2>2. BecomeFollower(s, t)
    BY Zenon DEF StepDown
  <2>3. CASE v = s
    BY <2>1, <2>2, <2>3, StepDownVote, PersistOne DEF LiveStep, SavedForward, Forward
  <2>4. CASE v # s
    BY <2>2, <2>4, StepDownVote, PersistOne DEF LiveStep, Untouched
  <2> QED
    BY Zenon, <2>3, <2>4
\* LiveStep holds, peer by peer, of a RequestVote reply, whether stale, of a
\* newer term or granted.
<1>OnRequestVoteReplyVote. ASSUME NEW m \in DOMAIN messages, OnRequestVoteReply(m)
                           PROVE  LiveStep(v)
  <2> USE <1>OnRequestVoteReplyVote
  <2>1. m \in Message /\ m.type = "RequestVoteReply"
    BY Zenon DEF TypeOK, OnRequestVoteReply
  <2>2. m.dst \in Server /\ m.Term \in Nat
    BY Zenon, <2>1, RequestVoteReplyFields
  <2>3. CASE UNCHANGED <<CurrentTerm, VoteFor, persister>>
    BY Zenon, <2>3 DEF LiveStep, Untouched
  <2>4. CASE m.Term > CurrentTerm[m.dst] /\ StepDown(m.dst, m.Term) /\ persist(m.dst)
    BY Zenon, <2>2, <2>4, <1>StepDownSaved
  <2> QED
    BY Zenon, <2>3, <2>4 DEF OnRequestVoteReply, electionVars
\* LiveStep holds, peer by peer, of an ApplyEntries reply: back-off,
\* matchIndex and commit stay naturals.
<1>OnApplyEntriesReplyVote. ASSUME NEW m \in DOMAIN messages, OnApplyEntriesReply(m)
                            PROVE  LiveStep(v)
  <2> USE <1>OnApplyEntriesReplyVote
  <2>1. m \in Message /\ m.type = "ApplyEntriesReply"
    BY Zenon DEF TypeOK, OnApplyEntriesReply
  <2>2. m.dst \in Server /\ m.Term \in Nat
    BY Zenon, <2>1, ApplyEntriesReplyFields
  <2>3. CASE UNCHANGED <<CurrentTerm, VoteFor, persister>>
    BY Zenon, <2>3 DEF LiveStep, Untouched
  <2>4. CASE m.Term > CurrentTerm[m.dst] /\ StepDown(m.dst, m.Term) /\ persist(m.dst)
    BY Zenon, <2>2, <2>4, <1>StepDownSaved
  <2> QED
    BY Zenon, <2>3, <2>4 DEF OnApplyEntriesReply, electionVars
\* LiveStep holds, peer by peer, of an InstallSnapshot reply.
<1>OnInstallSnapshotReplyVote. ASSUME NEW m \in DOMAIN messages,
                                      OnInstallSnapshotReply(m)
                               PROVE  LiveStep(v)
  <2> USE <1>OnInstallSnapshotReplyVote
  <2>1. m \in Message /\ m.type = "InstallSnapshotReply"
    BY Zenon DEF TypeOK, OnInstallSnapshotReply
  <2>2. m.dst \in Server /\ m.Term \in Nat
    BY Zenon, <2>1, InstallSnapshotReplyFields
  <2>3. CASE UNCHANGED <<CurrentTerm, VoteFor, persister>>
    BY Zenon, <2>3 DEF LiveStep, Untouched
  <2>4. CASE m.Term > CurrentTerm[m.dst] /\ StepDown(m.dst, m.Term) /\ persist(m.dst)
    BY Zenon, <2>2, <2>4, <1>StepDownSaved
  <2> QED
    BY Zenon, <2>3, <2>4 DEF OnInstallSnapshotReply, electionVars
\* ApplyEntries() and InstallSnapshot() follow the leader alike.
<1>FollowLeaderSaved. ASSUME NEW s \in Server, NEW t \in Nat, FollowLeader(s, t),
                             persist(s)
                      PROVE  LiveStep(v)
  <2> USE <1>FollowLeaderSaved
  <2>1. CurrentTerm[s] \in Nat /\ CurrentTerm'[s] \in Nat
    BY Zenon, PeerFacts, FollowLeaderType DEF ElectionOK
  <2>2. CASE v = s
    <3>1. Forward(s)
      <4>1. CASE CurrentTerm'[s] > CurrentTerm[s]
        BY <2>1, <4>1 DEF Forward
      <4>2. CASE CurrentTerm'[s] = CurrentTerm[s] /\ VoteFor'[s] = VoteFor[s]
        BY <2>1, <4>2 DEF Forward
      <4> QED
        BY Zenon, <4>1, <4>2, FollowLeaderVote
    <3> QED
      BY Zenon, <2>2, <3>1, PersistOne DEF LiveStep, SavedForward
  <2>3. CASE v # s
    <3>1. CurrentTerm'[v] = CurrentTerm[v] /\ VoteFor'[v] = VoteFor[v]
      BY Zenon, <2>3, FollowLeaderVote
    <3> QED
      BY Zenon, <2>3, <3>1, PersistOne DEF LiveStep, Untouched
  <2> QED
    BY Zenon, <2>2, <2>3
\* LiveStep holds, peer by peer, of the ApplyEntries handler: the merged log
\* is a log.
<1>ApplyEntriesVote. ASSUME NEW m \in DOMAIN messages, ApplyEntries(m)
                     PROVE  LiveStep(v)
  <2> USE <1>ApplyEntriesVote
  <2> DEFINE s == m.dst
  <2>1. m \in Message /\ m.type = "ApplyEntries"
    BY Zenon DEF TypeOK, ApplyEntries
  <2>2. s \in Server /\ m.Term \in Nat
    BY Zenon, <2>1, ApplyEntriesFields
  <2>3. CurrentTerm[s] \in Nat
    BY Zenon, <2>2, PeerFacts
  <2>4. persist(s)
    BY Zenon DEF ApplyEntries
  <2>5. UNCHANGED electionVars \/ FollowLeader(s, m.Term)
    BY Zenon DEF ApplyEntries
  <2> HIDE DEF s
  <2>6. CASE UNCHANGED electionVars
    BY <2>2, <2>3, <2>4, <2>6, PersistOne
       DEF electionVars, LiveStep, Untouched, SavedForward, Forward
  <2>7. CASE FollowLeader(s, m.Term)
    BY Zenon, <2>2, <2>4, <2>7, <1>FollowLeaderSaved
  <2> QED
    BY Zenon, <2>5, <2>6, <2>7
\* LiveStep holds, peer by peer, of the InstallSnapshot handler: the log is
\* cut or replaced, never emptied.
<1>InstallSnapshotVote. ASSUME NEW m \in DOMAIN messages, InstallSnapshot(m)
                        PROVE  LiveStep(v)
  <2> USE <1>InstallSnapshotVote
  <2> DEFINE s == m.dst
  <2>1. m \in Message /\ m.type = "InstallSnapshot"
    BY Zenon DEF TypeOK, InstallSnapshot
  <2>2. s \in Server /\ m.Term \in Nat
    BY Zenon, <2>1, InstallSnapshotFields
  <2>3. CurrentTerm[s] \in Nat
    BY Zenon, <2>2, PeerFacts
  <2>4. \/ UNCHANGED electionVars /\ UNCHANGED persister
        \/ FollowLeader(s, m.Term) /\ UNCHANGED persister
        \/ FollowLeader(s, m.Term) /\ persist(s)
    BY Zenon DEF InstallSnapshot
  <2> HIDE DEF s
  <2>5. CASE UNCHANGED electionVars /\ UNCHANGED persister
    BY Zenon, <2>5 DEF electionVars, LiveStep, Untouched
  <2>6. CASE FollowLeader(s, m.Term) /\ UNCHANGED persister
    BY Zenon, <2>2, <2>6, FollowLeaderVote DEF LiveStep, Untouched, NewTermUnsaved
  <2>7. CASE FollowLeader(s, m.Term) /\ persist(s)
    BY Zenon, <2>2, <2>7, <1>FollowLeaderSaved
  <2> QED
    BY Zenon, <2>4, <2>5, <2>6, <2>7
<1>7. ASSUME NEW m \in DOMAIN messages,
             \/ RequestVote(m) \/ OnRequestVoteReply(m)
             \/ ApplyEntries(m) \/ OnApplyEntriesReply(m)
             \/ InstallSnapshot(m) \/ OnInstallSnapshotReply(m)
      PROVE  LiveStep(v)
  BY Zenon, <1>7, <1>RequestVoteVote, <1>OnRequestVoteReplyVote, <1>ApplyEntriesVote,
     <1>OnApplyEntriesReplyVote, <1>InstallSnapshotVote, <1>OnInstallSnapshotReplyVote
<1> QED
  BY Zenon, <1>1, <1>ElectionTimeoutVote, <1>3, <1>5, <1>6, <1>7 DEF Next

\* Every step of the system is one of the four, for every peer.
LEMMA NextVote ==
  ASSUME TypeOK, [Next]_vars, NEW v \in Server
  PROVE  VoteStep(v)
<1>1. ASSUME NEW s \in Server, Crash(s) PROVE VoteStep(v)
  BY Zenon, <1>1 DEF Crash, TypeOK, VoteStep, LiveStep, Untouched, Restored
<1> QED
  BY Zenon, <1>1, NextLive DEF VoteStep

\* A vote is saved before the lock is released, again after every step.
LEMMA VoteSavedStep ==
  ASSUME TypeOK, TypeOK', VoteSaved, [Next]_vars
  PROVE  VoteSaved'
<1> SUFFICES ASSUME NEW s \in Server
             PROVE  \/ /\ persister'[s].CurrentTerm = CurrentTerm'[s]
                       /\ persister'[s].VoteFor = VoteFor'[s]
                    \/ persister'[s].CurrentTerm < CurrentTerm'[s] /\ VoteFor'[s] = Unvote
  BY Zenon DEF VoteSaved
<1>1. VoteStep(s)
  BY Zenon, NextVote
<1>2. CurrentTerm[s] \in Nat /\ CurrentTerm'[s] \in Nat /\ persister[s].CurrentTerm \in Nat
  BY Zenon DEF TypeOK, SavedState
<1> QED
  BY <1>1, <1>2 DEF VoteSaved, VoteStep, LiveStep, Untouched, SavedForward, Forward,
     NewTermUnsaved, Restored

\* What is on disk only moves forward: a later term, or the same vote.
LEMMA DiskForward ==
  ASSUME TypeOK, TypeOK', VoteSaved, [Next]_vars, NEW s \in Server
  PROVE  /\ persister'[s].CurrentTerm >= persister[s].CurrentTerm
         /\ (/\ persister'[s].CurrentTerm = persister[s].CurrentTerm
             /\ persister[s].VoteFor # Unvote)
              => persister'[s].VoteFor = persister[s].VoteFor
<1>1. VoteStep(s)
  BY Zenon, NextVote
<1>2. /\ CurrentTerm[s] \in Nat /\ CurrentTerm'[s] \in Nat
      /\ persister[s].CurrentTerm \in Nat /\ persister'[s].CurrentTerm \in Nat
  BY Zenon DEF TypeOK, SavedState
<1> QED
  BY <1>1, <1>2 DEF VoteSaved, VoteStep, LiveStep, Untouched, SavedForward, Forward,
     NewTermUnsaved, Restored

-----------------------------------------------------------------------------
(***************************************************************************)
(* New evidence of a vote is backed by the disk.                           *)
(***************************************************************************)

\* No evidence appears when no vote is counted and no vote is sent.
LEMMA QuietStep ==
  ASSUME NEW v, NEW i, NEW t,
         v \in votes'[i] => v \in votes[i] /\ CurrentTerm'[i] = CurrentTerm[i],
         \A m \in DOMAIN messages' :
           m.type = "RequestVoteReply" /\ m.VoteGranted => m \in DOMAIN messages
  PROVE  Backed(v, i, t)
BY Zenon DEF Backed, Evidence

\* Every step backs the evidence it creates.
LEMMA NextBacked ==
  ASSUME TypeOK, [Next]_vars, NEW v \in Server, NEW i \in Server, NEW t \in Nat
  PROVE  Backed(v, i, t)
<1>1. ASSUME UNCHANGED <<electionVars, messages>> PROVE Backed(v, i, t)
  BY Zenon, <1>1, QuietStep DEF electionVars
<1>2. CASE UNCHANGED vars
  BY Zenon, <1>1, <1>2 DEF vars
\* New evidence of a vote is backed by the voter in an election: ticker()
\* raises the term and votes for itself.
<1>ElectionTimeoutBacked. ASSUME NEW s \in Server, ElectionTimeout(s)
                          PROVE  Backed(v, i, t)
  <2> USE <1>ElectionTimeoutBacked
  <2>1. \A m \in DOMAIN messages' : m.type = "RequestVoteReply" => m \in DOMAIN messages
    BY DEF ElectionTimeout, Send
  <2>2. CASE i = s
    <3>1. votes'[s] = {s} /\ VoteFor'[s] = s
      BY Zenon DEF ElectionTimeout, TypeOK
    <3>2. OnDisk(s, s, CurrentTerm[s])'
      BY Zenon, <3>1, PersistOne DEF ElectionTimeout, OnDisk
    <3> QED
      BY Zenon, <2>1, <2>2, <3>1, <3>2 DEF Backed, Evidence, OnDisk
  <2>3. CASE i # s
    <3>1. votes'[i] = votes[i] /\ CurrentTerm'[i] = CurrentTerm[i]
      BY Zenon, <2>3 DEF ElectionTimeout, TypeOK
    <3> QED
      BY Zenon, <2>1, <3>1, QuietStep
  <2> QED
    BY Zenon, <2>2, <2>3
<1>4. ASSUME NEW s \in Server, LeaderTimerExpires(s) PROVE Backed(v, i, t)
  BY Zenon, <1>4, QuietStep DEF LeaderTimerExpires
\* What a leader sends is no vote.
<1>HeartBeatQuiet. ASSUME NEW s, NEW log, sendHeartBeat(s, log)
                   PROVE  \A k \in DOMAIN messages' :
                            k.type = "RequestVoteReply" => k \in DOMAIN messages
  <2> USE <1>HeartBeatQuiet
  <2>1. PICK kept \in SUBSET {HeartBeatTo(s, p, log) : p \in Server \ {s}} :
          DOMAIN messages' = DOMAIN messages \cup kept
    BY Zenon DEF sendHeartBeat, Send
  <2>2. ASSUME NEW p PROVE HeartBeatTo(s, p, log).type # "RequestVoteReply"
    BY Zenon DEF HeartBeatTo
  <2> QED
    BY Zenon, <2>1, <2>2
<1>5. ASSUME NEW s \in Server, HeartbeatTimeout(s) PROVE Backed(v, i, t)
  BY Zenon, <1>5, <1>HeartBeatQuiet, QuietStep DEF HeartbeatTimeout, electionVars
<1>6. ASSUME NEW s \in Server, NEW c \in Submits(s), Start(s, c) PROVE Backed(v, i, t)
  BY Zenon, <1>6, <1>HeartBeatQuiet, QuietStep DEF Start, electionVars
<1>7. ASSUME NEW s \in Server, NEW x \in 1 .. Len(applied[s]), Snapshot(s, x)
      PROVE  Backed(v, i, t)
  BY Zenon, <1>1, <1>7 DEF Snapshot
<1>8. ASSUME NEW s \in Server, applyLog(s) PROVE Backed(v, i, t)
  BY Zenon, <1>1, <1>8 DEF applyLog
\* New evidence of a vote is backed by the voter in a restart: what the
\* persister holds is a state of a peer.
<1>CrashBacked. ASSUME NEW s \in Server, Crash(s)
                PROVE  Backed(v, i, t)
  <2> USE <1>CrashBacked
  <2>1. \A k \in DOMAIN messages' : k.type = "RequestVoteReply" => k \in DOMAIN messages
    <3> SUFFICES ASSUME NEW k \in DOMAIN messages', k.type = "RequestVoteReply"
                 PROVE  k \in DOMAIN messages
      BY Zenon
    <3>1. PICK m \in DOMAIN messages : k = Orphan(m, s)
      BY Zenon, CutOffMessages DEF Crash, TypeOK, MessagesOK
    <3>2. m \in Message /\ k.type = m.type
      BY Zenon, <3>1, OrphanMessage DEF TypeOK
    <3>3. ~IsRequest(m)
      BY Zenon, <3>2 DEF IsRequest
    <3> QED
      BY Zenon, <3>1, <3>3 DEF Orphan
  <2>2. v \in votes'[i] => v \in votes[i] /\ CurrentTerm'[i] = CurrentTerm[i]
    BY Zenon DEF Crash, TypeOK
  <2> QED
    BY Zenon, <2>1, <2>2, QuietStep
\* New evidence of a vote is backed by the voter in the RequestVote handler.
<1>RequestVoteBacked. ASSUME NEW m \in DOMAIN messages, RequestVote(m)
                      PROVE  Backed(v, i, t)
  <2> USE <1>RequestVoteBacked
  <2> DEFINE s == m.dst
  <2>1. m \in Message /\ m.type = "RequestVote"
    BY Zenon DEF TypeOK, RequestVote
  <2>2. s \in Server /\ m.src \in Server /\ m.Term \in Nat
    BY Zenon, <2>1, RequestVoteFields
  <2>3. CurrentTerm[s] \in Nat
    BY Zenon, <2>2, PeerFacts
  <2>4. persist(s)
    BY Zenon DEF RequestVote
  <2>5. v \in votes'[i] => v \in votes[i] /\ CurrentTerm'[i] = CurrentTerm[i]
    <3>1. CASE UNCHANGED electionVars
      BY Zenon, <3>1 DEF electionVars
    <3>2. CASE /\ CurrentTerm' = [CurrentTerm EXCEPT ![s] = m.Term]
               /\ votes' = [votes EXCEPT ![s] = {}]
      BY Zenon, <2>2, <3>2 DEF TypeOK
    <3> QED
      BY Zenon, <3>1, <3>2 DEF RequestVote, BecomeFollower
  <2>6. CASE \E term \in Nat : Reply(m, RequestVoteReply(m, term, FALSE))
    <3>1. PICK term \in Nat : Reply(m, RequestVoteReply(m, term, FALSE))
      BY Zenon, <2>6
    <3>2. DOMAIN messages' \subseteq DOMAIN messages \cup {RequestVoteReply(m, term, FALSE)}
      BY Zenon, <2>1, <3>1, RequestVoteReplyType, ReplyMessages DEF TypeOK, MessagesOK
    <3>3. ~RequestVoteReply(m, term, FALSE).VoteGranted
      BY Zenon DEF RequestVoteReply
    <3> QED
      BY Zenon, <2>5, <3>2, <3>3, QuietStep
  <2>7. CASE /\ CurrentTerm' = [CurrentTerm EXCEPT ![s] = m.Term]
             /\ VoteFor'     = [VoteFor EXCEPT ![s] = m.src]
             /\ Reply(m, RequestVoteReply(m, m.Term, TRUE))
    <3>1. OnDisk(s, m.src, m.Term)'
      BY Zenon, <2>2, <2>4, <2>7, PersistOne DEF OnDisk, TypeOK
    <3>2. DOMAIN messages' \subseteq DOMAIN messages \cup {RequestVoteReply(m, m.Term, TRUE)}
      BY Zenon, <2>1, <2>2, <2>7, RequestVoteReplyType, ReplyMessages DEF TypeOK, MessagesOK
    <3>3. LET r == RequestVoteReply(m, m.Term, TRUE)
          IN  r.src = s /\ r.dst = m.src /\ r.Term = m.Term
      BY Zenon DEF RequestVoteReply
    <3> QED
      BY Zenon, <2>5, <3>1, <3>2, <3>3 DEF Backed, Evidence
  <2> QED
    BY Zenon, <2>2, <2>3, <2>6, <2>7 DEF RequestVote
\* A granted reply that is counted was evidence already.
<1>OnRequestVoteReplyBacked. ASSUME NEW m \in DOMAIN messages, OnRequestVoteReply(m)
                             PROVE  Backed(v, i, t)
  <2> USE <1>OnRequestVoteReplyBacked
  <2> DEFINE s == m.dst
  <2>1. m \in Message /\ m.type = "RequestVoteReply"
    BY Zenon DEF TypeOK, OnRequestVoteReply
  <2>2. s \in Server /\ m.src \in Server /\ m.Term \in Nat
    BY Zenon, <2>1, RequestVoteReplyFields
  <2>3. DOMAIN messages' \subseteq DOMAIN messages
    BY Zenon, ReceiveMessages DEF OnRequestVoteReply, TypeOK, MessagesOK
  <2> HIDE DEF s
  <2>4. CASE UNCHANGED electionVars
    BY Zenon, <2>3, <2>4, QuietStep DEF electionVars
  <2>5. CASE m.Term > CurrentTerm[s] /\ StepDown(s, m.Term)
    <3>1. v \in votes'[i] => v \in votes[i] /\ CurrentTerm'[i] = CurrentTerm[i]
      BY Zenon, <2>2, <2>5, StepDownVote DEF StepDown
    <3> QED
      BY Zenon, <2>3, <3>1, QuietStep
  <2>6. CASE /\ m.Term = CurrentTerm[s] /\ m.VoteGranted
             /\ votes' = [votes EXCEPT ![s] = votes[s] \cup {m.src}]
             /\ UNCHANGED CurrentTerm
    <3>1. Evidence(m.src, s, CurrentTerm[s])
      BY Zenon, <2>1, <2>6 DEF Evidence, s
    <3>2. votes'[s] = votes[s] \cup {m.src} /\ (i # s => votes'[i] = votes[i])
      BY Zenon, <2>2, <2>6 DEF TypeOK
    <3> QED
      BY Zenon, <2>3, <2>6, <3>1, <3>2 DEF Backed, Evidence
  <2> QED
    BY Zenon, <2>4, <2>5, <2>6 DEF OnRequestVoteReply, s
\* A reply that is not a vote adds no evidence.
<1>ReplyQuiet. ASSUME NEW m, NEW r, Reply(m, r), r.type # "RequestVoteReply"
               PROVE  \A k \in DOMAIN messages' :
                        k.type = "RequestVoteReply" => k \in DOMAIN messages
  <2> USE <1>ReplyQuiet
  <2>1. DOMAIN Without(m) \subseteq DOMAIN messages
    BY Zenon DEF Without
  <2>2. DOMAIN messages' \subseteq DOMAIN Without(m) \cup {r}
    BY Zenon DEF Reply
  <2> QED
    BY Zenon, <2>1, <2>2
\* New evidence of a vote is backed by the voter in the ApplyEntries handler:
\* the merged log is a log.
<1>ApplyEntriesBacked. ASSUME NEW m \in DOMAIN messages, ApplyEntries(m)
                       PROVE  Backed(v, i, t)
  <2> USE <1>ApplyEntriesBacked
  <2> DEFINE s == m.dst
  <2>1. m \in Message /\ m.type = "ApplyEntries"
    BY Zenon DEF TypeOK, ApplyEntries
  <2>2. s \in Server /\ m.Term \in Nat
    BY Zenon, <2>1, ApplyEntriesFields
  <2>3. \A a, b, c, d, e : ApplyEntriesReply(m, a, b, c, d, e).type # "RequestVoteReply"
    BY Zenon DEF ApplyEntriesReply
  <2>4. Mismatch(s, m).type # "RequestVoteReply"
    BY Zenon, <2>3 DEF Mismatch
  <2>5. \A k \in DOMAIN messages' : k.type = "RequestVoteReply" => k \in DOMAIN messages
    <3>1. PICK r : Reply(m, r) /\ r.type # "RequestVoteReply"
      <4>1. CASE Reply(m, Mismatch(s, m))
        BY Zenon, <2>4, <4>1
      <4>2. CASE \E a, b, c, d, e : Reply(m, ApplyEntriesReply(m, a, b, c, d, e))
        BY Zenon, <2>3, <4>2
      <4> QED
        BY Zenon, <4>1, <4>2 DEF ApplyEntries
    <3> QED
      BY Zenon, <3>1, <1>ReplyQuiet
  <2>6. UNCHANGED electionVars \/ FollowLeader(s, m.Term)
    BY Zenon DEF ApplyEntries
  <2> HIDE DEF s
  <2>7. v \in votes'[i] => v \in votes[i] /\ CurrentTerm'[i] = CurrentTerm[i]
    <3>1. CASE UNCHANGED electionVars
      BY Zenon, <3>1 DEF electionVars
    <3>2. CASE FollowLeader(s, m.Term)
      BY Zenon, <2>2, <3>2, FollowLeaderVote
    <3> QED
      BY Zenon, <2>6, <3>1, <3>2
  <2> QED
    BY Zenon, <2>5, <2>7, QuietStep
\* New evidence of a vote is backed by the voter in the InstallSnapshot
\* handler: the log is cut or replaced, never emptied.
<1>InstallSnapshotBacked. ASSUME NEW m \in DOMAIN messages, InstallSnapshot(m)
                          PROVE  Backed(v, i, t)
  <2> USE <1>InstallSnapshotBacked
  <2> DEFINE s == m.dst
  <2>1. m \in Message /\ m.type = "InstallSnapshot"
    BY Zenon DEF TypeOK, InstallSnapshot
  <2>2. s \in Server /\ m.Term \in Nat
    BY Zenon, <2>1, InstallSnapshotFields
  <2>3. \A a : InstallSnapshotReply(m, a).type # "RequestVoteReply"
    BY Zenon DEF InstallSnapshotReply
  <2>4. \A k \in DOMAIN messages' : k.type = "RequestVoteReply" => k \in DOMAIN messages
    BY Zenon, <2>3, <1>ReplyQuiet DEF InstallSnapshot
  <2>5. UNCHANGED electionVars \/ FollowLeader(s, m.Term)
    BY Zenon DEF InstallSnapshot
  <2> HIDE DEF s
  <2>6. v \in votes'[i] => v \in votes[i] /\ CurrentTerm'[i] = CurrentTerm[i]
    <3>1. CASE UNCHANGED electionVars
      BY Zenon, <3>1 DEF electionVars
    <3>2. CASE FollowLeader(s, m.Term)
      BY Zenon, <2>2, <3>2, FollowLeaderVote
    <3> QED
      BY Zenon, <2>5, <3>1, <3>2
  <2> QED
    BY Zenon, <2>4, <2>6, QuietStep
\* The replies to a leader's requests.
<1>LeaderReplyBacked. ASSUME NEW m \in DOMAIN messages,
                             OnApplyEntriesReply(m) \/ OnInstallSnapshotReply(m)
                      PROVE  Backed(v, i, t)
  <2> USE <1>LeaderReplyBacked
  <2>1. m \in Message /\ m.type \in {"ApplyEntriesReply", "InstallSnapshotReply"}
    BY Zenon DEF TypeOK, OnApplyEntriesReply, OnInstallSnapshotReply
  <2>2. m.dst \in Server /\ m.Term \in Nat
    BY Zenon, <2>1, ApplyEntriesReplyFields, InstallSnapshotReplyFields
  <2>3. DOMAIN messages' \subseteq DOMAIN messages
    BY Zenon, ReceiveMessages DEF OnApplyEntriesReply, OnInstallSnapshotReply, TypeOK,
       MessagesOK
  <2>4. CASE UNCHANGED electionVars
    BY Zenon, <2>3, <2>4, QuietStep DEF electionVars
  <2>5. CASE m.Term > CurrentTerm[m.dst] /\ StepDown(m.dst, m.Term)
    <3>1. v \in votes'[i] => v \in votes[i] /\ CurrentTerm'[i] = CurrentTerm[i]
      BY Zenon, <2>2, <2>5, StepDownVote DEF StepDown
    <3> QED
      BY Zenon, <2>3, <3>1, QuietStep
  <2> QED
    BY Zenon, <2>4, <2>5 DEF OnApplyEntriesReply, OnInstallSnapshotReply
<1>10. ASSUME NEW m \in DOMAIN messages,
              \/ RequestVote(m) \/ OnRequestVoteReply(m)
              \/ ApplyEntries(m) \/ OnApplyEntriesReply(m)
              \/ InstallSnapshot(m) \/ OnInstallSnapshotReply(m)
       PROVE  Backed(v, i, t)
  BY Zenon, <1>10, <1>RequestVoteBacked, <1>OnRequestVoteReplyBacked, <1>ApplyEntriesBacked,
     <1>InstallSnapshotBacked, <1>LeaderReplyBacked
<1> QED
  BY Zenon, <1>2, <1>ElectionTimeoutBacked, <1>4, <1>5, <1>6, <1>7, <1>8, <1>CrashBacked,
     <1>10 DEF Next

-----------------------------------------------------------------------------
(***************************************************************************)
(* The invariant.                                                          *)
(***************************************************************************)

\* A recorded vote stays recorded.
LEMMA RecordedStable ==
  ASSUME TypeOK, TypeOK', VoteSaved, [Next]_vars,
         NEW v \in Server, NEW i \in Server, NEW t \in Nat, VoteRecorded(v, i, t)
  PROVE  VoteRecorded(v, i, t)'
<1>1. persister[v].CurrentTerm \in Nat /\ persister'[v].CurrentTerm \in Nat
  BY Zenon DEF TypeOK, SavedState
<1>2. i # Unvote
  BY Zenon, ServerAssumption
<1> QED
  BY <1>1, <1>2, DiskForward DEF VoteRecorded

\* A bound peer stays bound: it cannot vote for anybody else any more.
LEMMA BoundStable ==
  ASSUME TypeOK, TypeOK', VoteSaved, [Next]_vars,
         NEW v \in Server, NEW i \in Server, NEW t \in Nat, Bound(v, i, t)
  PROVE  Bound(v, i, t)'
<1>1. VoteRecorded(v, i, t)'
  BY Zenon, RecordedStable DEF Bound
<1>2. ASSUME NEW j \in Server, Evidence(v, j, t)' PROVE j = i
  <2>1. CASE Evidence(v, j, t)
    BY Zenon, <2>1 DEF Bound
  <2>2. CASE OnDisk(v, j, t)'
    <3>1. persister'[v].CurrentTerm \in Nat
      BY Zenon DEF TypeOK, SavedState
    <3> QED
      BY <1>1, <2>2, <3>1 DEF VoteRecorded, OnDisk
  <2> QED
    BY Zenon, <1>2, <2>1, <2>2, NextBacked DEF Backed
<1> QED
  BY Zenon, <1>1, <1>2 DEF Bound

\* Evidence binds, again after every step.
LEMMA EvidenceBindsStep ==
  ASSUME TypeOK, TypeOK', VoteSaved, EvidenceBinds, [Next]_vars
  PROVE  EvidenceBinds'
<1> SUFFICES ASSUME NEW v \in Server, NEW i \in Server, NEW t \in Nat, Evidence(v, i, t)'
             PROVE  Bound(v, i, t)'
  BY Zenon DEF EvidenceBinds
<1>1. CASE Evidence(v, i, t)
  BY Zenon, <1>1, BoundStable DEF EvidenceBinds
<1>2. CASE OnDisk(v, i, t)'
  <2>0. persister'[v].CurrentTerm \in Nat
    BY Zenon DEF TypeOK, SavedState
  <2>1. VoteRecorded(v, i, t)'
    BY Zenon, <1>2 DEF VoteRecorded, OnDisk
  <2>2. ASSUME NEW j \in Server, Evidence(v, j, t)' PROVE j = i
    <3>1. CASE Evidence(v, j, t)
      <4>1. VoteRecorded(v, j, t)'
        BY Zenon, <3>1, RecordedStable DEF EvidenceBinds, Bound
      <4> QED
        BY <1>2, <2>0, <4>1 DEF VoteRecorded, OnDisk
    <3>2. CASE OnDisk(v, j, t)'
      BY Zenon, <1>2, <3>2 DEF OnDisk
    <3> QED
      BY Zenon, <2>2, <3>1, <3>2, NextBacked DEF Backed
  <2> QED
    BY Zenon, <2>1, <2>2 DEF Bound
<1> QED
  BY Zenon, <1>1, <1>2, NextBacked DEF Backed

\* Every leader of the history, also the one a step adds, keeps its majority.
LEMMA LeadersStep ==
  ASSUME Counting, ElectionInv, TypeOK', EvidenceBinds', [Next]_vars
  PROVE  LeadersElected' /\ ElectionSafety'
<1> USE DEF ElectionInv
<1>1. leaders \subseteq Server \X Nat
  BY Zenon DEF TypeOK
<1>2. ASSUME NEW l \in leaders, NEW Q \in SUBSET Server, \A v \in Q : Bound(v, l[1], l[2])
      PROVE  \A v \in Q : Bound(v, l[1], l[2])'
  <2>1. l[1] \in Server /\ l[2] \in Nat
    BY Zenon, <1>1
  <2> QED
    BY Zenon, <1>2, <2>1, BoundStable
<1>3. CASE leaders' = leaders
  <2>1. ElectionSafety'
    BY Zenon, <1>3 DEF ElectionSafety
  <2>2. ASSUME NEW l \in leaders
        PROVE  \E Q \in SUBSET Server : Majority(Q) /\ \A v \in Q : Bound(v, l[1], l[2])'
    BY Zenon, <1>2 DEF LeadersElected
  <2> QED
    BY Zenon, <1>3, <2>1, <2>2 DEF LeadersElected
\* Two majorities share a peer.
<1>MajoritiesMeet. ASSUME NEW P \in SUBSET Server, NEW Q \in SUBSET Server, Majority(P),
                          Majority(Q)
                   PROVE  \E v \in Server : v \in P /\ v \in Q
  BY Zenon, <1>MajoritiesMeet DEF Counting
<1>4. ASSUME NEW s \in Server, NEW Q \in SUBSET Server,
             leaders' = leaders \cup {<<s, CurrentTerm[s]>>},
             Majority(Q), \A v \in Q : Evidence(v, s, CurrentTerm[s])
      PROVE  LeadersElected' /\ ElectionSafety'
  <2>0. PICK t \in Nat : t = CurrentTerm[s]
    BY Zenon, PeerFacts
  <2>1. \A v \in Q : Bound(v, s, t)
    BY Zenon, <1>4, <2>0 DEF EvidenceBinds
  <2>2. \A v \in Q : Bound(v, s, t)'
    BY Zenon, <2>0, <2>1, BoundStable
  <2>3. ASSUME NEW l \in leaders, l[2] = t PROVE l[1] = s
    <3>1. PICK P \in SUBSET Server : Majority(P) /\ \A v \in P : Bound(v, l[1], l[2])
      BY Zenon DEF LeadersElected
    <3>2. PICK v \in Server : v \in P /\ v \in Q
      BY Zenon, <1>4, <3>1, <1>MajoritiesMeet
    <3> QED
      BY Zenon, <1>4, <2>0, <2>3, <3>1, <3>2 DEF Bound
  <2>4. ElectionSafety'
    BY <1>4, <2>0, <2>3 DEF ElectionSafety
  <2>5. ASSUME NEW l \in leaders'
        PROVE  \E R \in SUBSET Server : Majority(R) /\ \A v \in R : Bound(v, l[1], l[2])'
    <3>1. CASE l \in leaders
      BY Zenon, <1>2, <3>1 DEF LeadersElected
    <3>2. CASE l = <<s, t>>
      BY Zenon, <1>4, <2>2, <3>2
    <3> QED
      BY Zenon, <1>4, <2>0, <3>1, <3>2
  <2> QED
    BY Zenon, <2>4, <2>5 DEF LeadersElected
<1> QED
  BY Zenon, <1>3, <1>4, NewLeader

\* Fresh peers have given no votes.
LEMMA ElectionInvInit == Init => ElectionInv
<1> SUFFICES ASSUME Init PROVE ElectionInv
  BY Zenon
<1>1. TypeOK
  BY Zenon, InitType
<1>2. VoteSaved
  BY Zenon DEF Init, VoteSaved
<1>3. EvidenceBinds
  BY Zenon DEF Init, EvidenceBinds, Evidence
<1>4. LeadersElected /\ ElectionSafety
  BY Zenon DEF Init, LeadersElected, ElectionSafety
<1> QED
  BY Zenon, <1>1, <1>2, <1>3, <1>4 DEF ElectionInv

\* The election invariant is inductive.
LEMMA ElectionInvNext == Counting /\ ElectionInv /\ [Next]_vars => ElectionInv'
<1> SUFFICES ASSUME Counting, ElectionInv, [Next]_vars PROVE ElectionInv'
  BY Zenon
<1>1. TypeOK'
  BY Zenon, NextType DEF ElectionInv
<1>2. VoteSaved'
  BY Zenon, <1>1, VoteSavedStep DEF ElectionInv
<1>3. EvidenceBinds'
  BY Zenon, <1>1, EvidenceBindsStep DEF ElectionInv
<1> QED
  BY Zenon, <1>1, <1>2, <1>3, LeadersStep DEF ElectionInv

-----------------------------------------------------------------------------
(***************************************************************************)
(* The election timer.                                                     *)
(***************************************************************************)

\* No step leaves a peer that is not the leader without a timer.
LEMMA NextTimer ==
  ASSUME TypeOK, TimerArmed, [Next]_vars, NEW v \in Server
  PROVE  TimerStep(v)
<1>0. identity[v] # "LEADER" => electionTimer[v] = TRUE
  BY Zenon DEF TimerArmed, TypeOK
<1>1. CASE UNCHANGED electionVars
  BY Zenon, <1>0, <1>1 DEF electionVars, TimerStep
<1>2. ASSUME NEW s \in Server,
             \/ HeartbeatTimeout(s) \/ applyLog(s)
             \/ \E c \in Submits(s) : Start(s, c)
             \/ \E x \in 1 .. Len(applied[s]) : Snapshot(s, x)
      PROVE  UNCHANGED electionVars
  BY Zenon, <1>2 DEF HeartbeatTimeout, applyLog, Start, Snapshot
<1>3. ASSUME NEW s \in Server, ElectionTimeout(s) PROVE TimerStep(v)
  <2>1. /\ identity[s] # "LEADER" /\ identity' = [identity EXCEPT ![s] = "CANDIDATE"]
        /\ electionTimer' = electionTimer
    BY Zenon, <1>3 DEF ElectionTimeout
  <2> QED
    BY Zenon, <1>0, <2>1 DEF TimerStep, TypeOK
<1>4. ASSUME NEW s \in Server, LeaderTimerExpires(s) PROVE TimerStep(v)
  <2>1. /\ identity[s] = "LEADER" /\ identity' = identity
        /\ electionTimer' = [electionTimer EXCEPT ![s] = FALSE]
    BY Zenon, <1>4 DEF LeaderTimerExpires
  <2> QED
    BY Zenon, <1>0, <2>1 DEF TimerStep, TypeOK
<1>5. ASSUME NEW s \in Server, Crash(s) PROVE TimerStep(v)
  <2>1. /\ identity' = [identity EXCEPT ![s] = "FOLLOWER"]
        /\ electionTimer' = [electionTimer EXCEPT ![s] = TRUE]
    BY Zenon, <1>5 DEF Crash
  <2> QED
    BY Zenon, <1>0, <2>1 DEF TimerStep, TypeOK
<1>6. ASSUME NEW m \in DOMAIN messages, RequestVote(m) PROVE TimerStep(v)
  <2>0. m.dst \in Server
    BY Zenon, MessageEnds DEF TypeOK
  <2>1. CASE /\ identity' = [identity EXCEPT ![m.dst] = "FOLLOWER"]
             /\ electionTimer' = [electionTimer EXCEPT ![m.dst] = TRUE]
    BY Zenon, <1>0, <2>0, <2>1 DEF TimerStep, TypeOK
  <2>2. CASE /\ identity' = [identity EXCEPT ![m.dst] = "FOLLOWER"]
             /\ electionTimer' = [electionTimer EXCEPT ![m.dst] =
                                    @ \/ identity[m.dst] # "FOLLOWER"]
    <3>1. CASE v = m.dst
      <4>1. electionTimer'[v] = (electionTimer[v] \/ identity[v] # "FOLLOWER")
        BY Zenon, <2>0, <2>2, <3>1 DEF TypeOK
      <4>2. identity[v] = "FOLLOWER" => electionTimer[v] = TRUE
        BY Zenon, <1>0
      <4> QED
        BY Zenon, <4>1, <4>2 DEF TimerStep
    <3>2. CASE v # m.dst
      BY Zenon, <1>0, <2>0, <2>2, <3>2 DEF TimerStep, TypeOK
    <3> QED
      BY Zenon, <3>1, <3>2
  <2> QED
    BY Zenon, <1>1, <1>6, <2>1, <2>2 DEF RequestVote, BecomeFollower
\* A step that makes s a follower of a new leader or term starts its timer.
<1>FollowerTimer. ASSUME NEW s \in Server, NEW t, StepDown(s, t) \/ FollowLeader(s, t)
                  PROVE  TimerStep(v)
  <2> USE <1>FollowerTimer
  <2>1. /\ identity' = [identity EXCEPT ![s] = "FOLLOWER"]
        /\ electionTimer' = [electionTimer EXCEPT ![s] = TRUE]
    BY Zenon DEF StepDown, FollowLeader, BecomeFollower
  <2>2. identity[v] # "LEADER" => electionTimer[v] = TRUE
    BY Zenon DEF TimerArmed, TypeOK
  <2> QED
    BY Zenon, <2>1, <2>2 DEF TimerStep, TypeOK
<1>7. ASSUME NEW m \in DOMAIN messages, OnRequestVoteReply(m) PROVE TimerStep(v)
  <2>0. m.dst \in Server
    BY Zenon, MessageEnds DEF TypeOK
  <2>1. CASE /\ identity' = identity \/ identity' = [identity EXCEPT ![m.dst] = "LEADER"]
             /\ electionTimer' = electionTimer
    BY Zenon, <1>0, <2>0, <2>1 DEF TimerStep, TypeOK
  <2> QED
    BY Zenon, <1>1, <1>7, <2>0, <2>1, <1>FollowerTimer DEF OnRequestVoteReply
<1>8. ASSUME NEW m \in DOMAIN messages,
             \/ ApplyEntries(m) \/ OnApplyEntriesReply(m)
             \/ InstallSnapshot(m) \/ OnInstallSnapshotReply(m)
      PROVE  TimerStep(v)
  <2>0. m.dst \in Server
    BY Zenon, MessageEnds DEF TypeOK
  <2>1. \/ UNCHANGED electionVars
        \/ StepDown(m.dst, m.Term) \/ FollowLeader(m.dst, m.Term)
    BY Zenon, <1>8
       DEF ApplyEntries, OnApplyEntriesReply, InstallSnapshot, OnInstallSnapshotReply
  <2> QED
    BY Zenon, <1>1, <2>0, <2>1, <1>FollowerTimer
<1>9. CASE UNCHANGED vars
  BY Zenon, <1>1, <1>9 DEF vars
<1> QED
  BY Zenon, <1>1, <1>2, <1>3, <1>4, <1>5, <1>6, <1>7, <1>8, <1>9 DEF Next

=============================================================================
