---------------------------- MODULE RaftTheorems ----------------------------
(***************************************************************************)
(* What holds of the Raft peers in every state they reach, for any number  *)
(* of peers, terms, entries, crashes and snapshots and any losses and      *)
(* delays: types, one leader per term, votes that survive a crash, timers  *)
(* that stay armed, logs that match, terms that do not decrease, and the   *)
(* nextIndex of a leader stays in its log.                                 *)
(*                                                                         *)
(* The steps that keep each conjunct of the invariant are in               *)
(* RaftElectionProofs (elections), RaftPieceProofs (logs) and              *)
(* RaftMessageProofs (messages and nextIndex); this module puts them       *)
(* together.                                                               *)
(***************************************************************************)
EXTENDS RaftElectionProofs, RaftPieceProofs, RaftMessageProofs, FiniteSetTheorems

-----------------------------------------------------------------------------
(***************************************************************************)
(* Roles.                                                                  *)
(***************************************************************************)

\* The roles and the history stay in step.
LEMMA LeadersInvStep ==
  ASSUME ElectionInv, ElectionInv', LeadersInv, [Next]_vars
  PROVE  LeadersInv'
<1>1. TypeOK /\ TypeOK' /\ VoteSaved /\ VoteSaved'
  BY Zenon DEF ElectionInv
<1>2. ASSUME NEW s \in Server
      PROVE  /\ CurrentTerm[s] \in Nat /\ CurrentTerm'[s] \in Nat
             /\ persister[s].CurrentTerm \in Nat /\ persister'[s].CurrentTerm \in Nat
             /\ persister[s].CurrentTerm <= CurrentTerm[s]
             /\ persister'[s].CurrentTerm <= CurrentTerm'[s]
             /\ persister[s].CurrentTerm <= persister'[s].CurrentTerm
             /\ RoleStep(s)
  <2>1. /\ CurrentTerm[s] \in Nat /\ CurrentTerm'[s] \in Nat
        /\ persister[s].CurrentTerm \in Nat /\ persister'[s].CurrentTerm \in Nat
    BY Zenon, <1>1 DEF TypeOK, SavedState
  <2>2. /\ persister[s].CurrentTerm <= CurrentTerm[s]
        /\ persister'[s].CurrentTerm <= CurrentTerm'[s]
    BY <1>1, <2>1 DEF VoteSaved
  <2>3. persister[s].CurrentTerm <= persister'[s].CurrentTerm /\ RoleStep(s)
    <3>1. \A x, y \in Nat : x >= y => y <= x
      OBVIOUS
    <3> QED
      BY Zenon, <1>1, <2>1, <3>1, DiskForward, NextRole
  <2> QED
    BY Zenon, <2>1, <2>2, <2>3
<1>3. leaders \subseteq Server \X Nat /\ leaders' \subseteq Server \X Nat
      /\ leaders \subseteq leaders'
  BY Zenon, <1>1, LeadersGrow DEF TypeOK
<1>4. ASSUME NEW s \in Server, identity'[s] # "FOLLOWER"
      PROVE  CurrentTerm'[s] > 0 /\ persister'[s].CurrentTerm = CurrentTerm'[s]
  <2>1. CASE CurrentTerm'[s] = CurrentTerm[s] /\ identity[s] # "FOLLOWER"
    <3>1. CurrentTerm[s] > 0 /\ persister[s].CurrentTerm = CurrentTerm[s]
      BY Zenon, <2>1 DEF LeadersInv
    <3> QED
      BY <1>2, <2>1, <3>1
  <2>2. CASE /\ CurrentTerm'[s] = CurrentTerm[s] + 1
             /\ persister'[s].CurrentTerm = CurrentTerm'[s]
    BY <1>2, <2>2
  <2> QED
    BY Zenon, <1>2, <1>4, <2>1, <2>2 DEF RoleStep
<1>5. ASSUME NEW s \in Server, identity'[s] = "LEADER"
      PROVE  <<s, CurrentTerm'[s]>> \in leaders'
  BY Zenon, <1>2, <1>3, <1>5 DEF RoleStep, LeadersInv
<1>6. ASSUME NEW l \in leaders
      PROVE  /\ l[2] > 0
             /\ l[2] <= persister'[l[1]].CurrentTerm
             /\ CurrentTerm'[l[1]] = l[2] => identity'[l[1]] # "CANDIDATE"
  <2>1. /\ l[1] \in Server /\ l[2] \in Nat /\ l[2] > 0
        /\ l[2] <= persister[l[1]].CurrentTerm
        /\ CurrentTerm[l[1]] = l[2] => identity[l[1]] # "CANDIDATE"
    BY Zenon, <1>3 DEF LeadersInv
  <2>2. PICK s \in Server, t \in Nat : s = l[1] /\ t = l[2]
    BY Zenon, <2>1
  <2>3. t <= persister'[s].CurrentTerm
    BY <1>2, <2>1, <2>2
  <2>4. CurrentTerm'[s] = t => identity'[s] # "CANDIDATE"
    <3>1. t <= CurrentTerm[s] /\ (CurrentTerm[s] = t => identity[s] # "CANDIDATE")
      BY <1>2, <2>1, <2>2
    <3>2. RoleStep(s) /\ CurrentTerm[s] \in Nat
      BY Zenon, <1>2
    <3> QED
      BY <3>1, <3>2 DEF RoleStep
  <2> QED
    BY Zenon, <2>1, <2>2, <2>3, <2>4
<1>7. ASSUME NEW s \in Server, leaders' = leaders \cup {<<s, CurrentTerm[s]>>},
             <<s, CurrentTerm[s]>> \notin leaders
      PROVE  /\ CurrentTerm[s] > 0
             /\ CurrentTerm[s] <= persister'[s].CurrentTerm
             /\ identity'[s] = "LEADER"
  <2>1. /\ identity[s] = "CANDIDATE" /\ identity'[s] = "LEADER"
        /\ CurrentTerm'[s] = CurrentTerm[s]
    BY Zenon, <1>1, <1>7, WinnerRole
  <2> QED
    BY Zenon, <1>2, <2>1 DEF LeadersInv
<1>8. ASSUME NEW l \in leaders'
      PROVE  /\ l[2] > 0
             /\ l[2] <= persister'[l[1]].CurrentTerm
             /\ CurrentTerm'[l[1]] = l[2] => identity'[l[1]] # "CANDIDATE"
  <2>1. CASE l \in leaders
    BY Zenon, <1>6, <2>1
  <2>2. CASE l \notin leaders
    <3>1. PICK s \in Server : leaders' = leaders \cup {<<s, CurrentTerm[s]>>}
      BY Zenon, <1>1, <2>2, NewLeader
    <3>2. l[1] = s /\ l[2] = CurrentTerm[s] /\ <<s, CurrentTerm[s]>> \notin leaders
      BY <2>2, <3>1
    <3> QED
      BY Zenon, <1>7, <3>1, <3>2
  <2> QED
    BY Zenon, <2>1, <2>2
<1> QED
  BY Zenon, <1>4, <1>5, <1>8 DEF LeadersInv

-----------------------------------------------------------------------------
(***************************************************************************)
(* The pieces after a step.                                                *)
(***************************************************************************)

\* Terms only go forward, but for a crash.
LEMMA TermForward ==
  ASSUME TypeOK, TypeOK', [Next]_vars, \A s \in Server : ~Crash(s), NEW v \in Server
  PROVE  CurrentTerm[v] <= CurrentTerm'[v]
<1>1. CurrentTerm[v] \in Nat /\ CurrentTerm'[v] \in Nat
  BY Zenon DEF TypeOK
<1>2. LiveStep(v)
  BY Zenon, NextLive
<1> QED
  BY <1>1, <1>2 DEF LiveStep, Untouched, SavedForward, NewTermUnsaved, Forward

\* All logs after a step but at most one, which is new, are inherited.
LEMMA NextPeers ==
  ASSUME ElectionInv, ElectionInv', PiecesInv, SnapshotsInv, LeadersInv, LeadersInv',
         \A p \in Pieces : Created(p)', [Next]_vars
  PROVE  \E s : \A v \in Server : Inherited(v) \/ (v = s /\ Fresh(v))
<1>0. TypeOK /\ TypeOK'
  BY Zenon DEF ElectionInv
<1>1. ASSUME NEW s \in Server, Crash(s), NEW v \in Server PROVE Inherited(v)
  BY Zenon, <1>0, <1>1, CrashLog
<1>2. CASE \A s \in Server : ~Crash(s)
  <2>1. ASSUME NEW v \in Server PROVE CurrentTerm[v] <= CurrentTerm'[v]
    BY Zenon, <1>0, <1>2, TermForward
  <2>2. ASSUME UNCHANGED <<Logs, lastIncludedIndex>>, NEW v \in Server PROVE Inherited(v)
    <3>1. Logs'[v] = Logs[v] /\ lastIncludedIndex'[v] = lastIncludedIndex[v]
      BY Zenon, <2>2
    <3> QED
      BY Zenon, <1>0, <2>1, <3>1, SameLog
  <2>3. CASE UNCHANGED vars
    <3>1. UNCHANGED <<Logs, lastIncludedIndex>>
      BY Zenon, <2>3 DEF vars, logVars, snapVars
    <3> QED
      BY Zenon, <2>2, <3>1
  <2>4. ASSUME NEW s \in Server,
               \/ ElectionTimeout(s) \/ LeaderTimerExpires(s) \/ HeartbeatTimeout(s)
               \/ applyLog(s)
        PROVE  UNCHANGED <<Logs, lastIncludedIndex>>
    BY Zenon, <2>4 DEF ElectionTimeout, LeaderTimerExpires, HeartbeatTimeout, applyLog, logVars,
       snapVars
  <2>5. ASSUME NEW m \in DOMAIN messages,
               \/ RequestVote(m) \/ OnRequestVoteReply(m)
               \/ OnApplyEntriesReply(m) \/ OnInstallSnapshotReply(m)
        PROVE  UNCHANGED <<Logs, lastIncludedIndex>>
    BY Zenon, <2>5 DEF RequestVote, OnRequestVoteReply, OnApplyEntriesReply,
       OnInstallSnapshotReply, logVars, snapVars
  <2>6. ASSUME NEW s \in Server, NEW c \in Submits(s), Start(s, c), NEW v \in Server
        PROVE  Inherited(v) \/ (v = s /\ Fresh(v))
    <3>1. CASE v = s
      BY Zenon, <2>6, <3>1, StartFresh
    <3>2. CASE v # s
      <4>1. Logs'[v] = Logs[v] /\ lastIncludedIndex'[v] = lastIncludedIndex[v]
        <5>1. DOMAIN Logs = Server
          BY Zenon, <1>0 DEF TypeOK
        <5> QED
          BY Zenon, <2>6, <3>2, <5>1 DEF Start, snapVars
      <4> QED
        BY Zenon, <1>0, <2>1, <4>1, SameLog
    <3> QED
      BY Zenon, <3>1, <3>2
  <2>7. ASSUME NEW s \in Server, NEW x \in 1 .. Len(applied[s]), Snapshot(s, x),
               NEW v \in Server
        PROVE  Inherited(v) \/ (v = s /\ Fresh(v))
    BY Zenon, <1>0, <2>7, SnapshotStep
  <2>8. ASSUME NEW m \in DOMAIN messages, ApplyEntries(m), NEW v \in Server
        PROVE  Inherited(v) \/ (v = m.dst /\ Fresh(v))
    BY Zenon, <1>0, <2>1, <2>8, ApplyEntriesStep
  <2>9. ASSUME NEW m \in DOMAIN messages, InstallSnapshot(m), NEW v \in Server
        PROVE  Inherited(v)
    BY Zenon, <1>0, <2>1, <2>9, InstallSnapshotStep
  <2> QED
    <3> DEFINE Kept(s) == \A v \in Server : Inherited(v) \/ (v = s /\ Fresh(v))
    <3>1. ASSUME \A v \in Server : Inherited(v) PROVE \E s : Kept(s)
      BY Zenon, <3>1
    <3>2. ASSUME UNCHANGED <<Logs, lastIncludedIndex>> PROVE \E s : Kept(s)
      BY Zenon, <2>2, <3>1, <3>2
    <3>3. ASSUME NEW s \in Server,
                 \/ \E c \in Submits(s) : Start(s, c)
                 \/ \E x \in 1 .. Len(applied[s]) : Snapshot(s, x)
          PROVE  Kept(s)
      BY Zenon, <2>6, <2>7, <3>3
    <3>4. ASSUME NEW m \in DOMAIN messages, ApplyEntries(m) PROVE Kept(m.dst)
      BY Zenon, <2>8, <3>4
    <3>5. ASSUME NEW m \in DOMAIN messages, InstallSnapshot(m) PROVE \E s : Kept(s)
      BY Zenon, <2>9, <3>1, <3>5
    <3>6. ASSUME UNCHANGED vars PROVE \E s : Kept(s)
      BY Zenon, <2>3, <3>6
    <3> HIDE DEF Kept
    <3>7. \E s : Kept(s)
      BY Zenon, <1>2, <2>4, <2>5, <3>2, <3>3, <3>4, <3>5, <3>6 DEF Next
    <3> QED
      BY Zenon, <3>7 DEF Kept
<1> QED
  BY Zenon, <1>1, <1>2

\* The pieces after a step are parts of pieces that agree, are well formed and
\* hold only entries that leaders created.
LEMMA PiecesInvStep ==
  ASSUME ElectionInv, ElectionInv', PiecesInv, SnapshotsInv, LeadersInv, LeadersInv',
         [Next]_vars
  PROVE  PiecesInv'
<1>0. TypeOK /\ TypeOK'
  BY Zenon DEF ElectionInv
<1>1. Pieces \subseteq PieceSet /\ Pieces' \subseteq PieceSet
  BY Zenon, <1>0, PiecesType, PiecesTypeNext
<1>2. ASSUME NEW p \in Pieces PROVE Created(p)'
  BY Zenon, <1>1, CreatedStable DEF PiecesInv
<1>3. PICK s : \A v \in Server : Inherited(v) \/ (v = s /\ Fresh(v))
  BY Zenon, <1>2, NextPeers
<1>4. \E P : /\ Pieces \subseteq P /\ P \subseteq PieceSet
             /\ \A p, q \in P : Agree(p, q)
             /\ \A p \in P : WellFormed(p) /\ Created(p)'
             /\ \A v \in Server : \E p \in P : Part(PeerPiece(v)', p)
  <2>1. CASE \A v \in Server : Inherited(v)
    BY Zenon, <1>1, <1>2, <2>1 DEF Inherited, PiecesInv
  <2>2. CASE s \in Server /\ Fresh(s)
    <3>1. PICK n \in PieceSet : n = PeerPiece(s)'
      BY Zenon, <1>0, <2>2, PeerPieceNext
    <3>2. Created(n)'
      BY Zenon, <2>2, <3>1 DEF Fresh, Created
    <3>3. WellFormed(n) /\ \A p \in Pieces : Agree(n, p) /\ Agree(p, n)
      BY Zenon, <2>2, <3>1, AgreeSym DEF Fresh
    <3>4. Agree(n, n) /\ Part(n, n)
      BY Zenon, AgreeSelf, PartRefl
    <3> DEFINE P == Pieces \cup {n}
    <3>5. Pieces \subseteq P /\ P \subseteq PieceSet
      BY Zenon, <1>1
    <3>6. \A p, q \in P : Agree(p, q)
      BY Zenon, <3>3, <3>4 DEF PiecesInv
    <3>7. \A p \in P : WellFormed(p) /\ Created(p)'
      BY Zenon, <1>2, <3>2, <3>3 DEF PiecesInv
    <3>8. \A v \in Server : \E p \in P : Part(PeerPiece(v)', p)
      BY Zenon, <1>3, <3>1, <3>4 DEF Inherited
    <3> QED
      BY Zenon, <3>5, <3>6, <3>7, <3>8
  <2> QED
    BY Zenon, <1>3, <2>1, <2>2
<1>5. PICK P : /\ Pieces \subseteq P /\ P \subseteq PieceSet
               /\ \A p, q \in P : Agree(p, q)
               /\ \A p \in P : WellFormed(p) /\ Created(p)'
               /\ \A v \in Server : \E p \in P : Part(PeerPiece(v)', p)
  BY Zenon, <1>4
<1>6. ASSUME NEW a \in PieceSet, NEW v \in Server, Part(a, PeerPiece(v)')
      PROVE  \E p \in P : Part(a, p)
  <2>1. PICK p \in P : Part(PeerPiece(v)', p)
    BY Zenon, <1>5
  <2>2. p \in PieceSet /\ PeerPiece(v)' \in PieceSet
    BY Zenon, <1>0, <1>5, PeerPieceNext
  <2> QED
    BY Zenon, <1>6, <2>1, <2>2, PartTrans
<1>7. ASSUME NEW a \in Pieces PROVE \E p \in P : Part(a, p)
  BY Zenon, <1>1, <1>5, PartRefl
<1>8. ASSUME NEW a \in Pieces' PROVE \E p \in P : Part(a, p)
  <2>0. a \in PieceSet
    BY Zenon, <1>1
  <2>1. ASSUME NEW v \in Server, a = PeerPiece(v)' PROVE \E p \in P : Part(a, p)
    BY Zenon, <1>5, <2>1
  <2>2. ASSUME NEW v \in Server, a = DiskPiece(v)' PROVE \E p \in P : Part(a, p)
    <3>1. CASE persister'[v] = persister[v]
      <4>1. a = DiskPiece(v) /\ DiskPiece(v) \in Pieces
        BY Zenon, <2>2, <3>1 DEF DiskPiece, Pieces
      <4> QED
        BY Zenon, <1>7, <4>1
    <3>2. CASE DiskPiece(v)' = PeerPiece(v)'
      BY Zenon, <2>1, <2>2, <3>2
    <3> QED
      BY Zenon, <1>0, <3>1, <3>2, NextDisk DEF DiskStep
  <2>3. ASSUME NEW m \in DOMAIN messages',
               \/ m.type = "ApplyEntries" /\ a = EntriesPiece(m)
               \/ m.type = "InstallSnapshot" /\ a = SnapshotPiece(m)
        PROVE  \E p \in P : Part(a, p)
    <3>1. a \in Pieces \/ \E v \in Server : Part(a, PeerPiece(v)')
      BY Zenon, <1>0, <2>3, NextRequests
    <3> QED
      BY Zenon, <1>6, <1>7, <2>0, <3>1
  <2>4. \/ \E v \in Server : a = PeerPiece(v)' \/ a = DiskPiece(v)'
        \/ \E m \in Sent("ApplyEntries")' : a = EntriesPiece(m)
        \/ \E m \in Sent("InstallSnapshot")' : a = SnapshotPiece(m)
    BY Zenon DEF Pieces, EntriesPiece, SnapshotPiece, LastIncluded, Carried
  <2> QED
    BY Zenon, <2>1, <2>2, <2>3, <2>4 DEF Sent
<1> QED
  BY Zenon, <1>0, <1>5, <1>8, PiecesStep

\* Snapshots stay what they are labelled with.
LEMMA SnapshotsInvStep ==
  ASSUME TypeOK, TypeOK', PiecesInv, SnapshotsInv, [Next]_vars
  PROVE  SnapshotsInv'
<1>1. ASSUME NEW v \in Server
      PROVE  /\ Len(snapshot'[v]) = lastIncludedIndex'[v]
             /\ Len(persister'[v].snapshot) = persister'[v].lastIncludedIndex
             /\ applied'[v] # <<>> => LastLogIndex(v)' > 0
  <2>1. Len(snapshot'[v]) = lastIncludedIndex'[v]
    BY Zenon, SnapshotForward
  <2>2. Len(persister'[v].snapshot) = persister'[v].lastIncludedIndex
    BY Zenon, <2>1, NextDisk DEF DiskStep, SnapshotsInv
  <2> QED
    BY Zenon, <2>1, <2>2, AppliedReach
<1>2. ASSUME NEW m \in Sent("InstallSnapshot")' PROVE Len(m.Data) = m.LastIncludedIndex
  <2>0. m \in DOMAIN messages' /\ m.type = "InstallSnapshot"
    BY Zenon DEF Sent
  <2>1. CASE m \in DOMAIN messages
    BY Zenon, <2>0, <2>1 DEF SnapshotsInv, Sent
  <2>2. ASSUME NEW s \in Server, Crash(s) PROVE Len(m.Data) = m.LastIncludedIndex
    <3>1. PICK k \in DOMAIN messages : m = Orphan(k, s)
      BY Zenon, <2>0, <2>2, CutOffMessages DEF Crash, TypeOK, MessagesOK
    <3>2. k \in Message
      BY Zenon DEF TypeOK
    <3>3. k.type = "InstallSnapshot"
      BY Zenon, <2>0, <3>1, <3>2, OrphanMessage
    <3>4. m.Data = k.Data /\ m.LastIncludedIndex = k.LastIncludedIndex
      BY Zenon, <3>1, <3>2, <3>3, OrphanPiece
    <3>5. k \in Sent("InstallSnapshot")
      BY Zenon, <3>3 DEF Sent
    <3> QED
      BY Zenon, <3>4, <3>5 DEF SnapshotsInv
  <2>3. CASE m \notin DOMAIN messages /\ \A s \in Server : ~Crash(s)
    <3>1. PICK s \in Server : ShowsLog(s, m)'
      BY Zenon, <2>0, <2>3, NextSent
    <3> QED
      BY Zenon, <1>1, <2>0, <3>1 DEF ShowsLog
  <2> QED
    BY Zenon, <2>1, <2>2, <2>3
<1> QED
  BY Zenon, <1>1, <1>2 DEF SnapshotsInv

-----------------------------------------------------------------------------
(***************************************************************************)
(* The invariant holds, and what follows from it.                          *)
(***************************************************************************)

\* Fresh logs have the one entry that stands for index 0.
LEMMA LogInvInit == Init => LogInv
<1> SUFFICES ASSUME Init PROVE LogInv
  BY Zenon
<1> DEFINE e == [Term |-> 0, Command |-> NoCommand]
           p0 == Piece(0, <<e>>, 0)
<1>1. ElectionInv /\ TypeOK
  BY Zenon, ElectionInvInit DEF ElectionInv
<1>2. /\ \A s \in Server : PeerPiece(s) = p0 /\ DiskPiece(s) = p0
      /\ DOMAIN messages = {}
  BY Zenon DEF Init, PeerPiece, DiskPiece
<1>3. \A p \in Pieces : p = p0
  BY <1>2 DEF Pieces, Sent
<1>4. p0.base = 0 /\ p0.log = <<e>> /\ p0.term = 0
  BY Zenon DEF Piece
<1>5. /\ <<e>> \in Seq({e}) /\ Len(<<e>>) = 1 /\ <<e>>[1] = e /\ DOMAIN <<e>> = 1 .. 1
      /\ e.Term = 0
  OBVIOUS
<1>6. WellFormed(p0) /\ Created(p0) /\ Agree(p0, p0)
  <2> HIDE DEF p0, e
  <2>1. End(p0) = 0 /\ Span(p0) = {0} /\ Entry(p0, 0) = e
    BY <1>4, <1>5 DEF End, Span, Entry
  <2>2. Sorted(p0.log)
    BY <1>4, <1>5 DEF Sorted
  <2>3. WellFormed(p0)
    BY <1>4, <1>5, <2>1, <2>2 DEF WellFormed
  <2>4. Created(p0)
    BY <1>4, <2>1 DEF Created
  <2> QED
    BY Zenon, <2>3, <2>4, AgreeSelf
<1> HIDE DEF p0, e
<1>7. PiecesInv
  BY Zenon, <1>3, <1>6 DEF PiecesInv
<1>8. /\ \A s \in Server : /\ snapshot[s] = <<>> /\ lastIncludedIndex[s] = 0
                           /\ persister[s].snapshot = <<>>
                           /\ persister[s].lastIncludedIndex = 0
                           /\ applied[s] = <<>> /\ identity[s] = "FOLLOWER"
      /\ leaders = {}
  BY Zenon DEF Init
<1>9. SnapshotsInv
  BY Zenon, <1>2, <1>8 DEF SnapshotsInv, Sent
<1>10. LeadersInv /\ NextIndexInLog /\ RequestsInv
  BY Zenon, <1>2, <1>8 DEF LeadersInv, NextIndexInLog, RequestsInv, Sent
<1> QED
  BY Zenon, <1>1, <1>7, <1>9, <1>10 DEF LogInv

\* The log invariant is inductive.
LEMMA LogInvNext == Counting /\ LogInv /\ [Next]_vars => LogInv'
<1> SUFFICES ASSUME Counting, LogInv, [Next]_vars PROVE LogInv'
  BY Zenon
<1>1. /\ ElectionInv /\ PiecesInv /\ SnapshotsInv /\ LeadersInv /\ RequestsInv
      /\ NextIndexInLog
  BY Zenon DEF LogInv
<1>2. ElectionInv'
  BY Zenon, <1>1, ElectionInvNext
<1>3. TypeOK /\ TypeOK'
  BY Zenon, <1>1, <1>2 DEF ElectionInv
<1>4. LeadersInv'
  BY Zenon, <1>1, <1>2, LeadersInvStep
<1>5. PiecesInv'
  BY Zenon, <1>1, <1>2, <1>4, PiecesInvStep
<1>6. SnapshotsInv'
  BY Zenon, <1>1, <1>3, SnapshotsInvStep
<1>7. RequestsInv'
  BY Zenon, <1>1, <1>2, <1>4, RequestsInvStep
<1>8. NextIndexInLog'
  BY Zenon, <1>1, <1>3, NextIndexStep DEF NextIndexInLog
<1> QED
  BY Zenon, <1>2, <1>4, <1>5, <1>6, <1>7, <1>8 DEF LogInv

\* An entry of a peer is an entry of its piece.
LEMMA PeerEntry ==
  ASSUME TypeOK, NEW s \in Server
  PROVE  /\ \A i : EntryAt(s, i) = Entry(PeerPiece(s), i)
         /\ \A i \in Nat : /\ lastIncludedIndex[s] < i /\ i <= LastLogIndex(s) =>
                                i \in Span(PeerPiece(s)) /\ PeerPiece(s).base < i
<1>1. /\ PeerPiece(s) \in PieceSet /\ PeerPiece(s).base = lastIncludedIndex[s]
      /\ PeerPiece(s).log = Logs[s] /\ End(PeerPiece(s)) = LastLogIndex(s)
      /\ lastIncludedIndex[s] \in Nat
  BY Zenon, PeerPieceFields, PeerFacts
<1>2. \A i : EntryAt(s, i) = Entry(PeerPiece(s), i)
  BY Zenon, <1>1 DEF EntryAt, At, RealIndex, Entry
<1>3. ASSUME NEW i \in Nat, lastIncludedIndex[s] < i, i <= LastLogIndex(s)
      PROVE  i \in Span(PeerPiece(s)) /\ PeerPiece(s).base < i
  <2>1. lastIncludedIndex[s] <= i
    BY <1>1, <1>3
  <2> QED
    BY Zenon, <1>1, <1>3, <2>1, PieceFacts
<1> QED
  BY Zenon, <1>2, <1>3

\* The indices two logs have in common, above both snapshots.
LEMMA CommonIndex ==
  ASSUME TypeOK, NEW s \in Server, NEW t \in Server, NEW i \in Common(s, t)
  PROVE  /\ i \in Nat
         /\ lastIncludedIndex[s] < i /\ i <= LastLogIndex(s)
         /\ lastIncludedIndex[t] < i /\ i <= LastLogIndex(t)
<1>1. /\ lastIncludedIndex[s] \in Nat /\ lastIncludedIndex[t] \in Nat
      /\ LastLogIndex(s) \in Nat /\ LastLogIndex(t) \in Nat
  BY Zenon, PeerFacts, LastLogType
<1> QED
  BY <1>1 DEF Common, Min, Max

\* The facts about cardinalities hold.
LEMMA CountingHolds == Counting
<1>1. \A n \in Nat : \A S \in SUBSET (1 .. n) :
        Cardinality(S) \in 0 .. n /\ (S # {} => Cardinality(S) >= 1)
  <2> SUFFICES ASSUME NEW n \in Nat, NEW S \in SUBSET (1 .. n)
               PROVE  Cardinality(S) \in 0 .. n /\ (S # {} => Cardinality(S) >= 1)
    BY Zenon
  <2>1. IsFiniteSet(1 .. n) /\ Cardinality(1 .. n) = n
    BY FS_Interval
  <2>2. IsFiniteSet(S) /\ Cardinality(S) <= n
    BY Zenon, <2>1, FS_Subset
  <2>3. Cardinality(S) \in Nat /\ (Cardinality(S) = 0 <=> S = {})
    BY Zenon, <2>2, FS_CardinalityType, FS_EmptySet
  <2>4. PICK c \in Nat : c = Cardinality(S) /\ c <= n /\ (S # {} => c # 0)
    BY Zenon, <2>2, <2>3
  <2>5. c \in 0 .. n /\ (c # 0 => c >= 1)
    BY <2>4
  <2> QED
    BY Zenon, <2>4, <2>5
<1>2. \A m, n \in Nat : \A S \in SUBSET (1 .. m) :
        1 .. n \subseteq S => Cardinality(S) >= n
  <2> SUFFICES ASSUME NEW m \in Nat, NEW n \in Nat, NEW S \in SUBSET (1 .. m),
                      1 .. n \subseteq S
               PROVE  Cardinality(S) >= n
    BY Zenon
  <2>1. IsFiniteSet(1 .. m)
    BY FS_Interval
  <2>2. IsFiniteSet(S)
    BY Zenon, <2>1, FS_Subset
  <2>3. Cardinality(1 .. n) = n /\ Cardinality(1 .. n) <= Cardinality(S)
    BY <2>2, FS_Interval, FS_Subset
  <2>4. Cardinality(S) \in Nat
    BY Zenon, <2>2, FS_CardinalityType
  <2> QED
    BY Zenon, <2>3, <2>4
<1>3. \A P, Q \in SUBSET Server :
        Majority(P) /\ Majority(Q) => \E v \in Server : v \in P /\ v \in Q
  <2> SUFFICES ASSUME NEW P \in SUBSET Server, NEW Q \in SUBSET Server,
                      Majority(P), Majority(Q)
               PROVE  \E v \in Server : v \in P /\ v \in Q
    BY Zenon
  <2>1. IsFiniteSet(Server)
    BY Zenon, ServerAssumption
  <2>2. P \cap Q # {}
    BY <2>1, FS_MajoritiesIntersect, FS_CardinalityType, FS_Subset DEF Majority
  <2> QED
    BY Zenon, <2>2
<1> QED
  BY Zenon, <1>1, <1>2, <1>3 DEF Counting

\* Every variable keeps its Go type and no log ever becomes empty, whatever the
\* peers, their number, the order of the messages and the crashes.
THEOREM TypeCorrect == Spec => []TypeOK
<1>1. TypeOK /\ [Next]_vars => TypeOK'
  BY Zenon, NextType, CountingHolds
<1> QED
  BY <1>1, InitType, PTL DEF Spec

\* No term ever has two leaders: for any finite set of peers, whatever messages
\* are lost, delayed or reordered and whichever peers crash and restart.
THEOREM OneLeaderPerTerm == Spec => []ElectionSafety
<1>1. ElectionInv => ElectionSafety
  BY Zenon DEF ElectionInv
<1>2. ElectionInv /\ [Next]_vars => ElectionInv'
  BY Zenon, ElectionInvNext, CountingHolds
<1> QED
  BY <1>1, <1>2, ElectionInvInit, PTL DEF Spec

\* The persister never goes back to an earlier term and never changes or drops
\* a vote within a term, on any path through the handlers.
THEOREM VotesAreDurable == Spec => VoteDurable
<1> DEFINE A == \A s \in Server :
                  LET old == persister[s]
                      new == persister'[s]
                  IN  /\ new.CurrentTerm >= old.CurrentTerm
                      /\ (new.CurrentTerm = old.CurrentTerm /\ old.VoteFor # Unvote)
                           => new.VoteFor = old.VoteFor
<1>1. ElectionInv /\ [Next]_vars => [A]_persister
  BY Zenon, NextType, CountingHolds, DiskForward DEF ElectionInv
<1>2. VoteDurable <=> [][A]_persister
  BY PTL DEF VoteDurable
<1>3. ElectionInv /\ [Next]_vars => ElectionInv'
  BY Zenon, ElectionInvNext, CountingHolds
<1> QED
  BY <1>1, <1>2, <1>3, ElectionInvInit, PTL DEF Spec

\* A peer that is not the leader always has a running election timer, on every
\* path of elections, step-downs, votes and restarts: none can be left behind
\* that would never start an election again.
THEOREM TimersStayArmed == Spec => []TimerArmed
<1>1. Init => TypeOK /\ TimerArmed
  BY Zenon, InitType DEF Init, TimerArmed
<1>2. TypeOK /\ TimerArmed /\ [Next]_vars => TypeOK' /\ TimerArmed'
  <2> SUFFICES ASSUME TypeOK, TimerArmed, [Next]_vars PROVE TypeOK' /\ TimerArmed'
    BY Zenon
  <2>1. TypeOK'
    BY Zenon, NextType, CountingHolds
  <2>2. \A v \in Server : TimerStep(v)
    BY Zenon, NextTimer
  <2> QED
    BY Zenon, <2>1, <2>2 DEF TimerStep, TimerArmed
<1> QED
  BY <1>1, <1>2, PTL DEF Spec

\* The log invariant always holds.
LEMMA LogInvAlways == Spec => []LogInv
<1>1. LogInv /\ [Next]_vars => LogInv'
  BY Zenon, LogInvNext, CountingHolds
<1> QED
  BY <1>1, LogInvInit, PTL DEF Spec

\* If two logs have the same term at an index, they are the same up to it: for
\* any finite set of peers, with logs cut by snapshots anywhere, whatever is
\* lost, delayed or reordered and whoever crashes and restarts.
THEOREM LogsMatch == Spec => []LogMatching
<1>1. LogInv => LogMatching
  <2> SUFFICES ASSUME LogInv, NEW s \in Server, NEW t \in Server, NEW i \in Common(s, t),
                      EntryAt(s, i).Term = EntryAt(t, i).Term,
                      NEW j \in Common(s, t), j <= i
               PROVE  EntryAt(s, j) = EntryAt(t, j)
    BY Zenon DEF LogMatching
  <2> DEFINE p == PeerPiece(s)
             q == PeerPiece(t)
  <2>0. TypeOK
    BY Zenon DEF LogInv, ElectionInv
  <2>1. Agree(p, q)
    BY Zenon DEF LogInv, PiecesInv, Pieces
  <2>2. ASSUME NEW k \in Common(s, t)
        PROVE  /\ k \in Span(p) \cap Span(q) /\ p.base < k /\ q.base < k
               /\ EntryAt(s, k) = Entry(p, k) /\ EntryAt(t, k) = Entry(q, k)
    <3>1. /\ k \in Nat
          /\ lastIncludedIndex[s] < k /\ k <= LastLogIndex(s)
          /\ lastIncludedIndex[t] < k /\ k <= LastLogIndex(t)
      BY Zenon, <2>0, CommonIndex
    <3> QED
      BY Zenon, <2>0, <3>1, PeerEntry
  <2>3. Entry(p, i).Term = Entry(q, i).Term
    BY Zenon, <2>2
  <2>4. Entry(p, j) = Entry(q, j)
    BY Zenon, <2>1, <2>2, <2>3 DEF Agree
  <2> QED
    BY Zenon, <2>2, <2>4
<1> QED
  BY <1>1, LogInvAlways, PTL

\* In every log the terms never decrease and never exceed the peer's term, so
\* the bisection of findFirstIndex() always searches a sorted log.
THEOREM LogsSorted == Spec => []TermsSorted
<1>1. LogInv => TermsSorted
  <2> SUFFICES ASSUME LogInv, NEW s \in Server
               PROVE  Sorted(Logs[s]) /\ LastLogTerm(s) <= CurrentTerm[s]
    BY Zenon DEF TermsSorted
  <2>0. TypeOK /\ WellFormed(PeerPiece(s))
    BY Zenon DEF LogInv, ElectionInv, PiecesInv, Pieces
  <2>1. /\ PeerPiece(s) \in PieceSet /\ PeerPiece(s).log = Logs[s]
        /\ PeerPiece(s).term = CurrentTerm[s]
    BY Zenon, <2>0, PeerPieceFields
  <2>2. End(PeerPiece(s)) \in Span(PeerPiece(s))
    BY <2>1, PieceFacts
  <2>3. Entry(PeerPiece(s), End(PeerPiece(s))).Term <= CurrentTerm[s]
    BY Zenon, <2>0, <2>1, <2>2 DEF WellFormed
  <2>4. PICK base \in Nat, len \in Nat :
          base = PeerPiece(s).base /\ len = Len(Logs[s]) /\ End(PeerPiece(s)) = base + len - 1
    <3>1. PeerPiece(s).base \in Nat /\ Logs[s] \in Log
      BY Zenon, <2>0, <2>1, PeerFacts DEF PieceSet
    <3> QED
      BY Zenon, <2>1, <3>1, LogFacts DEF End
  <2>5. (base + len - 1) - base + 1 = len /\ (len - 1) + 1 = len
    OBVIOUS
  <2>6. Entry(PeerPiece(s), End(PeerPiece(s))) = Logs[s][len]
    BY Zenon, <2>1, <2>4, <2>5 DEF Entry
  <2>7. LastLogTerm(s) = Logs[s][len].Term
    BY Zenon, <2>4, <2>5 DEF LastLogTerm, At
  <2> QED
    BY Zenon, <2>0, <2>1, <2>3, <2>6, <2>7 DEF WellFormed
<1> QED
  BY <1>1, LogInvAlways, PTL

\* sendHeartBeat() never indexes outside the log: nextIndex of a leader is an
\* index above 0 and at most one above its last entry, whatever replies arrive,
\* in whatever order, from followers with whatever logs.
THEOREM NextIndexStaysInLog == Spec => []NextIndexInLog
<1>1. LogInv => NextIndexInLog
  BY Zenon DEF LogInv
<1> QED
  BY <1>1, LogInvAlways, PTL

=============================================================================
