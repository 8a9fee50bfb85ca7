----------------------------- MODULE RaftFacts ------------------------------
(***************************************************************************)
(* Facts about the data of module Raft that several proofs need:           *)
(* sequences, the fields of the messages, logs, the pieces of log that     *)
(* peers hold and messages carry.                                          *)
(***************************************************************************)
EXTENDS RaftInvariants, TLAPS

-----------------------------------------------------------------------------
(***************************************************************************)
(* Sequences.                                                              *)
(***************************************************************************)

\* One sequence after another.
LEMMA ConcatFacts ==
  ASSUME NEW S, NEW a \in Seq(S), NEW b \in Seq(S)
  PROVE  /\ a \o b \in Seq(S)
         /\ Len(a \o b) = Len(a) + Len(b)
         /\ \A i \in 1 .. Len(a) + Len(b) :
              (a \o b)[i] = IF i <= Len(a) THEN a[i] ELSE b[i - Len(a)]
OBVIOUS

\* Nothing comes after the end of a sequence.
LEMMA ConcatEmpty ==
  ASSUME NEW S, NEW a \in Seq(S)
  PROVE  a \o <<>> = a
OBVIOUS

\* The part of a sequence after its end.
LEMMA SubSeqPastEnd ==
  ASSUME NEW S, NEW a \in Seq(S), NEW j \in Nat, j > Len(a)
  PROVE  SubSeq(a, j, Len(a)) = <<>>
OBVIOUS

-----------------------------------------------------------------------------
(***************************************************************************)
(* The six kinds of messages.                                              *)
(***************************************************************************)

\* What a RequestVote carries.
LEMMA RequestVoteFields ==
  ASSUME NEW m \in Message, m.type = "RequestVote"
  PROVE  m \in [type : {"RequestVote"}, src : Server, dst : Server, live : BOOLEAN,
                Term : Nat, LastLogIndex : Nat, LastLogTerm : Nat]
BY Zenon DEF Message

\* What a RequestVoteReply carries.
LEMMA RequestVoteReplyFields ==
  ASSUME NEW m \in Message, m.type = "RequestVoteReply"
  PROVE  m \in [type : {"RequestVoteReply"}, src : Server, dst : Server,
                Term : Nat, VoteGranted : BOOLEAN]
BY Zenon DEF Message

\* What an ApplyEntries carries.
LEMMA ApplyEntriesFields ==
  ASSUME NEW m \in Message, m.type = "ApplyEntries"
  PROVE  m \in [type : {"ApplyEntries"}, src : Server, dst : Server, live : BOOLEAN,
                Term : Nat, LeaderCommit : Nat, PrevLogIndex : Nat, PrevLogTerm : Nat,
                Entries : Seq(LogEntry)]
BY Zenon DEF Message

\* What an ApplyEntriesReply carries.
LEMMA ApplyEntriesReplyFields ==
  ASSUME NEW m \in Message, m.type = "ApplyEntriesReply"
  PROVE  m \in [type : {"ApplyEntriesReply"}, src : Server, dst : Server,
                ArgsTerm : Nat, PrevLogIndex : Nat, Count : Nat, Term : Nat,
                Success : BOOLEAN, XTerm : Nat, XIndex : Nat \cup {InvalidIndex},
                XLen : Nat]
BY Zenon DEF Message

\* What an InstallSnapshot carries.
LEMMA InstallSnapshotFields ==
  ASSUME NEW m \in Message, m.type = "InstallSnapshot"
  PROVE  m \in [type : {"InstallSnapshot"}, src : Server, dst : Server, live : BOOLEAN,
                Term : Nat, LastIncludedIndex : Nat, LastIncludedTerm : Nat,
                Data : Seq(Commands)]
BY Zenon DEF Message

\* What an InstallSnapshotReply carries.
LEMMA InstallSnapshotReplyFields ==
  ASSUME NEW m \in Message, m.type = "InstallSnapshotReply"
  PROVE  m \in [type : {"InstallSnapshotReply"}, src : Server, dst : Server,
                LastIncludedIndex : Nat, Term : Nat]
BY Zenon DEF Message

\* Every message has a sender and a receiver.
LEMMA MessageEnds ==
  ASSUME NEW m \in Message
  PROVE  m.src \in Server /\ m.dst \in Server
BY Zenon DEF Message

-----------------------------------------------------------------------------
(***************************************************************************)
(* The network.                                                            *)
(***************************************************************************)

\* A request whose caller crashed is the same request with nobody waiting.
LEMMA OrphanMessage ==
  ASSUME NEW m \in Message, NEW s
  PROVE  /\ Orphan(m, s) \in Message
         /\ Orphan(m, s).type = m.type
         /\ Orphan(m, s).src = m.src
         /\ Orphan(m, s).dst = m.dst
         /\ Orphan(m, s).Term = m.Term
         /\ ~IsRequest(m) => Orphan(m, s) = m
<1>1. CASE ~(IsRequest(m) /\ m.src = s)
  BY Zenon, <1>1 DEF Orphan
<1>2. CASE IsRequest(m) /\ m.src = s
  <2>0. Orphan(m, s) = [m EXCEPT !.live = FALSE]
    BY Zenon, <1>2 DEF Orphan
  <2>1. CASE m.type = "RequestVote"
    BY Zenon, <2>0, <2>1, <1>2, RequestVoteFields DEF Message
  <2>2. CASE m.type = "ApplyEntries"
    BY Zenon, <2>0, <2>2, <1>2, ApplyEntriesFields DEF Message
  <2>3. CASE m.type = "InstallSnapshot"
    BY Zenon, <2>0, <2>3, <1>2, InstallSnapshotFields DEF Message
  <2> QED
    BY Zenon, <1>2, <2>1, <2>2, <2>3 DEF IsRequest
<1> QED
  BY Zenon, <1>1, <1>2

\* A crash leaves only messages that were there, some of them orphaned.
LEMMA CutOffMessages ==
  ASSUME MessagesOK, NEW s, CutOff(s)
  PROVE  /\ MessagesOK'
         /\ \A k \in DOMAIN messages' :
              \E m \in DOMAIN messages : k = Orphan(m, s)
<1> DEFINE D == {Orphan(m, s) : m \in {m \in DOMAIN messages : IsRequest(m) \/ m.dst # s}}
           F(k) == IF IsRequest(k) /\ k.src = s
                   THEN Copies(k) + Copies([k EXCEPT !.live = TRUE])
                   ELSE messages[k]
<1>1. messages' = [k \in D |-> F(k)]
  BY Zenon DEF CutOff
<1>2. DOMAIN messages' = D
  BY Zenon, <1>1
<1>3. DOMAIN messages \subseteq Message
  BY Zenon DEF MessagesOK
<1>4. \A k : Copies(k) \in Nat
  BY Zenon DEF Copies, MessagesOK
<1>5. \A k \in DOMAIN messages : Copies(k) \in Nat \ {0}
  BY Zenon DEF Copies, MessagesOK
\* A request of s is its orphan, or becomes it when live is cleared.
<1>OrphanOf. ASSUME NEW m \in Message, IsRequest(m), m.src = s
             PROVE  m = Orphan(m, s) \/ m = [Orphan(m, s) EXCEPT !.live = TRUE]
  <2> USE <1>OrphanOf
  <2>0. Orphan(m, s) = [m EXCEPT !.live = FALSE]
    BY Zenon DEF Orphan
  <2>1. CASE m.type = "RequestVote"
    BY Zenon, <2>0, <2>1, RequestVoteFields
  <2>2. CASE m.type = "ApplyEntries"
    BY Zenon, <2>0, <2>2, ApplyEntriesFields
  <2>3. CASE m.type = "InstallSnapshot"
    BY Zenon, <2>0, <2>3, InstallSnapshotFields
  <2> QED
    BY Zenon, <2>1, <2>2, <2>3 DEF IsRequest
<1>6. ASSUME NEW k \in D PROVE k \in Message /\ F(k) \in Nat \ {0}
  <2>1. PICK m \in DOMAIN messages : k = Orphan(m, s)
    BY Zenon
  <2>2. m \in Message /\ k \in Message /\ k.type = m.type /\ k.src = m.src
    BY Zenon, <1>3, <2>1, OrphanMessage
  <2>3. CASE IsRequest(m) /\ m.src = s
    <3>1. m = k \/ m = [k EXCEPT !.live = TRUE]
      BY Zenon, <2>1, <2>2, <2>3, <1>OrphanOf
    <3>2. Copies(k) \in Nat \ {0} \/ Copies([k EXCEPT !.live = TRUE]) \in Nat \ {0}
      BY Zenon, <1>5, <3>1
    <3>3. F(k) = Copies(k) + Copies([k EXCEPT !.live = TRUE])
      BY Zenon, <2>2, <2>3 DEF IsRequest
    <3> HIDE DEF F
    <3> QED
      BY <1>4, <2>2, <3>2, <3>3
  <2>4. CASE ~(IsRequest(m) /\ m.src = s)
    <3>1. k = m
      BY Zenon, <2>1, <2>4 DEF Orphan
    <3> QED
      BY Zenon, <2>2, <2>4, <3>1 DEF MessagesOK
  <2> QED
    BY Zenon, <2>3, <2>4
<1>7. messages' \in [D -> Nat \ {0}]
  <2> HIDE DEF F, D
  <2> QED
    BY Zenon, <1>1, <1>6
<1> QED
  BY Zenon, <1>2, <1>6, <1>7 DEF MessagesOK

-----------------------------------------------------------------------------
(***************************************************************************)
(* Logs.                                                                   *)
(***************************************************************************)

\* A log has an entry at position 0 and entries with terms.
LEMMA LogFacts ==
  ASSUME NEW l \in Log
  PROVE  /\ l \in Seq(LogEntry)
         /\ Len(l) \in Nat \ {0}
         /\ DOMAIN l = 1 .. Len(l)
         /\ \A i \in 1 .. Len(l) : l[i] \in LogEntry
BY DEF Log

\* The fields of an entry.
LEMMA EntryFields ==
  ASSUME NEW e \in LogEntry
  PROVE  e.Term \in Nat /\ e.Command \in Commands
BY Zenon DEF LogEntry

\* The entries that Start() and InstallSnapshot() make.
LEMMA NewEntry ==
  ASSUME NEW t \in Nat, NEW c \in Commands
  PROVE  [Term |-> t, Command |-> c] \in LogEntry
BY Zenon DEF LogEntry

\* A sequence of at least one entry is a log.
LEMMA LongLog ==
  ASSUME NEW l \in Seq(LogEntry), Len(l) >= 1
  PROVE  l \in Log
<1>1. l # <<>>
  OBVIOUS
<1> QED
  BY Zenon, <1>1 DEF Log

\* findFirstIndex() returns a position of the log or the one after it.
LEMMA FindFirstIndexType ==
  ASSUME Counting, NEW l \in Log, NEW t
  PROVE  findFirstIndex(l, t) \in 0 .. Len(l)
<1>1. {i \in DOMAIN l : l[i].Term < t} \in SUBSET (1 .. Len(l))
  BY Zenon, LogFacts
<1>2. Cardinality({i \in DOMAIN l : l[i].Term < t}) \in 0 .. Len(l)
  BY Zenon, <1>1, LogFacts DEF Counting
<1> QED
  BY Zenon, <1>2, LogFacts DEF findFirstIndex

\* The state of one peer.
LEMMA PeerFacts ==
  ASSUME TypeOK, NEW s \in Server
  PROVE  /\ CurrentTerm[s] \in Nat
         /\ VoteFor[s] \in Server \cup {Unvote}
         /\ votes[s] \in SUBSET Server
         /\ Logs[s] \in Log
         /\ committedIndex[s] \in Nat
         /\ lastApplied[s] \in Nat
         /\ \A p \in Server : nextIndex[s][p] \in Nat /\ matchIndex[s][p] \in Nat
         /\ lastIncludedIndex[s] \in Nat
         /\ snapshot[s] \in Seq(Commands)
         /\ applied[s] \in Seq(Commands)
BY DEF TypeOK

\* The index and the term of the last entry.
LEMMA LastLogType ==
  ASSUME TypeOK, NEW s \in Server
  PROVE  LastLogIndex(s) \in Nat /\ LastLogTerm(s) \in Nat
<1>1. Logs[s] \in Log /\ lastIncludedIndex[s] \in Nat
  BY Zenon, PeerFacts
<1>2. Len(Logs[s]) \in Nat \ {0} /\ Logs[s][Len(Logs[s])] \in LogEntry
  BY <1>1, LogFacts
<1>3. Logs[s][Len(Logs[s]) - 1 + 1].Term \in Nat
  BY <1>2, EntryFields
<1> QED
  BY <1>1, <1>2, <1>3 DEF LastLogIndex, LastLogTerm, RaftIndex, At

\* sendHeartBeat() sends well-formed requests, of the log it is given.
LEMMA HeartBeatType ==
  ASSUME TypeOK, NEW s \in Server, NEW p \in Server, NEW log \in Log
  PROVE  HeartBeatTo(s, p, log) \in Message
<1>1. /\ CurrentTerm[s] \in Nat /\ committedIndex[s] \in Nat /\ nextIndex[s][p] \in Nat
      /\ lastIncludedIndex[s] \in Nat /\ snapshot[s] \in Seq(Commands)
  BY Zenon, PeerFacts
<1>2. /\ log \in Seq(LogEntry) /\ Len(log) \in Nat \ {0}
      /\ \A i \in 1 .. Len(log) : log[i] \in LogEntry /\ log[i].Term \in Nat
  BY Zenon, LogFacts, EntryFields
<1>3. CASE NeedsSnapshot(s, p)
  <2>1. At(log, 0).Term \in Nat
    BY <1>2 DEF At
  <2> QED
    BY Zenon, <1>1, <1>3, <2>1 DEF HeartBeatTo, Message
<1>4. CASE ~NeedsSnapshot(s, p)
  <2> DEFINE last == RaftIndex(s, Len(log) - 1)
             prev == IF last >= nextIndex[s][p] THEN nextIndex[s][p] - 1 ELSE last
             r    == RealIndex(s, prev)
  <2>1. last \in Nat /\ last = Len(log) - 1 + lastIncludedIndex[s]
    BY <1>1, <1>2 DEF RaftIndex
  <2>2. nextIndex[s][p] > lastIncludedIndex[s]
    BY <1>1, <1>4 DEF NeedsSnapshot
  <2> HIDE DEF last
  <2>3. prev \in Nat /\ prev >= lastIncludedIndex[s] /\ prev <= last
    <3>1. last >= lastIncludedIndex[s]
      BY <1>1, <1>2, <2>1
    <3>2. PICK x \in Nat, l \in Nat, b \in Nat :
            x = nextIndex[s][p] /\ l = last /\ b = lastIncludedIndex[s] /\ x > b /\ l >= b
      BY Zenon, <1>1, <2>1, <2>2, <3>1
    <3>3. prev = IF l >= x THEN x - 1 ELSE l
      BY Zenon, <3>2
    <3>4. PICK v : v = prev
      BY Zenon
    <3> HIDE DEF prev
    <3>5. v \in Nat /\ v >= b /\ v <= l
      BY <3>2, <3>3, <3>4
    <3> QED
      BY Zenon, <3>2, <3>4, <3>5
  <2> HIDE DEF prev
  <2>4. r \in 0 .. Len(log) - 1
    BY <1>1, <1>2, <2>1, <2>3 DEF RealIndex
  <2> HIDE DEF r
  <2>5. At(log, r).Term \in Nat
    BY <1>2, <2>4 DEF At
  <2>6. SubSeq(log, r + 2, Len(log)) \in Seq(LogEntry)
    BY <1>2, <2>4
  <2>7. HeartBeatTo(s, p, log) =
          [type |-> "ApplyEntries", src |-> s, dst |-> p, live |-> TRUE,
           Term |-> CurrentTerm[s], LeaderCommit |-> committedIndex[s],
           PrevLogIndex |-> prev, PrevLogTerm |-> At(log, r).Term,
           Entries |-> SubSeq(log, r + 2, Len(log))]
    BY Zenon, <1>4 DEF HeartBeatTo, last, prev, r
  <2> QED
    BY <1>1, <2>3, <2>5, <2>6, <2>7 DEF Message
<1> QED
  BY Zenon, <1>3, <1>4

-----------------------------------------------------------------------------
(***************************************************************************)
(* Pieces of logs.                                                         *)
(***************************************************************************)

\* The indices and terms of a piece.
LEMMA PieceFacts ==
  ASSUME NEW p \in PieceSet
  PROVE  /\ p.base \in Nat /\ p.term \in Nat /\ End(p) \in Nat /\ p.base <= End(p)
         /\ \A i : i \in Span(p) <=> i \in Nat /\ p.base <= i /\ i <= End(p)
         /\ \A i \in Span(p) : Entry(p, i).Term \in Nat
<1>1. p.base \in Nat /\ p.log \in Log /\ p.term \in Nat
  BY Zenon DEF PieceSet
<1>2. /\ Len(p.log) \in Nat \ {0}
      /\ \A i \in 1 .. Len(p.log) : p.log[i].Term \in Nat
  BY Zenon, <1>1, LogFacts, EntryFields
<1>3. End(p) \in Nat /\ p.base <= End(p)
  BY <1>1, <1>2 DEF End
<1>4. \A i : i \in Span(p) <=> i \in Nat /\ p.base <= i /\ i <= End(p)
  BY <1>1, <1>3 DEF Span
<1>5. ASSUME NEW i \in Span(p) PROVE Entry(p, i).Term \in Nat
  <2>1. i - p.base + 1 \in 1 .. Len(p.log)
    BY <1>1, <1>2, <1>4 DEF End
  <2> QED
    BY Zenon, <1>2, <2>1 DEF Entry
<1> QED
  BY Zenon, <1>1, <1>3, <1>4, <1>5

-----------------------------------------------------------------------------
(***************************************************************************)
(* What a step can do to the role and the log of one peer.                 *)
(***************************************************************************)

\* Start() and Snapshot() never move the end of the log back.
LEMMA StartLog ==
  ASSUME TypeOK, NEW s \in Server, NEW c, Start(s, c)
  PROVE  /\ LastLogIndex(s)' = LastLogIndex(s) + 1
         /\ \A v \in Server : LogStep(v)
<1>1. Logs[s] \in Log /\ lastIncludedIndex[s] \in Nat
  BY Zenon, PeerFacts
<1>2. Logs[s] \in Seq(LogEntry) /\ Len(Logs[s]) \in Nat
  BY Zenon, <1>1, LogFacts
<1>3. /\ Logs'[s] = Append(Logs[s], [Term |-> CurrentTerm[s], Command |-> c])
      /\ \A v \in Server : v # s => Logs'[v] = Logs[v]
      /\ lastIncludedIndex' = lastIncludedIndex
  BY Zenon DEF Start, TypeOK, snapVars
<1>4. Len(Logs'[s]) = Len(Logs[s]) + 1
  BY <1>2, <1>3
<1>5. LastLogIndex(s)' = LastLogIndex(s) + 1
  BY <1>1, <1>2, <1>3, <1>4 DEF LastLogIndex, RaftIndex
<1> QED
  BY <1>3, <1>5, LastLogType DEF LogStep

\* A log always has a last index.
LEMMA LastLogNat == TypeOK => \A s \in Server : LastLogIndex(s) \in Nat
BY Zenon, LastLogType

\* The same after a step.
LEMMA LastLogNatNext == TypeOK' => \A s \in Server : LastLogIndex(s)' \in Nat
<1>1. TypeOK' => (\A s \in Server : LastLogIndex(s) \in Nat)'
  BY LastLogNat, PTL
<1> QED
  BY Zenon, <1>1

-----------------------------------------------------------------------------
(***************************************************************************)
(* Where the pieces are.                                                   *)
(***************************************************************************)

\* The parts of a piece.
LEMMA PieceFields ==
  ASSUME NEW b \in Nat, NEW l \in Log, NEW t \in Nat
  PROVE  /\ Piece(b, l, t) \in PieceSet
         /\ Piece(b, l, t).base = b /\ Piece(b, l, t).log = l /\ Piece(b, l, t).term = t
BY Zenon DEF Piece, PieceSet

\* The entries of an ApplyEntries, from the one before them on.
LEMMA CarriedFacts ==
  ASSUME NEW m \in Message, m.type = "ApplyEntries"
  PROVE  /\ Carried(m) \in Log
         /\ Len(m.Entries) \in Nat
         /\ Len(Carried(m)) = Len(m.Entries) + 1
         /\ Carried(m)[1].Term = m.PrevLogTerm
         /\ \A k \in 1 .. Len(m.Entries) : Carried(m)[k + 1] = m.Entries[k]
<1> DEFINE e == [Term |-> m.PrevLogTerm, Command |-> NoCommand]
<1>1. m.PrevLogTerm \in Nat /\ m.Entries \in Seq(LogEntry)
  BY Zenon, ApplyEntriesFields
<1>2. e \in LogEntry /\ e.Term = m.PrevLogTerm
  BY Zenon, <1>1, NewEntry DEF Commands
<1>3. Carried(m) = <<e>> \o m.Entries
  BY Zenon DEF Carried
<1> HIDE DEF e
<1>4. <<e>> \in Seq(LogEntry) /\ Len(<<e>>) = 1 /\ <<e>>[1] = e
  BY <1>2
<1>5. /\ Carried(m) \in Seq(LogEntry)
      /\ Len(Carried(m)) = Len(<<e>>) + Len(m.Entries)
      /\ \A i \in 1 .. Len(<<e>>) + Len(m.Entries) :
           Carried(m)[i] = IF i <= Len(<<e>>) THEN <<e>>[i] ELSE m.Entries[i - Len(<<e>>)]
  BY <1>1, <1>3, <1>4, ConcatFacts
<1>6. Len(m.Entries) \in Nat
  BY <1>1
<1>7. Carried(m)[1].Term = m.PrevLogTerm
  BY <1>2, <1>4, <1>5, <1>6
<1>8. ASSUME NEW k \in 1 .. Len(m.Entries) PROVE Carried(m)[k + 1] = m.Entries[k]
  <2>1. k + 1 \in 1 .. 1 + Len(m.Entries) /\ ~(k + 1 <= 1) /\ (k + 1) - 1 = k
    BY <1>6
  <2> QED
    BY Zenon, <1>4, <1>5, <2>1
<1>9. Carried(m) \in Log
  BY <1>4, <1>5, <1>6, LongLog
<1> QED
  BY <1>4, <1>5, <1>6, <1>7, <1>8, <1>9

\* What an InstallSnapshot says of the log.
LEMMA LastIncludedFacts ==
  ASSUME NEW m \in Message, m.type = "InstallSnapshot"
  PROVE  /\ LastIncluded(m) \in Log
         /\ Len(LastIncluded(m)) = 1
         /\ LastIncluded(m)[1].Term = m.LastIncludedTerm
<1> DEFINE e == [Term |-> m.LastIncludedTerm, Command |-> NoCommand]
<1>1. m.LastIncludedTerm \in Nat
  BY Zenon, InstallSnapshotFields
<1>2. e \in LogEntry /\ e.Term = m.LastIncludedTerm
  BY Zenon, <1>1, NewEntry DEF Commands
<1>3. LastIncluded(m) = <<e>>
  BY Zenon DEF LastIncluded
<1> HIDE DEF e
<1>4. <<e>> \in Seq(LogEntry) /\ Len(<<e>>) = 1 /\ <<e>>[1] = e
  BY <1>2
<1>5. /\ LastIncluded(m) \in Seq(LogEntry) /\ Len(LastIncluded(m)) = 1
      /\ LastIncluded(m)[1] = e
  BY Zenon, <1>3, <1>4
<1>6. Len(LastIncluded(m)) >= 1
  BY <1>5
<1>7. LastIncluded(m) \in Log
  BY Zenon, <1>5, <1>6, LongLog
<1> QED
  BY Zenon, <1>2, <1>5, <1>7

\* The parts of the piece that a peer holds.
LEMMA PeerPieceFields ==
  ASSUME TypeOK, NEW s \in Server
  PROVE  /\ PeerPiece(s) \in PieceSet
         /\ PeerPiece(s).base = lastIncludedIndex[s]
         /\ PeerPiece(s).log = Logs[s]
         /\ PeerPiece(s).term = CurrentTerm[s]
         /\ End(PeerPiece(s)) = LastLogIndex(s)
<1>1. lastIncludedIndex[s] \in Nat /\ Logs[s] \in Log /\ CurrentTerm[s] \in Nat
  BY Zenon, PeerFacts
<1>2. /\ PeerPiece(s) \in PieceSet
      /\ PeerPiece(s).base = lastIncludedIndex[s]
      /\ PeerPiece(s).log = Logs[s]
      /\ PeerPiece(s).term = CurrentTerm[s]
  BY <1>1, PieceFields DEF PeerPiece
<1>3. Len(Logs[s]) \in Nat
  BY Zenon, <1>1, LogFacts
<1> QED
  BY <1>1, <1>2, <1>3 DEF End, LastLogIndex, RaftIndex

\* The parts of the piece in an ApplyEntries.
LEMMA EntriesPieceFields ==
  ASSUME NEW m \in Message, m.type = "ApplyEntries"
  PROVE  /\ EntriesPiece(m) \in PieceSet
         /\ EntriesPiece(m).base = m.PrevLogIndex
         /\ EntriesPiece(m).log = Carried(m)
         /\ EntriesPiece(m).term = m.Term
         /\ End(EntriesPiece(m)) = m.PrevLogIndex + Len(m.Entries)
<1>1. m.PrevLogIndex \in Nat /\ Carried(m) \in Log /\ m.Term \in Nat
  BY Zenon, ApplyEntriesFields, CarriedFacts
<1>2. /\ EntriesPiece(m) \in PieceSet
      /\ EntriesPiece(m).base = m.PrevLogIndex
      /\ EntriesPiece(m).log = Carried(m)
      /\ EntriesPiece(m).term = m.Term
  BY <1>1, PieceFields DEF EntriesPiece
<1> QED
  BY <1>1, <1>2, CarriedFacts DEF End

\* The parts of the piece in an InstallSnapshot.
LEMMA SnapshotPieceFields ==
  ASSUME NEW m \in Message, m.type = "InstallSnapshot"
  PROVE  /\ SnapshotPiece(m) \in PieceSet
         /\ SnapshotPiece(m).base = m.LastIncludedIndex
         /\ SnapshotPiece(m).log = LastIncluded(m)
         /\ SnapshotPiece(m).term = m.Term
         /\ End(SnapshotPiece(m)) = m.LastIncludedIndex
<1>1. m.LastIncludedIndex \in Nat /\ LastIncluded(m) \in Log /\ m.Term \in Nat
  BY Zenon, InstallSnapshotFields, LastIncludedFacts
<1>2. /\ SnapshotPiece(m) \in PieceSet
      /\ SnapshotPiece(m).base = m.LastIncludedIndex
      /\ SnapshotPiece(m).log = LastIncluded(m)
      /\ SnapshotPiece(m).term = m.Term
  BY <1>1, PieceFields DEF SnapshotPiece
<1>3. Len(SnapshotPiece(m).log) = 1
  BY Zenon, <1>2, LastIncludedFacts
<1>4. End(SnapshotPiece(m)) = m.LastIncludedIndex + 1 - 1
  BY Zenon, <1>2, <1>3 DEF End
<1> QED
  BY <1>1, <1>2, <1>4

-----------------------------------------------------------------------------
(***************************************************************************)
(* What a step can do to the log of one peer.                              *)
(***************************************************************************)

\* A snapshot covers the index it is labelled with, and only a restart may
\* bring back an older one.
LEMMA SnapshotForward ==
  ASSUME TypeOK, TypeOK', SnapshotsInv, [Next]_vars, NEW v \in Server
  PROVE  /\ Len(snapshot'[v]) = lastIncludedIndex'[v]
         /\ ~Crash(v) => lastIncludedIndex[v] <= lastIncludedIndex'[v]
<1>1. /\ lastIncludedIndex[v] \in Nat /\ Len(snapshot[v]) = lastIncludedIndex[v]
      /\ Len(persister[v].snapshot) = persister[v].lastIncludedIndex
  BY Zenon, PeerFacts DEF SnapshotsInv
<1>2. CASE snapshot'[v] = snapshot[v] /\ lastIncludedIndex'[v] = lastIncludedIndex[v]
  BY <1>1, <1>2
<1>3. CASE UNCHANGED snapVars \/ UNCHANGED <<lastIncludedIndex, snapshot>>
  BY Zenon, <1>2, <1>3 DEF snapVars
<1>4. CASE UNCHANGED vars
  BY Zenon, <1>3, <1>4 DEF vars
<1>5. ASSUME NEW s \in Server,
             \/ ElectionTimeout(s) \/ LeaderTimerExpires(s) \/ HeartbeatTimeout(s)
             \/ applyLog(s) \/ \E c \in Submits(s) : Start(s, c)
      PROVE  UNCHANGED snapVars \/ UNCHANGED <<lastIncludedIndex, snapshot>>
  BY Zenon, <1>5 DEF ElectionTimeout, LeaderTimerExpires, HeartbeatTimeout, applyLog, Start
<1>6. ASSUME NEW m \in DOMAIN messages,
             \/ RequestVote(m) \/ OnRequestVoteReply(m) \/ ApplyEntries(m)
             \/ OnApplyEntriesReply(m) \/ OnInstallSnapshotReply(m)
      PROVE  UNCHANGED snapVars
  BY Zenon, <1>6 DEF RequestVote, OnRequestVoteReply, ApplyEntries, OnApplyEntriesReply,
     OnInstallSnapshotReply
<1>7. ASSUME NEW s \in Server, Crash(s)
      PROVE  \/ snapshot'[v] = snapshot[v] /\ lastIncludedIndex'[v] = lastIncludedIndex[v]
             \/ /\ Crash(v) /\ snapshot'[v] = persister[v].snapshot
                /\ lastIncludedIndex'[v] = persister[v].lastIncludedIndex
  <2>1. DOMAIN snapshot = Server /\ DOMAIN lastIncludedIndex = Server
    BY Zenon DEF TypeOK
  <2>2. /\ snapshot' = [snapshot EXCEPT ![s] = persister[s].snapshot]
        /\ lastIncludedIndex' = [lastIncludedIndex EXCEPT ![s] = persister[s].lastIncludedIndex]
    BY Zenon, <1>7 DEF Crash
  <2>3. CASE v = s
    BY Zenon, <1>7, <2>1, <2>2, <2>3
  <2>4. CASE v # s
    BY Zenon, <2>1, <2>2, <2>4
  <2> QED
    BY Zenon, <2>3, <2>4
<1>8. ASSUME NEW s \in Server, NEW x \in 1 .. Len(applied[s]), Snapshot(s, x),
             lastIncludedIndex'[v] # lastIncludedIndex[v] \/ snapshot'[v] # snapshot[v]
      PROVE  Len(snapshot'[v]) = lastIncludedIndex'[v]
             /\ lastIncludedIndex[v] <= lastIncludedIndex'[v]
  <2>1. /\ s = v /\ x > lastIncludedIndex[v] /\ lastIncludedIndex'[v] = x
        /\ snapshot'[v] = SubSeq(applied[v], 1, x)
    BY Zenon, <1>8 DEF Snapshot, TypeOK
  <2>2. applied[s] \in Seq(Commands)
    BY Zenon, PeerFacts
  <2>3. x \in Nat /\ Len(SubSeq(applied[s], 1, x)) = x
    BY <2>2
  <2> QED
    BY <1>1, <2>1, <2>3
<1>9. ASSUME NEW m \in DOMAIN messages, InstallSnapshot(m),
             lastIncludedIndex'[v] # lastIncludedIndex[v] \/ snapshot'[v] # snapshot[v]
      PROVE  Len(snapshot'[v]) = lastIncludedIndex'[v]
             /\ lastIncludedIndex[v] <= lastIncludedIndex'[v]
  <2>0. m \in Message /\ m.type = "InstallSnapshot" /\ m \in Sent("InstallSnapshot")
    BY Zenon, <1>9 DEF InstallSnapshot, TypeOK, Sent
  <2>1. m.dst \in Server /\ m.LastIncludedIndex \in Nat
    BY Zenon, <2>0, InstallSnapshotFields
  <2>2. /\ lastIncludedIndex[m.dst] < m.LastIncludedIndex
        /\ lastIncludedIndex' = [lastIncludedIndex EXCEPT ![m.dst] = m.LastIncludedIndex]
        /\ snapshot' = [snapshot EXCEPT ![m.dst] = m.Data]
    BY Zenon, <1>9 DEF InstallSnapshot, snapVars
  <2>3. /\ lastIncludedIndex[v] < m.LastIncludedIndex
        /\ lastIncludedIndex'[v] = m.LastIncludedIndex /\ snapshot'[v] = m.Data
    BY Zenon, <1>9, <2>1, <2>2 DEF TypeOK
  <2> QED
    BY <1>1, <2>0, <2>1, <2>3 DEF SnapshotsInv
<1> QED
  BY Zenon, <1>1, <1>2, <1>3, <1>4, <1>5, <1>6, <1>7, <1>8, <1>9 DEF Next

\* The end of a log with a snapshot, or with an entry above it.
LEMMA SnapshotReach ==
  TypeOK => \A s \in Server : lastIncludedIndex[s] <= LastLogIndex(s)
<1> SUFFICES ASSUME TypeOK, NEW s \in Server PROVE lastIncludedIndex[s] <= LastLogIndex(s)
  BY Zenon
<1>1. Logs[s] \in Log /\ lastIncludedIndex[s] \in Nat
  BY Zenon, PeerFacts
<1>2. Len(Logs[s]) \in Nat \ {0}
  BY Zenon, <1>1, LogFacts
<1> QED
  BY <1>1, <1>2 DEF LastLogIndex, RaftIndex

-----------------------------------------------------------------------------
(***************************************************************************)
(* What a step can do to the disks and to the set of leaders.              *)
(***************************************************************************)

\* persist() leaves the other peers' persisters alone.
LEMMA PersistOne ==
  ASSUME TypeOK, NEW s \in Server, persist(s)
  PROVE  /\ persister'[s].CurrentTerm = CurrentTerm'[s]
         /\ persister'[s].VoteFor = VoteFor'[s]
         /\ \A v \in Server : v # s => persister'[v] = persister[v]
BY Zenon DEF persist, TypeOK

\* A step makes at most one new leader: one that holds votes of a majority.
LEMMA NewLeader ==
  ASSUME TypeOK, [Next]_vars
  PROVE  \/ leaders' = leaders
         \/ \E s \in Server, Q \in SUBSET Server :
              /\ leaders' = leaders \cup {<<s, CurrentTerm[s]>>}
              /\ Majority(Q)
              /\ \A v \in Q : Evidence(v, s, CurrentTerm[s])
<1>1. ASSUME NEW m \in DOMAIN messages, OnRequestVoteReply(m), leaders' # leaders
      PROVE  \E s \in Server, Q \in SUBSET Server :
              /\ leaders' = leaders \cup {<<s, CurrentTerm[s]>>}
              /\ Majority(Q)
              /\ \A v \in Q : Evidence(v, s, CurrentTerm[s])
  <2> DEFINE s == m.dst
             granted == votes[s] \cup {m.src}
  <2>1. m \in Message /\ m.type = "RequestVoteReply"
    BY Zenon, <1>1 DEF TypeOK, OnRequestVoteReply
  <2>2. s \in Server /\ m.src \in Server
    BY Zenon, <2>1, RequestVoteReplyFields
  <2>3. /\ m.Term = CurrentTerm[s] /\ m.VoteGranted /\ Majority(granted)
        /\ leaders' = leaders \cup {<<s, CurrentTerm[s]>>}
    BY Zenon, <1>1 DEF OnRequestVoteReply
  <2>4. granted \in SUBSET Server
    BY Zenon, <2>2, PeerFacts
  <2>5. \A v \in granted : Evidence(v, s, CurrentTerm[s])
    BY Zenon, <2>1, <2>3 DEF Evidence
  <2> HIDE DEF s, granted
  <2> QED
    BY Zenon, <2>2, <2>3, <2>4, <2>5
<1>2. ASSUME NEW m \in DOMAIN messages, ~OnRequestVoteReply(m),
             \/ RequestVote(m) \/ ApplyEntries(m) \/ OnApplyEntriesReply(m)
             \/ InstallSnapshot(m) \/ OnInstallSnapshotReply(m)
      PROVE  leaders' = leaders
  BY Zenon, <1>2 DEF RequestVote, ApplyEntries, OnApplyEntriesReply, InstallSnapshot,
     OnInstallSnapshotReply, historyVars
<1>3. ASSUME NEW s \in Server,
             \/ ElectionTimeout(s) \/ LeaderTimerExpires(s) \/ HeartbeatTimeout(s)
             \/ applyLog(s) \/ Crash(s)
             \/ \E c \in Submits(s) : Start(s, c)
             \/ \E x \in 1 .. Len(applied[s]) : Snapshot(s, x)
      PROVE  leaders' = leaders
  BY Zenon, <1>3 DEF ElectionTimeout, LeaderTimerExpires, HeartbeatTimeout, applyLog, Crash,
     Start, Snapshot, historyVars
<1>4. CASE UNCHANGED vars
  BY Zenon, <1>4 DEF vars, historyVars
<1> QED
  BY Zenon, <1>1, <1>2, <1>3, <1>4 DEF Next

=============================================================================
