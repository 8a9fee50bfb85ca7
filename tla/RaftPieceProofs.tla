-------------------------- MODULE RaftPieceProofs ---------------------------
(***************************************************************************)
(* What a step of module Raft does to the logs, for any number of peers,   *)
(* terms, entries, crashes and snapshots.                                  *)
(*                                                                         *)
(* Pieces of logs are everywhere: in the peers, on disk, and on their way  *)
(* in ApplyEntries and InstallSnapshot. A piece is the index before its    *)
(* first entry (base), its entries, the first of which is only known by    *)
(* its term, and the term of who holds or sent it. The invariant is about  *)
(* the set of all pieces, and the argument about a step is always the      *)
(* same: what is in the system after the step is part of what was there    *)
(* before, or glued together from two pieces, or a log to which a leader,  *)
(* the only one of its term, has appended an entry.                        *)
(***************************************************************************)
EXTENDS RaftFacts

-----------------------------------------------------------------------------
(***************************************************************************)
(* Sequences of entries.                                                   *)
(***************************************************************************)

\* The first n elements of a, and then e.
LEMMA Splice ==
  ASSUME NEW a \in Seq(LogEntry), NEW e \in Seq(LogEntry), NEW n \in 1 .. Len(a)
  PROVE  LET w == SubSeq(a, 1, n) \o e IN
         /\ w \in Seq(LogEntry)
         /\ Len(w) = n + Len(e)
         /\ \A k \in 1 .. n : w[k] = a[k]
         /\ \A k \in 1 .. Len(e) : w[n + k] = e[k]
<1> DEFINE b == SubSeq(a, 1, n)
           w == b \o e
<1>1. Len(a) \in Nat /\ Len(e) \in Nat /\ n \in Nat
  OBVIOUS
<1>2. b \in Seq(LogEntry) /\ Len(b) = n /\ \A k \in 1 .. n : b[k] = a[k]
  BY <1>1
<1> HIDE DEF b
<1>3. /\ w \in Seq(LogEntry) /\ Len(w) = n + Len(e)
      /\ \A k \in 1 .. n + Len(e) : w[k] = IF k <= n THEN b[k] ELSE e[k - n]
  BY Zenon, <1>1, <1>2, ConcatFacts
<1> HIDE DEF w
<1>4. ASSUME NEW k \in 1 .. n PROVE w[k] = a[k]
  <2>1. k \in 1 .. n + Len(e) /\ k <= n
    BY <1>1
  <2> QED
    BY Zenon, <1>2, <1>3, <2>1
<1>5. ASSUME NEW k \in 1 .. Len(e) PROVE w[n + k] = e[k]
  <2>1. n + k \in 1 .. n + Len(e) /\ ~(n + k <= n) /\ n + k - n = k
    BY <1>1
  <2> QED
    BY <1>3, <2>1
<1> QED
  BY Zenon, <1>3, <1>4, <1>5 DEF w, b

\* ... and then the rest of a, when that is longer.
LEMMA SpliceRest ==
  ASSUME NEW a \in Seq(LogEntry), NEW e \in Seq(LogEntry), NEW n \in 1 .. Len(a),
         n + Len(e) + 1 <= Len(a),
         \A k \in 1 .. Len(e) : e[k] = a[n + k]
  PROVE  SubSeq(a, 1, n) \o e \o SubSeq(a, n + 1 + Len(e), Len(a)) = a
<1> DEFINE b == SubSeq(a, 1, n) \o e
           j == n + 1 + Len(e)
           c == SubSeq(a, j, Len(a))
           w == b \o c
<1>1. Len(a) \in Nat /\ Len(e) \in Nat /\ n \in Nat
  OBVIOUS
<1>2. /\ b \in Seq(LogEntry) /\ Len(b) = n + Len(e)
      /\ \A k \in 1 .. n : b[k] = a[k]
      /\ \A k \in 1 .. Len(e) : b[n + k] = e[k]
  BY Zenon, Splice
<1> HIDE DEF b
<1>3. j \in Nat \ {0} /\ j <= Len(a) /\ j = n + Len(e) + 1
  BY <1>1
<1> HIDE DEF j
<1>4. /\ c \in Seq(LogEntry) /\ Len(c) = Len(a) - j + 1
      /\ \A k \in 1 .. Len(a) - j + 1 : c[k] = a[j + k - 1]
  BY <1>1, <1>3
<1> HIDE DEF c
<1>5. n + Len(e) + (Len(a) - j + 1) = Len(a)
  BY <1>1, <1>3
<1>6. /\ w \in Seq(LogEntry) /\ Len(w) = Len(a)
      /\ \A k \in 1 .. Len(a) : w[k] = IF k <= n + Len(e) THEN b[k] ELSE c[k - (n + Len(e))]
  <2>1. /\ w \in Seq(LogEntry) /\ Len(w) = Len(b) + Len(c)
        /\ \A k \in 1 .. Len(b) + Len(c) : w[k] = IF k <= Len(b) THEN b[k] ELSE c[k - Len(b)]
    <3>1. b \in Seq(LogEntry) /\ c \in Seq(LogEntry)
      BY Zenon, <1>2, <1>4
    <3> QED
      BY <3>1, ConcatFacts
  <2>2. Len(b) + Len(c) = Len(a)
    BY Zenon, <1>2, <1>4, <1>5
  <2> QED
    BY Zenon, <1>2, <2>1, <2>2
<1> HIDE DEF w
<1>7. ASSUME NEW k \in 1 .. Len(a) PROVE w[k] = a[k]
  <2>0. k \in Nat /\ k >= 1 /\ k <= Len(a)
    BY <1>1
  <2>1. CASE k <= n
    <3>1. k <= n + Len(e) /\ k \in 1 .. n
      BY <1>1, <2>0, <2>1
    <3> QED
      BY Zenon, <1>2, <1>6, <3>1
  <2>2. CASE n < k /\ k <= n + Len(e)
    <3>1. k - n \in 1 .. Len(e) /\ n + (k - n) = k
      BY <1>1, <2>0, <2>2
    <3>2. b[n + (k - n)] = e[k - n] /\ e[k - n] = a[n + (k - n)]
      BY Zenon, <1>2, <3>1
    <3> QED
      BY Zenon, <1>6, <2>2, <3>1, <3>2
  <2>3. CASE n + Len(e) < k
    <3>1. /\ k - (n + Len(e)) \in 1 .. Len(a) - j + 1 /\ ~(k <= n + Len(e))
          /\ j + (k - (n + Len(e))) - 1 = k
      BY <1>1, <1>3, <2>0, <2>3
    <3> QED
      BY Zenon, <1>4, <1>6, <3>1
  <2> QED
    BY <1>1, <2>0, <2>1, <2>2, <2>3
<1>8. w = a
  BY <1>6, <1>7
<1> QED
  BY Zenon, <1>8 DEF w, b, c, j

\* A log with entries copied in after position n: it stays as it is, or is cut
\* at n and then the entries follow.
LEMMA CopyIn ==
  ASSUME NEW log \in Seq(LogEntry), NEW new \in Seq(LogEntry), NEW n \in 1 .. Len(log),
         NEW conflict \in BOOLEAN,
         ~conflict /\ n + Len(new) < Len(log) =>
           \A k \in 1 .. Len(new) : new[k] = log[n + k]
  PROVE  LET w == SubSeq(log, 1, n) \o new \o
                    (IF conflict THEN <<>> ELSE SubSeq(log, n + 1 + Len(new), Len(log)))
         IN  w = log \/ w = SubSeq(log, 1, n) \o new
<1> DEFINE b == SubSeq(log, 1, n) \o new
           j == n + 1 + Len(new)
           w == b \o (IF conflict THEN <<>> ELSE SubSeq(log, j, Len(log)))
<1>1. Len(log) \in Nat /\ Len(new) \in Nat /\ n \in Nat
  OBVIOUS
<1>2. b \in Seq(LogEntry)
  BY Zenon, Splice
<1>3. b \o <<>> = b
  <2> HIDE DEF b
  <2> QED
    BY Zenon, <1>2, ConcatEmpty
<1>4. CASE conflict
  BY Zenon, <1>3, <1>4
<1>5. CASE ~conflict /\ ~(n + Len(new) < Len(log))
  <2>1. j > Len(log) /\ j \in Nat
    BY <1>1, <1>5
  <2>2. SubSeq(log, j, Len(log)) = <<>>
    <3> HIDE DEF j
    <3> QED
      BY Zenon, <1>1, <2>1, SubSeqPastEnd
  <2> QED
    BY Zenon, <1>3, <1>5, <2>2
<1>6. CASE ~conflict /\ n + Len(new) < Len(log)
  <2>1. n + Len(new) + 1 <= Len(log)
    BY <1>1, <1>6
  <2>2. \A k \in 1 .. Len(new) : new[k] = log[n + k]
    BY Zenon, <1>6
  <2>3. b \o SubSeq(log, j, Len(log)) = log
    BY Zenon, <2>1, <2>2, SpliceRest
  <2> QED
    BY Zenon, <1>6, <2>3
<1> QED
  BY Zenon, <1>4, <1>5, <1>6

-----------------------------------------------------------------------------
(***************************************************************************)
(* Pieces of logs.                                                         *)
(***************************************************************************)

\* Sorted, by indices.
LEMMA SortedPiece ==
  ASSUME NEW p \in PieceSet
  PROVE  Sorted(p.log) <=>
           \A i, j \in Span(p) : i <= j => Entry(p, i).Term <= Entry(p, j).Term
<1>1. p.base \in Nat /\ p.log \in Log
  BY Zenon DEF PieceSet
<1>2. Len(p.log) \in Nat \ {0} /\ DOMAIN p.log = 1 .. Len(p.log)
  BY Zenon, <1>1, LogFacts
<1>3. \A i : i \in Span(p) <=> i \in Nat /\ p.base <= i /\ i <= p.base + Len(p.log) - 1
  BY <1>1, <1>2 DEF Span, End
<1>3a. PICK base \in Nat, len \in Nat \ {0} : base = p.base /\ len = Len(p.log)
  BY Zenon, <1>1, <1>2
<1>3b. \A i : i \in Span(p) <=> i \in Nat /\ base <= i /\ i <= base + len - 1
  BY Zenon, <1>3, <1>3a
<1>3c. DOMAIN p.log = 1 .. len /\ \A i : Entry(p, i) = p.log[i - base + 1]
  BY Zenon, <1>2, <1>3a DEF Entry
<1>4. ASSUME Sorted(p.log), NEW i \in Span(p), NEW j \in Span(p), i <= j
      PROVE  Entry(p, i).Term <= Entry(p, j).Term
  <2>1. i \in Nat /\ base <= i /\ i <= base + len - 1
    BY Zenon, <1>3b
  <2>2. j \in Nat /\ base <= j /\ j <= base + len - 1
    BY Zenon, <1>3b
  <2>3. /\ i - base + 1 \in 1 .. len /\ j - base + 1 \in 1 .. len
        /\ i - base + 1 <= j - base + 1
    BY <1>4, <2>1, <2>2
  <2> QED
    BY Zenon, <1>3c, <1>4, <2>3 DEF Sorted
<1>5. ASSUME \A i, j \in Span(p) : i <= j => Entry(p, i).Term <= Entry(p, j).Term,
             NEW x \in DOMAIN p.log, NEW y \in DOMAIN p.log, x <= y
      PROVE  p.log[x].Term <= p.log[y].Term
  <2>0. x \in 1 .. len /\ y \in 1 .. len
    BY Zenon, <1>3c
  <2>1. PICK i \in Nat : base <= i /\ i <= base + len - 1 /\ i - base + 1 = x
    <3>1. PICK k \in Nat : k = (base + x) - 1
      BY <2>0
    <3>2. base <= k /\ k <= base + len - 1 /\ k - base + 1 = x
      BY <2>0, <3>1
    <3> QED
      BY Zenon, <3>2
  <2>2. PICK j \in Nat : base <= j /\ j <= base + len - 1 /\ j - base + 1 = y
    <3>1. PICK k \in Nat : k = (base + y) - 1
      BY <2>0
    <3>2. base <= k /\ k <= base + len - 1 /\ k - base + 1 = y
      BY <2>0, <3>1
    <3> QED
      BY Zenon, <3>2
  <2>3. i <= j
    BY <1>5, <2>0, <2>1, <2>2
  <2>4. i \in Span(p) /\ j \in Span(p)
    BY Zenon, <1>3b, <2>1, <2>2
  <2>5. Entry(p, i).Term <= Entry(p, j).Term
    BY Zenon, <1>5, <2>3, <2>4
  <2>6. Entry(p, i) = p.log[x] /\ Entry(p, j) = p.log[y]
    BY Zenon, <1>3c, <2>1, <2>2
  <2> QED
    BY Zenon, <2>5, <2>6
<1> QED
  BY Zenon, <1>4, <1>5 DEF Sorted

\* A piece agrees with itself.
LEMMA AgreeSelf == ASSUME NEW p PROVE Agree(p, p)
BY Zenon DEF Agree

\* Agreement has no direction.
LEMMA AgreeSym == ASSUME NEW p, NEW q, Agree(p, q) PROVE Agree(q, p)
BY Zenon DEF Agree

\* Parts of agreeing pieces agree.
LEMMA PartsAgree ==
  ASSUME NEW p, NEW q, NEW a, NEW b, Part(a, p), Part(b, q), Agree(p, q)
  PROVE  Agree(a, b)
BY Zenon DEF Part, Agree

\* A part is part of itself and of what it is part of.
LEMMA PartRefl == ASSUME NEW p \in PieceSet PROVE Part(p, p)
BY PieceFacts DEF Part

\* A part of a well formed piece is well formed.
LEMMA PartWellFormed ==
  ASSUME NEW p \in PieceSet, NEW a \in PieceSet, Part(a, p), WellFormed(p)
  PROVE  WellFormed(a)
<1>1. \A i, j \in Span(p) : i <= j => Entry(p, i).Term <= Entry(p, j).Term
  BY Zenon, SortedPiece DEF WellFormed
<1>2. \A i, j \in Span(a) : i <= j => Entry(a, i).Term <= Entry(a, j).Term
  BY Zenon, <1>1 DEF Part
<1>3. Sorted(a.log)
  BY Zenon, <1>2, SortedPiece
<1>4. ASSUME NEW i \in Span(a)
      PROVE  Entry(a, i).Term <= a.term /\ (Entry(a, i).Term = 0 <=> i = 0)
  <2>1. i \in Span(p) /\ Entry(a, i).Term = Entry(p, i).Term /\ p.term <= a.term
    BY Zenon DEF Part
  <2>2. Entry(p, i).Term <= p.term /\ (Entry(p, i).Term = 0 <=> i = 0)
    BY Zenon, <2>1 DEF WellFormed
  <2>3. Entry(p, i).Term \in Nat /\ p.term \in Nat /\ a.term \in Nat
    BY Zenon, <2>1, PieceFacts
  <2> QED
    BY <2>1, <2>2, <2>3
<1> QED
  BY Zenon, <1>3, <1>4 DEF WellFormed

\* Above its base, a part has the terms of what it is part of.
LEMMA PartIndex ==
  ASSUME NEW p \in PieceSet, NEW a \in PieceSet, Part(a, p), NEW i \in a.base + 1 .. End(a)
  PROVE  i \in p.base + 1 .. End(p) /\ Entry(a, i).Term = Entry(p, i).Term
<1>1. i \in Span(a) /\ a.base < i
  BY PieceFacts
<1>2. i \in Span(p) /\ p.base < i /\ Entry(a, i).Term = Entry(p, i).Term
  BY Zenon, <1>1 DEF Part
<1> QED
  BY <1>2, PieceFacts

\* What agrees with both agrees with the glued piece: below the base of q by
\* way of the term there.
LEMMA GluedAgree ==
  ASSUME NEW n \in PieceSet, NEW p \in PieceSet, NEW q \in PieceSet, NEW r \in PieceSet,
         Glued(n, p, q), Agree(p, r), Agree(q, r)
  PROVE  Agree(n, r)
<1> SUFFICES ASSUME NEW i \in Span(n) \cap Span(r), Entry(n, i).Term = Entry(r, i).Term,
                    NEW j \in Span(n) \cap Span(r), j <= i
             PROVE  /\ Entry(n, j).Term = Entry(r, j).Term
                    /\ n.base < j /\ r.base < j => Entry(n, j) = Entry(r, j)
  BY Zenon DEF Agree
<1>1. /\ i \in Nat /\ j \in Nat /\ q.base \in Nat /\ p.base \in Nat /\ r.base \in Nat
      /\ End(p) \in Nat /\ End(q) \in Nat /\ End(r) \in Nat
      /\ n.base = p.base /\ End(n) = End(q)
      /\ p.base <= q.base /\ q.base <= End(p) /\ q.base <= End(q)
      /\ p.base <= i /\ i <= End(q) /\ r.base <= i /\ i <= End(r)
      /\ p.base <= j /\ j <= End(q) /\ r.base <= j /\ j <= End(r)
  BY Zenon, PieceFacts DEF Glued
<1>2. ASSUME NEW k \in Nat
      PROVE  /\ k \in Span(p) <=> p.base <= k /\ k <= End(p)
             /\ k \in Span(q) <=> q.base <= k /\ k <= End(q)
             /\ k \in Span(r) <=> r.base <= k /\ k <= End(r)
  BY Zenon, PieceFacts
<1>3. ASSUME NEW k \in Span(p) \cap Span(r), k <= q.base, j <= k,
             Entry(p, k).Term = Entry(r, k).Term
      PROVE  /\ Entry(n, j).Term = Entry(r, j).Term
             /\ n.base < j /\ r.base < j => Entry(n, j) = Entry(r, j)
  <2>0. k \in Nat /\ k <= End(p)
    BY Zenon, <1>3, PieceFacts
  <2>1. j <= q.base /\ j \in Span(p) /\ Entry(n, j) = Entry(p, j)
    BY <1>1, <1>2, <1>3, <2>0 DEF Glued
  <2> QED
    BY Zenon, <1>1, <1>3, <2>1 DEF Agree
<1>4. CASE i <= q.base
  <2>1. i \in Span(p) /\ Entry(n, i) = Entry(p, i)
    BY <1>1, <1>2, <1>4 DEF Glued
  <2> QED
    BY Zenon, <1>3, <1>4, <2>1
<1>5. CASE ~(i <= q.base)
  <2>1. i \in Span(q) /\ Entry(q, i).Term = Entry(r, i).Term
    BY <1>1, <1>2, <1>5 DEF Glued
  <2>2. CASE j > q.base
    <3>1. j \in Span(q) /\ Entry(n, j) = Entry(q, j) /\ ~(j <= q.base)
      BY <1>1, <1>2, <2>2 DEF Glued
    <3> QED
      BY Zenon, <1>1, <2>1, <2>2, <3>1 DEF Agree
  <2>3. CASE j <= q.base
    <3>1. q.base \in Span(q) /\ q.base \in Span(r) /\ q.base \in Span(p) /\ q.base <= i
      BY <1>1, <1>2, <1>5, <2>3
    <3>2. Entry(q, q.base).Term = Entry(r, q.base).Term
      BY Zenon, <2>1, <3>1 DEF Agree
    <3>3. Entry(p, q.base).Term = Entry(r, q.base).Term
      BY Zenon, <3>2 DEF Glued
    <3> QED
      BY <1>1, <1>3, <2>3, <3>1, <3>3
  <2> QED
    BY <1>1, <2>2, <2>3
<1> QED
  BY Zenon, <1>4, <1>5

\* Two well formed pieces glued together are well formed.
LEMMA GluedWellFormed ==
  ASSUME NEW n \in PieceSet, NEW p \in PieceSet, NEW q \in PieceSet,
         Glued(n, p, q), WellFormed(p), WellFormed(q)
  PROVE  WellFormed(n)
<1>1. /\ n.base = p.base /\ End(n) = End(q)
      /\ p.base \in Nat /\ q.base \in Nat /\ End(p) \in Nat /\ End(q) \in Nat
      /\ p.base <= q.base /\ q.base <= End(p) /\ q.base <= End(q)
      /\ p.term \in Nat /\ q.term \in Nat /\ n.term \in Nat
      /\ p.term <= n.term /\ q.term <= n.term
  BY Zenon, PieceFacts DEF Glued
<1>2. /\ \A i, j \in Span(p) : i <= j => Entry(p, i).Term <= Entry(p, j).Term
      /\ \A i, j \in Span(q) : i <= j => Entry(q, i).Term <= Entry(q, j).Term
  BY Zenon, SortedPiece DEF WellFormed
<1>3. q.base \in Span(p) /\ q.base \in Span(q)
      /\ Entry(p, q.base).Term = Entry(q, q.base).Term
  BY <1>1, PieceFacts DEF Glued
<1>4. ASSUME NEW i \in Span(n), i <= q.base
      PROVE  i \in Span(p) /\ Entry(n, i) = Entry(p, i)
  BY <1>1, <1>4, PieceFacts DEF Glued
<1>5. ASSUME NEW i \in Span(n), ~(i <= q.base)
      PROVE  i \in Span(q) /\ q.base <= i /\ Entry(n, i) = Entry(q, i)
  <2>1. i \in Nat /\ i <= End(q) /\ q.base <= i
    BY <1>1, <1>5, PieceFacts
  <2>2. i \in Span(q)
    BY Zenon, <2>1, PieceFacts
  <2> QED
    BY Zenon, <1>5, <2>1, <2>2 DEF Glued
<1>6. \A i \in Span(n) : i \in Nat
  BY Zenon, PieceFacts
<1>7. /\ \A i \in Span(p) : Entry(p, i).Term \in Nat
      /\ \A i \in Span(q) : Entry(q, i).Term \in Nat
  BY Zenon, PieceFacts
<1>8. ASSUME NEW i \in Span(n), NEW j \in Span(n), i <= j
      PROVE  Entry(n, i).Term <= Entry(n, j).Term
  <2>1. CASE j <= q.base
    <3>1. i <= q.base
      BY <1>1, <1>6, <1>8, <2>1
    <3> QED
      BY Zenon, <1>2, <1>4, <1>8, <2>1, <3>1
  <2>2. CASE ~(i <= q.base)
    <3>1. ~(j <= q.base)
      BY <1>1, <1>6, <1>8, <2>2
    <3> QED
      BY Zenon, <1>2, <1>5, <1>8, <2>2, <3>1
  <2>3. CASE i <= q.base /\ ~(j <= q.base)
    <3>1. i \in Span(p) /\ Entry(n, i) = Entry(p, i)
      BY Zenon, <1>4, <2>3
    <3>2. j \in Span(q) /\ q.base <= j /\ Entry(n, j) = Entry(q, j)
      BY Zenon, <1>5, <2>3
    <3>3. Entry(p, i).Term <= Entry(p, q.base).Term
      BY Zenon, <1>2, <1>3, <2>3, <3>1
    <3>4. Entry(q, q.base).Term <= Entry(q, j).Term
      BY Zenon, <1>2, <1>3, <3>2
    <3> QED
      BY <1>3, <1>7, <3>1, <3>2, <3>3, <3>4
  <2> QED
    BY Zenon, <2>1, <2>2, <2>3
<1>9. ASSUME NEW i \in Span(n)
      PROVE  Entry(n, i).Term <= n.term /\ (Entry(n, i).Term = 0 <=> i = 0)
  <2>1. CASE i <= q.base
    BY <1>1, <1>4, <1>7, <2>1 DEF WellFormed
  <2>2. CASE ~(i <= q.base)
    BY <1>1, <1>5, <1>7, <2>2 DEF WellFormed
  <2> QED
    BY Zenon, <2>1, <2>2
<1>10. Sorted(n.log)
  BY Zenon, <1>8, SortedPiece
<1> QED
  BY Zenon, <1>9, <1>10 DEF WellFormed

\* Above its base, the glued piece has the entries of one or the other.
LEMMA GluedIndex ==
  ASSUME NEW n \in PieceSet, NEW p \in PieceSet, NEW q \in PieceSet,
         Glued(n, p, q), NEW i \in n.base + 1 .. End(n)
  PROVE  \/ i \in p.base + 1 .. End(p) /\ Entry(n, i) = Entry(p, i)
         \/ i \in q.base + 1 .. End(q) /\ Entry(n, i) = Entry(q, i)
<1>1. /\ n.base = p.base /\ End(n) = End(q) /\ q.base <= End(p)
      /\ p.base \in Nat /\ q.base \in Nat /\ End(p) \in Nat /\ End(q) \in Nat
  BY Zenon, PieceFacts DEF Glued
<1>2. i \in Nat /\ p.base + 1 <= i /\ i <= End(q) /\ i \in Span(n)
  BY <1>1, PieceFacts
<1>3. CASE i <= q.base
  BY <1>1, <1>2, <1>3 DEF Glued
<1>4. CASE ~(i <= q.base)
  BY <1>1, <1>2, <1>4 DEF Glued
<1> QED
  BY Zenon, <1>3, <1>4

\* Two pieces, q starting inside p, that have the same terms have the same
\* entries where they overlap.
LEMMA SameEntries ==
  ASSUME NEW p \in PieceSet, NEW q \in PieceSet, Agree(p, q),
         NEW last \in Span(p) \cap Span(q), Entry(p, last).Term = Entry(q, last).Term,
         NEW i \in Span(p) \cap Span(q), i <= last, p.base < i, q.base < i
  PROVE  Entry(p, i) = Entry(q, i)
BY Zenon DEF Agree

\* A part of a part is a part.
LEMMA PartTrans ==
  ASSUME NEW a \in PieceSet, NEW b \in PieceSet, NEW c \in PieceSet, Part(a, b), Part(b, c)
  PROVE  Part(a, c)
<1>1. c.term <= a.term
  BY PieceFacts DEF Part
<1>2. ASSUME NEW i \in Span(a)
      PROVE  /\ i \in Span(c)
             /\ Entry(a, i).Term = Entry(c, i).Term
             /\ a.base < i => c.base < i /\ Entry(a, i) = Entry(c, i)
  BY Zenon DEF Part
<1> QED
  BY Zenon, <1>1, <1>2 DEF Part

\* Created entries glued together are created.
LEMMA GluedCreated ==
  ASSUME NEW n \in PieceSet, NEW p \in PieceSet, NEW q \in PieceSet,
         Glued(n, p, q), Created(p)', Created(q)'
  PROVE  Created(n)'
<1>1. ASSUME NEW i \in n.base + 1 .. End(n)
      PROVE  \/ i \in p.base + 1 .. End(p) /\ Entry(n, i) = Entry(p, i)
             \/ i \in q.base + 1 .. End(q) /\ Entry(n, i) = Entry(q, i)
  BY GluedIndex
<1> QED
  BY Zenon, <1>1 DEF Created

-----------------------------------------------------------------------------
(***************************************************************************)
(* Where the pieces are.                                                   *)
(***************************************************************************)

\* The parts of the piece on a disk.
LEMMA DiskPieceFields ==
  ASSUME TypeOK, NEW s \in Server
  PROVE  /\ DiskPiece(s) \in PieceSet
         /\ DiskPiece(s).base = persister[s].lastIncludedIndex
         /\ DiskPiece(s).log = persister[s].Logs
         /\ DiskPiece(s).term = persister[s].CurrentTerm
<1>1. persister[s] \in SavedState
  BY Zenon DEF TypeOK
<1>2. /\ persister[s].lastIncludedIndex \in Nat /\ persister[s].Logs \in Log
      /\ persister[s].CurrentTerm \in Nat
  BY Zenon, <1>1 DEF SavedState
<1> QED
  BY <1>2, PieceFields DEF DiskPiece

\* All of them are pieces.
LEMMA PiecesType == TypeOK => Pieces \subseteq PieceSet
<1> SUFFICES ASSUME TypeOK, NEW p \in Pieces PROVE p \in PieceSet
  BY Zenon
<1>1. \A m \in DOMAIN messages : m \in Message
  BY Zenon DEF TypeOK
<1> QED
  BY Zenon, <1>1, PeerPieceFields, DiskPieceFields, EntriesPieceFields, SnapshotPieceFields
     DEF Pieces, Sent

\* The same after a step.
LEMMA PiecesTypeNext == TypeOK' => Pieces' \subseteq PieceSet
<1>1. TypeOK' => (Pieces \subseteq PieceSet)'
  BY PiecesType, PTL
<1> QED
  BY Zenon, <1>1

\* Parts of created pieces are created, after a step as before it.
LEMMA PartCreatedNext ==
  ASSUME NEW p \in PieceSet, NEW a \in PieceSet, Part(a, p), Created(p)'
  PROVE  Created(a)'
<1>1. ASSUME NEW i \in a.base + 1 .. End(a)
      PROVE  i \in p.base + 1 .. End(p) /\ Entry(a, i).Term = Entry(p, i).Term
  BY Zenon, PartIndex
<1> QED
  BY Zenon, <1>1 DEF Created

\* What a step leaves are parts of pieces that agree: the invariant again.
LEMMA PiecesStep ==
  ASSUME TypeOK', NEW P, P \subseteq PieceSet,
         \A p, q \in P : Agree(p, q),
         \A p \in P : WellFormed(p),
         \A p \in P : Created(p)',
         \A a \in Pieces' : \E p \in P : Part(a, p)
  PROVE  PiecesInv'
<1>1. Pieces' \subseteq PieceSet
  BY Zenon, PiecesTypeNext
<1>2. ASSUME NEW a \in Pieces', NEW b \in Pieces' PROVE Agree(a, b)
  <2>1. PICK p \in P : Part(a, p)
    BY Zenon
  <2>2. PICK q \in P : Part(b, q)
    BY Zenon
  <2> QED
    BY Zenon, <2>1, <2>2, PartsAgree
<1>3. ASSUME NEW a \in Pieces' PROVE WellFormed(a) /\ Created(a)'
  <2>1. PICK p \in P : Part(a, p)
    BY Zenon
  <2>2. a \in PieceSet /\ p \in PieceSet
    BY Zenon, <1>1
  <2>3. WellFormed(a)
    BY Zenon, <2>1, <2>2, PartWellFormed
  <2>4. Created(a)'
    BY Zenon, <2>1, <2>2, PartCreatedNext
  <2> QED
    BY Zenon, <2>3, <2>4
<1> QED
  BY Zenon, <1>2, <1>3 DEF PiecesInv

-----------------------------------------------------------------------------
(***************************************************************************)
(* What a step can do to the log of one peer.                              *)
(***************************************************************************)

\* The new log of v, by its fields.
LEMMA PeerPieceNext ==
  TypeOK' => \A s \in Server :
               /\ PeerPiece(s)' \in PieceSet
               /\ PeerPiece(s)'.base = lastIncludedIndex'[s]
               /\ PeerPiece(s)'.log = Logs'[s]
               /\ PeerPiece(s)'.term = CurrentTerm'[s]
               /\ End(PeerPiece(s)') = LastLogIndex(s)'
<1>1. TypeOK => \A s \in Server :
                  /\ PeerPiece(s) \in PieceSet
                  /\ PeerPiece(s).base = lastIncludedIndex[s]
                  /\ PeerPiece(s).log = Logs[s]
                  /\ PeerPiece(s).term = CurrentTerm[s]
                  /\ End(PeerPiece(s)) = LastLogIndex(s)
  BY Zenon, PeerPieceFields
<1>2. TypeOK' => (\A s \in Server :
                    /\ PeerPiece(s) \in PieceSet
                    /\ PeerPiece(s).base = lastIncludedIndex[s]
                    /\ PeerPiece(s).log = Logs[s]
                    /\ PeerPiece(s).term = CurrentTerm[s]
                    /\ End(PeerPiece(s)) = LastLogIndex(s))'
  BY <1>1, PTL
<1> QED
  BY Zenon, <1>2

\* A log that stays as it is, in the same term or a later one.
LEMMA SameLog ==
  ASSUME TypeOK, TypeOK', NEW v \in Server,
         Logs'[v] = Logs[v], lastIncludedIndex'[v] = lastIncludedIndex[v],
         CurrentTerm[v] <= CurrentTerm'[v]
  PROVE  Inherited(v)
<1>1. /\ PeerPiece(v) \in Pieces /\ PeerPiece(v) \in PieceSet
      /\ PeerPiece(v).base = lastIncludedIndex[v] /\ PeerPiece(v).log = Logs[v]
      /\ PeerPiece(v).term = CurrentTerm[v] 
  BY Zenon, PeerPieceFields DEF Pieces
<1>2. /\ PeerPiece(v)'.base = lastIncludedIndex'[v] /\ PeerPiece(v)'.log = Logs'[v]
      /\ PeerPiece(v)'.term = CurrentTerm'[v]
  BY Zenon, PeerPieceNext
<1>3. \A i : /\ i \in Span(PeerPiece(v)') <=> i \in Span(PeerPiece(v))
             /\ Entry(PeerPiece(v)', i) = Entry(PeerPiece(v), i)
  BY Zenon, <1>1, <1>2 DEF Span, End, Entry
<1>4. Part(PeerPiece(v)', PeerPiece(v))
  BY Zenon, <1>1, <1>2, <1>3 DEF Part
<1> QED
  BY Zenon, <1>1, <1>4 DEF Inherited

\* A restarted peer has the log from its disk.
LEMMA CrashLog ==
  ASSUME TypeOK, TypeOK', NEW s \in Server, Crash(s), NEW v \in Server
  PROVE  Inherited(v)
<1>1. /\ CurrentTerm' = [CurrentTerm EXCEPT ![s] = persister[s].CurrentTerm]
      /\ Logs' = [Logs EXCEPT ![s] = persister[s].Logs]
      /\ lastIncludedIndex' = [lastIncludedIndex EXCEPT ![s] = persister[s].lastIncludedIndex]
  BY Zenon DEF Crash
<1>2. CASE v = s
  <2>1. PeerPiece(v)' = DiskPiece(v)
    BY Zenon, <1>1, <1>2 DEF PeerPiece, DiskPiece, TypeOK
  <2>2. DiskPiece(v) \in Pieces /\ DiskPiece(v) \in PieceSet
    BY Zenon, DiskPieceFields DEF Pieces
  <2> QED
    BY Zenon, <2>1, <2>2, PartRefl DEF Inherited
<1>3. CASE v # s
  <2>1. /\ CurrentTerm'[v] = CurrentTerm[v] /\ Logs'[v] = Logs[v]
        /\ lastIncludedIndex'[v] = lastIncludedIndex[v]
    BY <1>1, <1>3 DEF TypeOK
  <2>2. CurrentTerm[v] <= CurrentTerm'[v]
    BY <2>1 DEF TypeOK
  <2> QED
    BY Zenon, <2>1, <2>2, SameLog
<1> QED
  BY Zenon, <1>2, <1>3

\* Cutting the log up to an index it has leaves a part of it.
LEMMA TrimPart ==
  ASSUME TypeOK, TypeOK', NEW s \in Server, NEW index \in Nat,
         index > lastIncludedIndex[s], index <= LastLogIndex(s),
         Logs'[s] = Trim(s, Logs[s], index), lastIncludedIndex'[s] = index,
         CurrentTerm[s] <= CurrentTerm'[s]
  PROVE  Inherited(s)
<1> DEFINE log == Logs[s]
           base == lastIncludedIndex[s]
           first == index - base + 1
           p == PeerPiece(s)
           q == PeerPiece(s)'
<1>1. log \in Log /\ base \in Nat
  BY Zenon, PeerFacts
<1>2. /\ log \in Seq(LogEntry) /\ Len(log) \in Nat \ {0}
  BY Zenon, <1>1, LogFacts
<1>3. LastLogIndex(s) = base + Len(log) - 1
  BY <1>1, <1>2 DEF LastLogIndex, RaftIndex
<1>4. first \in 1 .. Len(log) /\ first \in Nat /\ first = index - base + 1 /\ base < index
  BY <1>1, <1>2, <1>3
<1>5. Min(RealIndex(s, index), Len(log) - 1) + 1 = first
  BY <1>1, <1>2, <1>3 DEF Min, RealIndex
<1>6. Logs'[s] = SubSeq(log, first, Len(log))
  BY Zenon, <1>5 DEF Trim
<1>7. /\ p \in Pieces /\ p \in PieceSet /\ p.base = base /\ p.log = log
      /\ p.term = CurrentTerm[s] /\ End(p) = LastLogIndex(s)
  BY Zenon, PeerPieceFields DEF Pieces
<1>8. /\ q \in PieceSet /\ q.base = index /\ q.log = Logs'[s] /\ q.term = CurrentTerm'[s]
  BY Zenon, PeerPieceNext
<1> HIDE DEF first, p, q, log, base
<1>9. /\ Len(Logs'[s]) = Len(log) - first + 1
      /\ \A k \in 1 .. Len(log) - first + 1 : Logs'[s][k] = log[first + k - 1]
  BY <1>2, <1>4, <1>6
<1>10. End(q) = index + (Len(log) - first + 1) - 1
  BY Zenon, <1>8, <1>9 DEF End
<1>11. End(q) = LastLogIndex(s)
  <2>1. index + (Len(log) - first + 1) - 1 = base + Len(log) - 1
    BY <1>1, <1>2, <1>4
  <2> QED
    BY Zenon, <1>3, <1>10, <2>1
<1>12. ASSUME NEW i \in Span(q) PROVE i \in Span(p) /\ base < i /\ Entry(q, i) = Entry(p, i)
  <2>1. i \in Nat /\ index <= i /\ i <= LastLogIndex(s)
    BY Zenon, <1>8, <1>11, PieceFacts
  <2>2. i \in Span(p) /\ base < i
    BY <1>1, <1>4, <1>7, <2>1, PieceFacts
  <2>3. /\ i - index + 1 \in 1 .. Len(log) - first + 1
        /\ first + (i - index + 1) - 1 = i - base + 1
    <3>1. i <= base + Len(log) - 1
      BY Zenon, <1>3, <2>1
    <3>2. first + (i - index + 1) - 1 = i - base + 1
      BY <1>1, <1>4, <2>1
    <3>3. i - index + 1 >= 1 /\ i - index + 1 <= Len(log) - first + 1
      BY <1>1, <1>2, <1>4, <2>1, <3>1
    <3>4. i - index + 1 \in Int /\ Len(log) - first + 1 \in Int
      BY <1>2, <1>4, <2>1
    <3> QED
      BY <3>2, <3>3, <3>4
  <2>4. Logs'[s][i - index + 1] = log[i - base + 1]
    BY Zenon, <1>9, <2>3
  <2> QED
    BY Zenon, <1>7, <1>8, <2>2, <2>4 DEF Entry
<1>13. Part(q, p)
  BY Zenon, <1>7, <1>8, <1>12 DEF Part
<1> QED
  BY Zenon, <1>7, <1>13 DEF Inherited, q

\* The service takes a snapshot of an index that is no longer in the log: only
\* the term of the last entry remains, under that index.
LEMMA SnapshotAhead ==
  ASSUME TypeOK, TypeOK', PiecesInv, SnapshotsInv, NEW s \in Server,
         NEW index \in 1 .. Len(applied[s]), Snapshot(s, index), index > LastLogIndex(s)
  PROVE  Fresh(s)
<1> DEFINE log == Logs[s]
           p   == PeerPiece(s)
           q   == PeerPiece(s)'
<1>1. log \in Log /\ lastIncludedIndex[s] \in Nat /\ applied[s] \in Seq(Commands)
  BY Zenon, PeerFacts
<1>2. log \in Seq(LogEntry) /\ Len(log) \in Nat \ {0} /\ Len(applied[s]) \in Nat
  BY <1>1, LogFacts
<1>3. LastLogIndex(s) = lastIncludedIndex[s] + Len(log) - 1 /\ LastLogIndex(s) \in Nat
  BY <1>1, <1>2 DEF LastLogIndex, RaftIndex
<1>4. /\ Logs'[s] = Trim(s, log, index) /\ lastIncludedIndex'[s] = index
      /\ CurrentTerm'[s] = CurrentTerm[s]
  BY DEF Snapshot, TypeOK, electionVars
<1>5. Min(RealIndex(s, index), Len(log) - 1) + 1 = Len(log)
  <2>1. ~(index - lastIncludedIndex[s] <= Len(log) - 1)
    BY <1>1, <1>2, <1>3
  <2> QED
    BY <1>2, <2>1 DEF Min, RealIndex
<1>6. Logs'[s] = SubSeq(log, Len(log), Len(log))
  BY Zenon, <1>4, <1>5 DEF Trim
<1>7. Len(Logs'[s]) = 1 /\ Logs'[s][1] = log[Len(log)]
  BY <1>2, <1>6
<1>8. /\ p \in Pieces /\ p \in PieceSet /\ p.base = lastIncludedIndex[s] /\ p.log = log
      /\ p.term = CurrentTerm[s] /\ End(p) = LastLogIndex(s)
  BY Zenon, PeerPieceFields DEF Pieces
<1>9. /\ q \in PieceSet /\ q.base = index /\ q.log = Logs'[s] /\ q.term = CurrentTerm[s]
  BY Zenon, <1>4, PeerPieceNext
<1> HIDE DEF p, q
<1>10. End(q) = index
  <2>1. End(q) = index + 1 - 1
    BY Zenon, <1>7, <1>9 DEF End
  <2> QED
    BY <1>2, <2>1
<1>11. \A i : i \in Span(q) <=> i = index
  BY <1>2, <1>9, <1>10, PieceFacts
<1>12. Entry(q, index) = Entry(p, End(p))
  <2>1. index - index + 1 = 1 /\ LastLogIndex(s) - lastIncludedIndex[s] + 1 = Len(log)
    BY <1>1, <1>2, <1>3
  <2> QED
    BY Zenon, <1>7, <1>8, <1>9, <2>1 DEF Entry
<1>13. Entry(p, End(p)).Term \in Nat /\ End(p) \in Span(p)
  BY <1>8, PieceFacts
<1>14. Entry(p, End(p)).Term <= p.term /\ Entry(p, End(p)).Term # 0
  <2>1. WellFormed(p)
    BY Zenon, <1>8 DEF PiecesInv
  <2>2. LastLogIndex(s) > 0
    <3>1. applied[s] # <<>>
      BY <1>2
    <3> QED
      BY Zenon, <3>1 DEF SnapshotsInv
  <2>3. End(p) # 0
    BY <1>3, <1>8, <2>2
  <2> QED
    BY Zenon, <1>13, <2>1, <2>3 DEF WellFormed
<1>15. WellFormed(q)
  <2>1. \A i, j \in Span(q) : i <= j => Entry(q, i).Term <= Entry(q, j).Term
    BY <1>11, <1>12, <1>13
  <2>2. Sorted(q.log)
    BY Zenon, <1>9, <2>1, SortedPiece
  <2>3. Entry(q, index).Term <= q.term /\ Entry(q, index).Term # 0 /\ index # 0
    BY <1>2, <1>8, <1>9, <1>12, <1>14
  <2> QED
    BY Zenon, <1>11, <2>2, <2>3 DEF WellFormed
<1>16. ASSUME NEW r \in Pieces PROVE Agree(q, r)
  BY <1>2, <1>9, <1>11 DEF Agree
<1>17. Created(PeerPiece(s))'
  <2>1. ASSUME NEW i \in index + 1 .. index PROVE FALSE
    BY <1>2
  <2> QED
    BY Zenon, <1>9, <1>10, <2>1 DEF Created, q
<1> QED
  BY Zenon, <1>15, <1>16, <1>17 DEF Fresh, q

\* What Snapshot() leaves.
LEMMA SnapshotStep ==
  ASSUME TypeOK, TypeOK', PiecesInv, SnapshotsInv, NEW s \in Server,
         NEW index \in 1 .. Len(applied[s]), Snapshot(s, index), NEW v \in Server
  PROVE  Inherited(v) \/ (v = s /\ Fresh(v))
<1>1. applied[s] \in Seq(Commands) /\ LastLogIndex(s) \in Nat
  BY Zenon, PeerFacts, LastLogType
<1>2. index \in Nat
  BY <1>1
<1>3. /\ index > lastIncludedIndex[s]
      /\ Logs' = [Logs EXCEPT ![s] = Trim(s, Logs[s], index)]
      /\ lastIncludedIndex' = [lastIncludedIndex EXCEPT ![s] = index]
      /\ CurrentTerm' = CurrentTerm
  BY Zenon DEF Snapshot, electionVars
<1>4. CurrentTerm[v] <= CurrentTerm'[v]
  BY <1>3 DEF TypeOK
<1>5. CASE v # s
  <2>1. Logs'[v] = Logs[v] /\ lastIncludedIndex'[v] = lastIncludedIndex[v]
    BY Zenon, <1>3, <1>5 DEF TypeOK
  <2> QED
    BY Zenon, <1>4, <2>1, SameLog
<1>6. CASE v = s /\ index <= LastLogIndex(s)
  <2>1. Logs'[s] = Trim(s, Logs[s], index) /\ lastIncludedIndex'[s] = index
    BY Zenon, <1>3 DEF TypeOK
  <2> QED
    BY Zenon, <1>2, <1>3, <1>4, <1>6, <2>1, TrimPart
<1>7. CASE v = s /\ index > LastLogIndex(s)
  BY Zenon, <1>7, SnapshotAhead
<1> QED
  BY <1>1, <1>2, <1>5, <1>6, <1>7

\* The entries of an ApplyEntries and those of the log, by position.
LEMMA CarriedEntry ==
  ASSUME TypeOK, NEW s \in Server, NEW m \in Message, m.type = "ApplyEntries",
         Position(s, m) >= 1,
         NEW k \in 1 .. Len(m.Entries), Position(s, m) + k <= Len(Logs[s])
  PROVE  LET p == PeerPiece(s)
             q == EntriesPiece(m)
             i == m.PrevLogIndex + k
         IN  /\ Entry(p, i) = Logs[s][Position(s, m) + k] /\ Entry(q, i) = m.Entries[k]
             /\ i \in Span(p) \cap Span(q)
             /\ p.base < i /\ q.base < i
<1> DEFINE p == PeerPiece(s)
           q == EntriesPiece(m)
<1>1. PICK base \in Nat, prev \in Nat, log \in Log, new \in Seq(LogEntry), n \in Int :
        /\ base = lastIncludedIndex[s] /\ prev = m.PrevLogIndex
        /\ log = Logs[s] /\ new = m.Entries /\ n = Position(s, m)
        /\ n = prev - base + 1
  <2>1. /\ lastIncludedIndex[s] \in Nat /\ m.PrevLogIndex \in Nat
        /\ Logs[s] \in Log /\ m.Entries \in Seq(LogEntry)
    BY Zenon, PeerFacts, ApplyEntriesFields
  <2>2. Position(s, m) \in Int
    BY <2>1 DEF Position
  <2> QED
    BY Zenon, <2>1, <2>2 DEF Position
<1>2. Len(log) \in Nat \ {0} /\ Len(new) \in Nat /\ k \in 1 .. Len(new)
  BY <1>1, LogFacts
<1>3. p \in PieceSet /\ p.base = base /\ p.log = log /\ End(p) = base + Len(log) - 1
  BY Zenon, <1>1, <1>2, PeerPieceFields DEF End
<1>4. q \in PieceSet /\ q.base = prev /\ q.log = Carried(m) /\ End(q) = prev + Len(new)
  BY Zenon, <1>1, EntriesPieceFields
<1>5. n = prev - base + 1 /\ n >= 1 /\ n + k <= Len(log)
  BY Zenon, <1>1
<1> HIDE DEF p, q
<1>6. k \in Nat /\ k >= 1 /\ k <= Len(new)
  BY <1>2
<1>7. prev + k - base + 1 = n + k /\ prev + k - prev + 1 = k + 1
  BY <1>5, <1>6
<1>8. Entry(p, prev + k) = log[n + k]
  BY <1>3, <1>7 DEF Entry
<1>9. Entry(q, prev + k) = new[k]
  <2>1. Carried(m)[k + 1] = new[k]
    BY Zenon, <1>1, <1>2, CarriedFacts
  <2> QED
    BY <1>4, <1>7, <2>1 DEF Entry
<1>10. /\ base < prev + k /\ prev < prev + k /\ prev + k \in Nat
       /\ prev + k <= base + Len(log) - 1 /\ prev + k <= prev + Len(new)
  BY <1>2, <1>5, <1>6
<1>11. prev + k \in Span(p)
  <2>1. \A i : i \in Span(p) <=> i \in Nat /\ base <= i /\ i <= base + Len(log) - 1
    BY Zenon, <1>3, PieceFacts
  <2>2. base <= prev + k
    BY <1>10
  <2> QED
    BY Zenon, <1>10, <2>1, <2>2
<1>12. prev + k \in Span(q)
  <2>1. \A i : i \in Span(q) <=> i \in Nat /\ prev <= i /\ i <= prev + Len(new)
    BY Zenon, <1>4, PieceFacts
  <2>2. prev <= prev + k
    BY <1>10
  <2> QED
    BY Zenon, <1>10, <2>1, <2>2
<1> QED
  BY Zenon, <1>1, <1>3, <1>4, <1>8, <1>9, <1>10, <1>11, <1>12 DEF p, q

\* What the entries of an accepted ApplyEntries make of the log.
LEMMA MergeCases ==
  ASSUME TypeOK, NEW s \in Server, NEW m \in Message, m.type = "ApplyEntries",
         ReplicateCheck(s, m), Agree(PeerPiece(s), EntriesPiece(m))
  PROVE  /\ Position(s, m) \in 1 .. Len(Logs[s])
         /\ Logs[s][Position(s, m)].Term = m.PrevLogTerm
         /\ \/ Merge(s, m) = Logs[s]
            \/ Merge(s, m) = SubSeq(Logs[s], 1, Position(s, m)) \o m.Entries
<1>1. PICK base \in Nat, prev \in Nat, log \in Log, new \in Seq(LogEntry), n \in Int :
        /\ base = lastIncludedIndex[s] /\ prev = m.PrevLogIndex
        /\ log = Logs[s] /\ new = m.Entries /\ n = Position(s, m)
        /\ n = prev - base + 1
  <2>1. /\ lastIncludedIndex[s] \in Nat /\ m.PrevLogIndex \in Nat
        /\ Logs[s] \in Log /\ m.Entries \in Seq(LogEntry)
    BY Zenon, PeerFacts, ApplyEntriesFields
  <2>2. Position(s, m) \in Int
    BY <2>1 DEF Position
  <2> QED
    BY Zenon, <2>1, <2>2 DEF Position
<1>2. log \in Seq(LogEntry) /\ Len(log) \in Nat \ {0} /\ Len(new) \in Nat
  BY <1>1, LogFacts
<1>3. prev - base \in 0 .. Len(log) - 1 /\ log[prev - base + 1].Term = m.PrevLogTerm
  BY Zenon, <1>1 DEF ReplicateCheck, RealIndex, At
<1>4. n = prev - base + 1
  BY Zenon, <1>1
<1>5. n \in 1 .. Len(log) /\ n \in Nat /\ n >= 1
  BY <1>2, <1>3, <1>4
<1> DEFINE first == RealIndex(s, prev + 1) + 1
           after == first + Len(new)
           conflict == \E i \in 1 .. Len(new) :
                         /\ first + i - 1 <= Len(log)
                         /\ log[first + i - 1].Term # new[i].Term
<1>6. Merge(s, m) = SubSeq(log, 1, first - 1) \o new \o
                      (IF conflict THEN <<>> ELSE SubSeq(log, after, Len(log)))
  BY Zenon, <1>1 DEF Merge
<1>7. first = n + 1
  <2>1. first = ((prev + 1) - base) + 1
    BY Zenon, <1>1 DEF RealIndex
  <2>2. ((prev + 1) - base) + 1 = (prev - base + 1) + 1
    OBVIOUS
  <2> HIDE DEF first
  <2> QED
    BY Zenon, <1>4, <2>1, <2>2
<1>8. after = first + Len(new) /\ conflict \in BOOLEAN
  BY Zenon
<1>9. ASSUME ~conflict, NEW k \in 1 .. Len(new), first + k - 1 <= Len(log)
      PROVE  log[first + k - 1].Term = new[k].Term
  BY Zenon, <1>9
<1> HIDE DEF first, after, conflict
<1>10. first - 1 = n /\ after = n + 1 + Len(new)
  BY <1>2, <1>5, <1>7, <1>8
<1>11. ASSUME ~conflict, n + Len(new) < Len(log), NEW k \in 1 .. Len(new)
       PROVE  new[k] = log[n + k]
  <2>0. k \in Nat /\ 1 <= k /\ k <= Len(new) /\ Len(new) \in 1 .. Len(new)
    BY <1>2
  <2>1. ASSUME NEW x \in 1 .. Len(new)
        PROVE  n + x <= Len(log) /\ log[n + x].Term = new[x].Term
    <3>1. first + x - 1 = n + x /\ n + x <= Len(log)
      BY <1>2, <1>5, <1>7, <1>11
    <3> QED
      BY Zenon, <1>9, <1>11, <3>1
  <2> DEFINE p == PeerPiece(s)
             q == EntriesPiece(m)
  <2>2. ASSUME NEW x \in 1 .. Len(new)
        PROVE  /\ Entry(p, prev + x) = log[n + x] /\ Entry(q, prev + x) = new[x]
               /\ prev + x \in Span(p) \cap Span(q)
               /\ p.base < prev + x /\ q.base < prev + x
    <3>1. Position(s, m) >= 1 /\ x \in 1 .. Len(m.Entries) /\ Position(s, m) + x <= Len(Logs[s])
      BY Zenon, <1>1, <1>5, <2>1, <2>2
    <3>2. /\ Entry(p, m.PrevLogIndex + x) = Logs[s][Position(s, m) + x]
          /\ Entry(q, m.PrevLogIndex + x) = m.Entries[x]
          /\ m.PrevLogIndex + x \in Span(p) \cap Span(q)
          /\ p.base < m.PrevLogIndex + x /\ q.base < m.PrevLogIndex + x
      BY Zenon, <3>1, CarriedEntry
    <3> HIDE DEF p, q
    <3> QED
      BY Zenon, <1>1, <3>2
  <2>3. p \in PieceSet /\ q \in PieceSet /\ Agree(p, q)
    BY Zenon, PeerPieceFields, EntriesPieceFields
  <2> HIDE DEF p, q
  <2>4. prev + k <= prev + Len(new)
    BY <1>2, <2>0
  <2>5. Entry(p, prev + Len(new)).Term = Entry(q, prev + Len(new)).Term
    BY Zenon, <2>0, <2>1, <2>2
  <2>6. Entry(p, prev + k) = Entry(q, prev + k)
    BY Zenon, <2>0, <2>2, <2>3, <2>4, <2>5, SameEntries
  <2> QED
    BY Zenon, <2>2, <2>6
<1>12. LET w == SubSeq(log, 1, n) \o new \o
                  (IF conflict THEN <<>> ELSE SubSeq(log, n + 1 + Len(new), Len(log)))
       IN  w = log \/ w = SubSeq(log, 1, n) \o new
  BY Zenon, <1>2, <1>5, <1>8, <1>11, CopyIn
<1>13. Merge(s, m) = log \/ Merge(s, m) = SubSeq(log, 1, n) \o new
  BY Zenon, <1>6, <1>10, <1>12
<1> QED
  BY Zenon, <1>1, <1>3, <1>4, <1>5, <1>13

\* Cut after the entry before the new ones, the log and the request are glued.
LEMMA MergeGlues ==
  ASSUME TypeOK, TypeOK', NEW s \in Server, NEW m \in Message, m.type = "ApplyEntries",
         Position(s, m) \in 1 .. Len(Logs[s]),
         Logs[s][Position(s, m)].Term = m.PrevLogTerm,
         Logs'[s] = SubSeq(Logs[s], 1, Position(s, m)) \o m.Entries,
         lastIncludedIndex'[s] = lastIncludedIndex[s],
         CurrentTerm[s] <= CurrentTerm'[s], CurrentTerm'[s] = m.Term
  PROVE  Glued(PeerPiece(s)', PeerPiece(s), EntriesPiece(m))
<1> DEFINE p == PeerPiece(s)
           q == EntriesPiece(m)
           g == PeerPiece(s)'
<1>1. PICK base \in Nat, prev \in Nat, log \in Log, new \in Seq(LogEntry), n \in Int :
        /\ base = lastIncludedIndex[s] /\ prev = m.PrevLogIndex
        /\ log = Logs[s] /\ new = m.Entries /\ n = Position(s, m)
        /\ n = prev - base + 1
  <2>1. /\ lastIncludedIndex[s] \in Nat /\ m.PrevLogIndex \in Nat
        /\ Logs[s] \in Log /\ m.Entries \in Seq(LogEntry)
    BY Zenon, PeerFacts, ApplyEntriesFields
  <2>2. Position(s, m) \in Int
    BY <2>1 DEF Position
  <2> QED
    BY Zenon, <2>1, <2>2 DEF Position
<1>2. log \in Seq(LogEntry) /\ Len(log) \in Nat \ {0} /\ Len(new) \in Nat
  <2>1. log \in Seq(LogEntry) /\ Len(log) \in Nat \ {0}
    BY Zenon, <1>1, LogFacts
  <2> QED
    BY <2>1
<1>3. n \in 1 .. Len(log) /\ n \in Nat /\ n >= 1 /\ n = prev - base + 1 /\ n <= Len(log)
  BY <1>1, <1>2
<1>4. /\ Len(Logs'[s]) = n + Len(new)
      /\ \A k \in 1 .. n : Logs'[s][k] = log[k]
      /\ \A k \in 1 .. Len(new) : Logs'[s][n + k] = new[k]
  <2>1. /\ Len(SubSeq(log, 1, n) \o new) = n + Len(new)
        /\ \A k \in 1 .. n : (SubSeq(log, 1, n) \o new)[k] = log[k]
        /\ \A k \in 1 .. Len(new) : (SubSeq(log, 1, n) \o new)[n + k] = new[k]
    BY <1>2, <1>3, Splice
  <2>2. Logs'[s] = SubSeq(log, 1, n) \o new
    BY Zenon, <1>1
  <2> QED
    BY Zenon, <2>1, <2>2
<1>5. /\ p \in PieceSet /\ p.base = base /\ p.log = log /\ End(p) = base + Len(log) - 1
      /\ p.term = CurrentTerm[s]
  BY Zenon, <1>1, <1>2, PeerPieceFields DEF End
<1>6. /\ q \in PieceSet /\ q.base = prev /\ q.log = Carried(m) /\ End(q) = prev + Len(new)
      /\ q.term = m.Term
  BY Zenon, <1>1, EntriesPieceFields
<1>7. /\ g \in PieceSet /\ g.base = base /\ g.log = Logs'[s] /\ g.term = m.Term
      /\ End(g) = base + (n + Len(new)) - 1
  BY Zenon, <1>1, <1>4, PeerPieceNext DEF End
<1>8. CurrentTerm[s] <= m.Term /\ m.Term \in Nat /\ log[n].Term = m.PrevLogTerm
  BY Zenon, <1>1, ApplyEntriesFields
<1>9. /\ \A k \in 1 .. Len(new) : Carried(m)[k + 1] = new[k]
      /\ Carried(m)[1].Term = m.PrevLogTerm
  BY Zenon, <1>1, CarriedFacts
<1> HIDE DEF p, q, g
<1>10. End(g) = End(q)
  <2>1. base + (n + Len(new)) - 1 = prev + Len(new)
    BY <1>2, <1>3
  <2> QED
    BY Zenon, <1>6, <1>7, <2>1
<1>11. prev \in Span(p) /\ Entry(p, prev).Term = Entry(q, prev).Term
  <2>1. base <= prev /\ prev <= base + Len(log) - 1
    BY <1>2, <1>3
  <2>2. prev \in Span(p)
    BY Zenon, <1>5, <2>1, PieceFacts
  <2>3. prev - base + 1 = n /\ prev - prev + 1 = 1
    BY <1>3
  <2> QED
    BY Zenon, <1>5, <1>6, <1>8, <1>9, <2>2, <2>3 DEF Entry
<1>12. ASSUME NEW i \in Span(g), i <= prev PROVE Entry(g, i) = Entry(p, i)
  <2>1. i \in Nat /\ base <= i
    BY Zenon, <1>7, PieceFacts
  <2>2. i - base + 1 >= 1 /\ i - base + 1 <= prev - base + 1
    BY <1>12, <2>1
  <2>3. i - base + 1 \in 1 .. n
    BY <1>3, <2>1, <2>2
  <2>4. Logs'[s][i - base + 1] = log[i - base + 1]
    BY Zenon, <1>4, <2>3
  <2> QED
    BY Zenon, <1>5, <1>7, <2>4 DEF Entry
<1>13. ASSUME NEW i \in Span(g), ~(i <= prev) PROVE Entry(g, i) = Entry(q, i)
  <2>1. i \in Nat /\ i <= prev + Len(new)
    BY Zenon, <1>6, <1>7, <1>10, PieceFacts
  <2>2. i - prev \in 1 .. Len(new)
    <3>1. \A x, v, k \in Nat : x <= v + k /\ ~(x <= v) => x - v \in 1 .. k
      OBVIOUS
    <3> QED
      BY Zenon, <1>1, <1>2, <1>13, <2>1, <3>1
  <2>3. i - base + 1 = n + (i - prev) /\ i - prev + 1 = (i - prev) + 1
    BY <1>3, <2>1
  <2>4. Logs'[s][i - base + 1] = new[i - prev]
    BY Zenon, <1>4, <2>2, <2>3
  <2>5. Carried(m)[i - prev + 1] = new[i - prev]
    BY Zenon, <1>9, <2>2
  <2> QED
    BY Zenon, <1>6, <1>7, <2>4, <2>5 DEF Entry
<1>14. Glued(g, p, q)
  <2>1. g.base = p.base /\ p.term <= g.term /\ q.term <= g.term
    BY <1>5, <1>6, <1>7, <1>8
  <2>2. q.base \in Span(p) /\ Entry(p, q.base).Term = Entry(q, q.base).Term
    BY Zenon, <1>6, <1>11
  <2>3. \A i \in Span(g) : IF i <= q.base THEN Entry(g, i) = Entry(p, i)
                            ELSE Entry(g, i) = Entry(q, i)
    BY Zenon, <1>6, <1>12, <1>13
  <2> QED
    BY Zenon, <1>10, <2>1, <2>2, <2>3 DEF Glued
<1> QED
  BY Zenon, <1>14 DEF g, p, q

\* A peer that follows a leader is in the leader's term.
LEMMA FollowTerm ==
  ASSUME TypeOK, NEW s \in Server, NEW t \in Nat, FollowLeader(s, t)
  PROVE  /\ CurrentTerm'[s] = t /\ CurrentTerm[s] <= t
         /\ \A v \in Server : v # s => CurrentTerm'[v] = CurrentTerm[v]
<1>1. CurrentTerm[s] \in Nat
  BY Zenon DEF TypeOK
<1>2. CASE t > CurrentTerm[s] /\ BecomeFollower(s, t)
  BY <1>1, <1>2 DEF BecomeFollower, TypeOK
<1>3. CASE t = CurrentTerm[s] /\ UNCHANGED CurrentTerm
  BY <1>1, <1>3 DEF TypeOK
<1> QED
  BY Zenon, <1>2, <1>3 DEF FollowLeader, StepDown

\* ApplyEntries leaves the log or glues the request to it.
LEMMA ApplyEntriesStep ==
  ASSUME TypeOK, TypeOK', PiecesInv, \A p \in Pieces : Created(p)',
         NEW m \in DOMAIN messages, ApplyEntries(m),
         \A v \in Server : CurrentTerm[v] <= CurrentTerm'[v], NEW v \in Server
  PROVE  Inherited(v) \/ (v = m.dst /\ Fresh(v))
<1>1. m \in Message /\ m.type = "ApplyEntries"
  BY Zenon DEF TypeOK, ApplyEntries
<1>2. m.dst \in Server /\ m.Term \in Nat
  BY Zenon, <1>1, ApplyEntriesFields
<1>3. lastIncludedIndex' = lastIncludedIndex
  BY Zenon DEF ApplyEntries, snapVars
<1>4. CASE Logs'[v] = Logs[v]
  <2>1. lastIncludedIndex'[v] = lastIncludedIndex[v]
    BY Zenon, <1>3
  <2> QED
    BY Zenon, <1>4, <2>1, SameLog
<1>5. CASE Logs'[v] # Logs[v]
  <2>1. /\ FollowLeader(m.dst, m.Term) /\ ReplicateCheck(m.dst, m)
        /\ Logs' = [Logs EXCEPT ![m.dst] = Merge(m.dst, m)]
    BY Zenon, <1>5 DEF ApplyEntries, logVars
  <2>2. v = m.dst /\ Logs'[v] = Merge(v, m)
    BY Zenon, <1>2, <1>5, <2>1 DEF TypeOK
  <2>3. CurrentTerm'[v] = m.Term /\ CurrentTerm[v] <= CurrentTerm'[v]
    BY Zenon, <1>2, <2>1, <2>2, FollowTerm
  <2> DEFINE p == PeerPiece(v)
             q == EntriesPiece(m)
  <2>4. /\ p \in Pieces /\ q \in Pieces /\ p \in PieceSet /\ q \in PieceSet
        /\ PeerPiece(v)' \in PieceSet
    BY Zenon, <1>1, PeerPieceFields, EntriesPieceFields, PeerPieceNext DEF Pieces, Sent
  <2>5. Agree(p, q) /\ WellFormed(p) /\ WellFormed(q)
    BY Zenon, <2>4 DEF PiecesInv
  <2>6. /\ Position(v, m) \in 1 .. Len(Logs[v])
        /\ Logs[v][Position(v, m)].Term = m.PrevLogTerm
        /\ Merge(v, m) = SubSeq(Logs[v], 1, Position(v, m)) \o m.Entries
    BY Zenon, <1>1, <1>5, <2>1, <2>2, <2>5, MergeCases
  <2>7. Glued(PeerPiece(v)', p, q)
    BY Zenon, <1>1, <1>3, <2>2, <2>3, <2>6, MergeGlues
  <2>8. PICK n \in PieceSet : n = PeerPiece(v)'
    BY Zenon, <2>4
  <2> HIDE DEF p, q
  <2>9. Glued(n, p, q)
    BY Zenon, <2>7, <2>8
  <2>10. WellFormed(n)
    BY Zenon, <2>4, <2>5, <2>9, GluedWellFormed
  <2>11. Created(n)'
    BY Zenon, <2>4, <2>9, GluedCreated
  <2>12. ASSUME NEW r \in Pieces PROVE Agree(n, r)
    <3>1. r \in PieceSet /\ Agree(p, r) /\ Agree(q, r)
      BY Zenon, <2>4, PiecesType DEF PiecesInv
    <3> QED
      BY Zenon, <2>4, <2>9, <3>1, GluedAgree
  <2>13. Created(PeerPiece(v))'
    BY Zenon, <2>8, <2>11 DEF Created
  <2> QED
    BY Zenon, <2>2, <2>8, <2>10, <2>12, <2>13 DEF Fresh
<1> QED
  BY Zenon, <1>4, <1>5

\* InstallSnapshot cuts the log, or replaces it by what the request says of it.
LEMMA InstallSnapshotStep ==
  ASSUME TypeOK, TypeOK', NEW m \in DOMAIN messages, InstallSnapshot(m),
         \A v \in Server : CurrentTerm[v] <= CurrentTerm'[v], NEW v \in Server
  PROVE  Inherited(v)
<1>1. m \in Message /\ m.type = "InstallSnapshot"
  BY Zenon DEF TypeOK, InstallSnapshot
<1>2. m.dst \in Server /\ m.Term \in Nat /\ m.LastIncludedIndex \in Nat
  BY Zenon, <1>1, InstallSnapshotFields
<1>3. CASE Logs'[v] = Logs[v] /\ lastIncludedIndex'[v] = lastIncludedIndex[v]
  BY Zenon, <1>3, SameLog
<1>4. CASE ~(Logs'[v] = Logs[v] /\ lastIncludedIndex'[v] = lastIncludedIndex[v])
  <2>1. /\ FollowLeader(m.dst, m.Term)
        /\ lastIncludedIndex[m.dst] < m.LastIncludedIndex
        /\ lastIncludedIndex' = [lastIncludedIndex EXCEPT ![m.dst] = m.LastIncludedIndex]
        /\ Logs' = [Logs EXCEPT ![m.dst] =
                      IF HoldsLastIncluded(m.dst, m) THEN Trim(m.dst, @, m.LastIncludedIndex)
                      ELSE <<[Term |-> m.LastIncludedTerm, Command |-> NoCommand]>>]
    BY Zenon, <1>4 DEF InstallSnapshot, snapVars
  <2>2. v = m.dst
    BY Zenon, <1>2, <1>4, <2>1 DEF TypeOK
  <2>3. /\ lastIncludedIndex'[v] = m.LastIncludedIndex
        /\ Logs'[v] = IF HoldsLastIncluded(v, m) THEN Trim(v, Logs[v], m.LastIncludedIndex)
                      ELSE LastIncluded(m)
    BY Zenon, <1>2, <2>1, <2>2 DEF TypeOK, LastIncluded
  <2>4. CurrentTerm'[v] = m.Term
    BY Zenon, <1>2, <2>1, <2>2, FollowTerm
  <2>5. CASE HoldsLastIncluded(v, m)
    <3>1. lastIncludedIndex[v] \in Nat /\ Logs[v] \in Log
      BY Zenon, PeerFacts
    <3>2. Len(Logs[v]) \in Nat
      BY Zenon, <3>1, LogFacts
    <3>3. m.LastIncludedIndex - lastIncludedIndex[v] \in 1 .. Len(Logs[v]) - 1
      BY Zenon, <2>5 DEF HoldsLastIncluded, RealIndex
    <3>4. m.LastIncludedIndex <= LastLogIndex(v)
      BY <1>2, <3>1, <3>2, <3>3 DEF LastLogIndex, RaftIndex
    <3> QED
      BY Zenon, <1>2, <2>1, <2>2, <2>3, <2>5, <3>4, TrimPart
  <2>6. CASE ~HoldsLastIncluded(v, m)
    <3>1. PeerPiece(v)' = SnapshotPiece(m)
      BY Zenon, <2>3, <2>4, <2>6 DEF PeerPiece, SnapshotPiece
    <3>2. SnapshotPiece(m) \in Pieces /\ SnapshotPiece(m) \in PieceSet
      BY Zenon, <1>1, SnapshotPieceFields DEF Pieces, Sent
    <3> QED
      BY Zenon, <3>1, <3>2, PartRefl DEF Inherited
  <2> QED
    BY Zenon, <2>5, <2>6
<1> QED
  BY Zenon, <1>3, <1>4

\* ApplyEntries takes no log back to nothing.
LEMMA MergeReach ==
  ASSUME TypeOK, NEW s \in Server, NEW m \in Message, m.type = "ApplyEntries",
         ReplicateCheck(s, m), Agree(PeerPiece(s), EntriesPiece(m)),
         Logs'[s] = Merge(s, m), lastIncludedIndex'[s] = lastIncludedIndex[s],
         LastLogIndex(s) > 0
  PROVE  LastLogIndex(s)' > 0
<1>1. PICK base \in Nat, prev \in Nat, log \in Log, new \in Seq(LogEntry), n \in Int :
        /\ base = lastIncludedIndex[s] /\ prev = m.PrevLogIndex
        /\ log = Logs[s] /\ new = m.Entries /\ n = Position(s, m)
        /\ n = prev - base + 1
  <2>1. /\ lastIncludedIndex[s] \in Nat /\ m.PrevLogIndex \in Nat
        /\ Logs[s] \in Log /\ m.Entries \in Seq(LogEntry)
    BY Zenon, PeerFacts, ApplyEntriesFields
  <2>2. Position(s, m) \in Int
    BY <2>1 DEF Position
  <2> QED
    BY Zenon, <2>1, <2>2 DEF Position
<1>2. log \in Seq(LogEntry) /\ Len(log) \in Nat \ {0} /\ Len(new) \in Nat
  BY <1>1, LogFacts
<1>3. n = prev - base + 1
  BY Zenon, <1>1
<1>4. /\ n \in 1 .. Len(log)
      /\ Merge(s, m) = log \/ Merge(s, m) = SubSeq(log, 1, n) \o new
  BY Zenon, <1>1, MergeCases
<1>5. LastLogIndex(s) = base + Len(log) - 1
  BY <1>1, <1>2 DEF LastLogIndex, RaftIndex
<1>6. LastLogIndex(s)' = Len(Merge(s, m)) - 1 + base
  BY Zenon, <1>1 DEF LastLogIndex, RaftIndex
<1>7. CASE Len(Merge(s, m)) = Len(log)
  BY <1>1, <1>2, <1>5, <1>6, <1>7
<1>8. CASE Len(new) > 0 /\ Merge(s, m) = SubSeq(log, 1, n) \o new
  <2>1. Len(Merge(s, m)) = n + Len(new)
    BY <1>2, <1>4, <1>8, Splice
  <2> HIDE DEF Merge
  <2> QED
    <3>1. PICK y \in Nat, l \in Nat : y = Len(new) /\ y > 0 /\ l = Len(log)
      BY <1>2, <1>8
    <3>2. n \in 1 .. l
      BY Zenon, <1>4, <3>1
    <3>3. (n + y) - 1 + base > 0
      BY <3>1, <3>2
    <3> QED
      BY Zenon, <1>6, <2>1, <3>1, <3>3
<1>9. CASE Len(new) = 0
  <2>1. new = <<>>
    BY <1>9
  <2>2. Merge(s, m) = SubSeq(log, 1, n) \o <<>> \o SubSeq(log, n + 1, Len(log))
    <3>1. RealIndex(s, prev + 1) + 1 = n + 1
      <4>1. RealIndex(s, prev + 1) + 1 = ((prev + 1) - base) + 1
        BY Zenon, <1>1 DEF RealIndex
      <4>2. ((prev + 1) - base) + 1 = (prev - base + 1) + 1
        OBVIOUS
      <4> QED
        BY Zenon, <1>3, <4>1, <4>2
    <3>2. /\ (n + 1) - 1 = n /\ n + 1 + Len(new) = n + 1
          /\ ~\E i \in 1 .. Len(new) : TRUE
      BY <1>9
    <3>3. Merge(s, m) = SubSeq(log, 1, (n + 1) - 1) \o new \o
                          SubSeq(log, n + 1 + Len(new), Len(log))
      BY Zenon, <1>1, <3>1, <3>2 DEF Merge
    <3> QED
      BY Zenon, <2>1, <3>2, <3>3
  <2> DEFINE a == SubSeq(log, 1, n)
             b == SubSeq(log, n + 1, Len(log))
  <2>3. a \in Seq(LogEntry) /\ Len(a) = n /\ b \in Seq(LogEntry) /\ Len(b) = Len(log) - n
    BY <1>2, <1>4
  <2> HIDE DEF a, b
  <2>4. a \o <<>> = a
    BY Zenon, <2>3, ConcatEmpty
  <2>5. Len(a \o b) = Len(a) + Len(b)
    BY Zenon, <2>3, ConcatFacts
  <2>6. Merge(s, m) = a \o b
    BY Zenon, <2>2, <2>4 DEF a, b
  <2> HIDE DEF Merge
  <2>7. Len(Merge(s, m)) = Len(log)
    BY <1>2, <1>4, <2>3, <2>5, <2>6
  <2> QED
    BY Zenon, <1>7, <2>7
<1> QED
  BY <1>2, <1>4, <1>7, <1>8, <1>9

\* The same of the next state.
LEMMA SnapshotReachNext ==
  TypeOK' => \A s \in Server : lastIncludedIndex'[s] <= LastLogIndex(s)'
<1>1. TypeOK' => (\A s \in Server : lastIncludedIndex[s] <= LastLogIndex(s))'
  BY SnapshotReach, PTL
<1> QED
  BY Zenon, <1>1

\* The apply goroutine runs only when something is there to apply.
LEMMA ApplyLogReach ==
  ASSUME TypeOK, SnapshotsInv, NEW s \in Server, applyLog(s), applied'[s] # <<>>
  PROVE  LastLogIndex(s) > 0
<1> DEFINE from == ApplyFrom(s)
           upto == Max(from, committedIndex[s])
           new  == [k \in 1 .. upto - from |-> At(Logs[s], RealIndex(s, from + k)).Command]
<1>1. /\ lastIncludedIndex[s] \in Nat /\ committedIndex[s] \in Nat /\ lastApplied[s] \in Nat
      /\ applied[s] \in Seq(Commands) /\ snapshot[s] \in Seq(Commands)
      /\ LastLogIndex(s) \in Nat /\ lastIncludedIndex[s] <= LastLogIndex(s)
      /\ Len(snapshot[s]) = lastIncludedIndex[s]
  BY Zenon, PeerFacts, LastLogType, SnapshotReach DEF SnapshotsInv
<1>2. from \in Nat /\ upto \in Nat /\ from <= upto
  BY <1>1 DEF ApplyFrom, Max
<1>3. /\ from < upto => upto <= LastLogIndex(s)
      /\ applied'[s] = AfterSnapshot(s) \o new
  BY Zenon DEF applyLog, TypeOK
<1> HIDE DEF from, upto
<1>4. CASE from < upto
  BY <1>1, <1>2, <1>3, <1>4
<1>5. CASE ~(from < upto) /\ AfterSnapshot(s) = <<>>
  <2>1. 1 .. upto - from = {}
    BY <1>2, <1>5
  <2>2. new = <<>>
    BY <2>1
  <2>3. <<>> \o new = <<>>
    BY <2>2
  <2> QED
    BY Zenon, <1>3, <1>5, <2>3
<1>6. CASE AfterSnapshot(s) # <<>>
  <2>1. CASE applied[s] # <<>>
    BY Zenon, <2>1 DEF SnapshotsInv
  <2>2. CASE snapshot[s] # <<>>
    <3>1. Len(snapshot[s]) > 0
      BY <1>1, <2>2
    <3> QED
      BY <1>1, <3>1
  <2> QED
    BY Zenon, <1>6, <2>1, <2>2 DEF AfterSnapshot
<1> QED
  BY Zenon, <1>2, <1>4, <1>5, <1>6

\* A service that has executed something stays on a log or on a snapshot.
LEMMA AppliedReach ==
  ASSUME TypeOK, TypeOK', PiecesInv, SnapshotsInv, [Next]_vars, NEW v \in Server,
         applied'[v] # <<>>
  PROVE  LastLogIndex(v)' > 0
<1>0. /\ LastLogIndex(v) \in Nat /\ LastLogIndex(v)' \in Nat
      /\ lastIncludedIndex'[v] \in Nat /\ lastIncludedIndex'[v] <= LastLogIndex(v)'
      /\ lastIncludedIndex[v] \in Nat
  BY Zenon, LastLogNat, LastLogNatNext, SnapshotReachNext DEF TypeOK
<1>1. applied[v] # <<>> => LastLogIndex(v) > 0
  BY Zenon DEF SnapshotsInv
<1>2. CASE /\ applied'[v] = applied[v]
           /\ Logs'[v] = Logs[v] /\ lastIncludedIndex'[v] = lastIncludedIndex[v]
  BY Zenon, <1>1, <1>2 DEF LastLogIndex, RaftIndex
<1>3. CASE UNCHANGED <<applied, Logs, lastIncludedIndex>>
  BY Zenon, <1>2, <1>3
<1>4. ASSUME NEW s \in Server, ElectionTimeout(s) \/ LeaderTimerExpires(s) \/ HeartbeatTimeout(s)
      PROVE  UNCHANGED <<applied, Logs, lastIncludedIndex>>
  BY Zenon, <1>4 DEF ElectionTimeout, LeaderTimerExpires, HeartbeatTimeout, logVars, snapVars
<1>5. ASSUME NEW m \in DOMAIN messages,
             \/ RequestVote(m) \/ OnRequestVoteReply(m)
             \/ OnApplyEntriesReply(m) \/ OnInstallSnapshotReply(m)
      PROVE  UNCHANGED <<applied, Logs, lastIncludedIndex>>
  BY Zenon, <1>5
     DEF RequestVote, OnRequestVoteReply, OnApplyEntriesReply, OnInstallSnapshotReply,
     logVars, snapVars
<1>6. CASE UNCHANGED vars
  BY Zenon, <1>3, <1>6 DEF vars, logVars, snapVars
<1>7. CASE applied'[v] = applied[v] /\ LastLogIndex(v)' >= LastLogIndex(v)
  BY <1>0, <1>1, <1>7
<1>8. ASSUME NEW s \in Server, NEW c \in Submits(s), Start(s, c) PROVE LastLogIndex(v)' > 0
  <2>1. applied'[v] = applied[v]
    BY Zenon, <1>8 DEF Start
  <2>2. CASE v = s
    BY <1>0, <1>7, <1>8, <2>1, <2>2, StartLog
  <2>3. CASE v # s
    <3>1. DOMAIN Logs = Server
      BY Zenon DEF TypeOK
    <3>2. Logs'[v] = Logs[v] /\ lastIncludedIndex'[v] = lastIncludedIndex[v]
      BY Zenon, <1>8, <2>3, <3>1 DEF Start, snapVars
    <3> QED
      BY Zenon, <1>2, <2>1, <3>2
  <2> QED
    BY Zenon, <2>2, <2>3
<1>9. CASE lastIncludedIndex'[v] > 0
  BY <1>0, <1>9
<1>10. ASSUME NEW s \in Server, NEW x \in 1 .. Len(applied[s]), Snapshot(s, x)
       PROVE  LastLogIndex(v)' > 0
  <2>0. applied[s] \in Seq(Commands)
    BY Zenon, PeerFacts
  <2>1. applied'[v] = applied[v]
    BY Zenon, <1>10 DEF Snapshot
  <2>2. CASE v = s
    <3>1. DOMAIN lastIncludedIndex = Server
      BY Zenon DEF TypeOK
    <3>2. lastIncludedIndex'[v] = x
      BY Zenon, <1>10, <2>2, <3>1 DEF Snapshot
    <3>3. x > 0
      BY <2>0
    <3> QED
      BY Zenon, <1>9, <3>2, <3>3
  <2>3. CASE v # s
    BY <1>2, <1>10, <2>1, <2>3 DEF Snapshot, TypeOK
  <2> QED
    BY Zenon, <2>2, <2>3
<1>11. ASSUME NEW s \in Server, applyLog(s) PROVE LastLogIndex(v)' > 0
  <2>1. LastLogIndex(v)' = LastLogIndex(v)
    BY Zenon, <1>11 DEF applyLog, LastLogIndex, RaftIndex
  <2>2. CASE v = s
    BY Zenon, <1>11, <2>1, <2>2, ApplyLogReach
  <2>3. CASE v # s
    BY Zenon, <1>2, <1>11, <2>3 DEF applyLog, TypeOK
  <2> QED
    BY Zenon, <2>2, <2>3
<1>12. ASSUME NEW s \in Server, Crash(s) PROVE LastLogIndex(v)' > 0
  <2>1. CASE v = s
    <3>0. DOMAIN applied = Server /\ DOMAIN snapshot = Server
      BY Zenon DEF TypeOK
    <3>a. applied'[v] = snapshot'[v]
      BY Zenon, <1>12, <2>1, <3>0 DEF Crash
    <3>b. snapshot'[v] \in Seq(Commands)
      BY Zenon, <1>12, <2>1, <3>0 DEF Crash, TypeOK
    <3>1. applied'[v] = snapshot'[v] /\ snapshot'[v] \in Seq(Commands)
      BY Zenon, <3>a, <3>b
    <3>2. Len(snapshot'[v]) = lastIncludedIndex'[v]
      BY Zenon, SnapshotForward
    <3> QED
      BY <1>0, <1>9, <3>1, <3>2
  <2>2. CASE v # s
    <3>1. /\ DOMAIN applied = Server /\ DOMAIN Logs = Server
          /\ DOMAIN lastIncludedIndex = Server
      BY Zenon DEF TypeOK
    <3>2. /\ applied' = [applied EXCEPT ![s] = persister[s].snapshot]
          /\ Logs' = [Logs EXCEPT ![s] = persister[s].Logs]
          /\ lastIncludedIndex' =
               [lastIncludedIndex EXCEPT ![s] = persister[s].lastIncludedIndex]
      BY Zenon, <1>12 DEF Crash
    <3> QED
      BY Zenon, <1>2, <2>2, <3>1, <3>2
  <2> QED
    BY Zenon, <2>1, <2>2
<1>13. ASSUME NEW m \in DOMAIN messages, ApplyEntries(m) PROVE LastLogIndex(v)' > 0
  <2>1. /\ m \in Message /\ m.type = "ApplyEntries" /\ applied' = applied
        /\ lastIncludedIndex' = lastIncludedIndex
    BY Zenon, <1>13 DEF TypeOK, ApplyEntries, snapVars
  <2>2. CASE Logs'[v] = Logs[v]
    BY Zenon, <1>2, <2>1, <2>2
  <2>3. CASE Logs'[v] # Logs[v]
    <3>0. m.dst \in Server
      BY Zenon, <2>1, ApplyEntriesFields
    <3>1. /\ ReplicateCheck(m.dst, m)
          /\ Logs' = [Logs EXCEPT ![m.dst] = Merge(m.dst, m)]
      BY Zenon, <1>13, <2>3 DEF ApplyEntries, logVars
    <3>2. v = m.dst /\ Logs'[v] = Merge(v, m)
      BY Zenon, <2>3, <3>0, <3>1 DEF TypeOK
    <3>3. Agree(PeerPiece(v), EntriesPiece(m))
      BY Zenon, <1>13, <2>1 DEF PiecesInv, Pieces, Sent
    <3> QED
      BY Zenon, <1>1, <2>1, <3>1, <3>2, <3>3, MergeReach
  <2> QED
    BY Zenon, <2>2, <2>3
<1>14. ASSUME NEW m \in DOMAIN messages, InstallSnapshot(m) PROVE LastLogIndex(v)' > 0
  <2>0. m \in Message /\ m.type = "InstallSnapshot" /\ applied' = applied
    BY Zenon, <1>14 DEF InstallSnapshot, TypeOK
  <2>1. m.dst \in Server /\ m.LastIncludedIndex \in Nat
    BY Zenon, <2>0, InstallSnapshotFields
  <2>2. CASE Logs'[v] = Logs[v] /\ lastIncludedIndex'[v] = lastIncludedIndex[v]
    BY Zenon, <1>2, <2>0, <2>2
  <2>3. CASE ~(Logs'[v] = Logs[v] /\ lastIncludedIndex'[v] = lastIncludedIndex[v])
    <3>0. /\ lastIncludedIndex[m.dst] < m.LastIncludedIndex
          /\ lastIncludedIndex' = [lastIncludedIndex EXCEPT ![m.dst] = m.LastIncludedIndex]
          /\ \E l : Logs' = [Logs EXCEPT ![m.dst] = l]
      BY Zenon, <1>14, <2>3 DEF InstallSnapshot, snapVars
    <3>1. /\ lastIncludedIndex[v] < m.LastIncludedIndex
          /\ lastIncludedIndex'[v] = m.LastIncludedIndex
      BY Zenon, <2>1, <2>3, <3>0 DEF TypeOK
    <3> QED
      BY <1>0, <1>9, <2>1, <3>1
  <2> QED
    BY Zenon, <2>2, <2>3
<1> QED
  BY Zenon, <1>3, <1>4, <1>5, <1>6, <1>8, <1>10, <1>11, <1>12, <1>13, <1>14 DEF Next

-----------------------------------------------------------------------------
(***************************************************************************)
(* The pieces after a step.                                                *)
(***************************************************************************)

\* Start() on a leader: nobody else has an entry of its term at the new index.
LEMMA StartFresh ==
  ASSUME ElectionInv, ElectionInv', PiecesInv, LeadersInv, LeadersInv',
         \A p \in Pieces : Created(p)',
         NEW s \in Server, NEW c \in Submits(s), Start(s, c)
  PROVE  Fresh(s)
<1> DEFINE log == Logs[s]
           t   == CurrentTerm[s]
           new == LastLogIndex(s) + 1
           p   == PeerPiece(s)
           n   == PeerPiece(s)'
<1>0. TypeOK /\ TypeOK'
  BY Zenon DEF ElectionInv
<1>1. log \in Log /\ lastIncludedIndex[s] \in Nat /\ t \in Nat /\ LastLogIndex(s) \in Nat
  BY Zenon, <1>0, PeerFacts, LastLogType
<1>2. log \in Seq(LogEntry) /\ Len(log) \in Nat \ {0}
  BY Zenon, <1>1, LogFacts
<1>3. LastLogIndex(s) = lastIncludedIndex[s] + Len(log) - 1
  BY <1>1, <1>2 DEF LastLogIndex, RaftIndex
<1>4. /\ Logs'[s] = Append(log, [Term |-> t, Command |-> c])
      /\ lastIncludedIndex' = lastIncludedIndex /\ identity[s] = "LEADER"
      /\ UNCHANGED electionVars /\ UNCHANGED historyVars
      /\ LastLogIndex(s)' = new
  BY Zenon, <1>0, StartLog DEF Start, TypeOK, snapVars
<1>5. /\ \A k \in 1 .. Len(log) : Logs'[s][k] = log[k]
      /\ Logs'[s][Len(log) + 1].Term = t
  <2> DEFINE e == [Term |-> t, Command |-> c]
  <2>1. e.Term = t
    BY Zenon
  <2>2. Logs'[s] = Append(log, e)
    BY Zenon, <1>4
  <2> HIDE DEF e
  <2> QED
    BY <1>2, <2>1, <2>2
<1>6. /\ p \in Pieces /\ p \in PieceSet /\ p.base = lastIncludedIndex[s] /\ p.log = log
      /\ p.term = t /\ End(p) = LastLogIndex(s)
  BY Zenon, <1>0, PeerPieceFields DEF Pieces
<1>7. /\ n \in PieceSet /\ n.base = lastIncludedIndex[s] /\ n.log = Logs'[s] /\ n.term = t
      /\ End(n) = new
  BY Zenon, <1>0, <1>4, PeerPieceNext DEF electionVars
<1>8. /\ t > 0 /\ <<s, t>> \in leaders
      /\ Pieces \subseteq PieceSet
  BY Zenon, <1>0, <1>4, PiecesType DEF LeadersInv
<1>9. new \in Nat /\ new > LastLogIndex(s) /\ new = lastIncludedIndex[s] + Len(log)
  BY <1>1, <1>2, <1>3
<1>9a. identity' = identity /\ CurrentTerm' = CurrentTerm /\ leaders' = leaders
  BY Zenon, <1>4 DEF electionVars, historyVars
<1> HIDE DEF log, t, new, p, n
<1>10. /\ \A i : i \in Span(n) <=> i \in Span(p) \/ i = new
       /\ \A i \in Span(p) : Entry(n, i) = Entry(p, i)
       /\ Entry(n, new).Term = t
       /\ new \notin Span(p)
  <2>1. \A i : i \in Span(p) <=> i \in Nat /\ lastIncludedIndex[s] <= i /\ i <= LastLogIndex(s)
    BY Zenon, <1>6, PieceFacts
  <2>2. \A i : i \in Span(n) <=> i \in Nat /\ lastIncludedIndex[s] <= i /\ i <= new
    BY Zenon, <1>7, PieceFacts
  <2>3. new = LastLogIndex(s) + 1
    BY Zenon DEF new
  <2>4. \A i : i \in Span(n) <=> i \in Span(p) \/ i = new
    BY <1>1, <1>2, <1>9, <2>1, <2>2, <2>3
  <2>5. ASSUME NEW i \in Span(p) PROVE Entry(n, i) = Entry(p, i)
    <3>1. i - lastIncludedIndex[s] + 1 \in 1 .. Len(log)
      BY <1>1, <1>2, <1>3, <2>1
    <3> QED
      BY <1>5, <1>6, <1>7, <3>1 DEF Entry
  <2>6. Entry(n, new).Term = t
    <3>1. new - lastIncludedIndex[s] + 1 = Len(log) + 1
      BY <1>1, <1>2, <1>9
    <3> QED
      BY Zenon, <1>5, <1>7, <3>1 DEF Entry
  <2>7. new \notin Span(p)
    BY <1>1, <1>9, <2>1
  <2> QED
    BY Zenon, <2>4, <2>5, <2>6, <2>7
<1>11. ASSUME NEW i \in Span(p) PROVE i \in Nat /\ i < new /\ Entry(p, i).Term \in Nat
  BY <1>1, <1>6, <1>9, PieceFacts
<1>12. WellFormed(p)
  BY Zenon, <1>6 DEF PiecesInv
<1>13. WellFormed(n)
  <2>1. \A i \in Span(p) : Entry(p, i).Term <= t /\ (Entry(p, i).Term = 0 <=> i = 0)
    BY Zenon, <1>6, <1>12 DEF WellFormed
  <2>2. \A i, j \in Span(p) : i <= j => Entry(p, i).Term <= Entry(p, j).Term
    BY Zenon, <1>6, <1>12, SortedPiece DEF WellFormed
  <2>3. ASSUME NEW i \in Span(n), NEW j \in Span(n), i <= j
        PROVE  Entry(n, i).Term <= Entry(n, j).Term
    <3>1. CASE i \in Span(p) /\ j \in Span(p)
      BY Zenon, <1>10, <2>2, <2>3, <3>1
    <3>2. CASE i \in Span(p) /\ j = new
      BY Zenon, <1>10, <2>1, <3>2
    <3>3. CASE i = new /\ j = new
      BY <1>1, <1>10, <3>3
    <3>4. CASE i = new /\ j \in Span(p)
      BY <1>9, <1>11, <2>3, <3>4
    <3> QED
      BY Zenon, <1>10, <3>1, <3>2, <3>3, <3>4
  <2>4. Sorted(n.log)
    BY Zenon, <1>7, <2>3, SortedPiece
  <2>5. ASSUME NEW i \in Span(n)
        PROVE  Entry(n, i).Term <= n.term /\ (Entry(n, i).Term = 0 <=> i = 0)
    <3>1. CASE i \in Span(p)
      BY Zenon, <1>7, <1>10, <2>1, <3>1
    <3>2. CASE i = new
      <4>1. t \in Nat /\ t > 0 /\ new > 0
        BY <1>1, <1>8, <1>9
      <4>2. n.term = t /\ Entry(n, i).Term = t
        BY Zenon, <1>7, <1>10, <3>2
      <4> QED
        BY <3>2, <4>1, <4>2
    <3> QED
      BY Zenon, <1>10, <3>1, <3>2
  <2> QED
    BY Zenon, <2>4, <2>5 DEF WellFormed
<1>14. ASSUME NEW r \in Pieces PROVE Agree(n, r)
  <2>0. r \in PieceSet /\ Created(r) /\ Agree(p, r)
    BY Zenon, <1>6, <1>8 DEF PiecesInv
  <2>1. Leads(s, t)
    BY Zenon, <1>4 DEF Leads, t
  <2>2. ASSUME new \in Span(r), Entry(r, new).Term = t PROVE r.base = new
    <3>1. new \in Nat /\ r.base \in Nat /\ r.base <= new /\ new <= End(r) /\ End(r) \in Nat
      BY Zenon, <2>0, <2>2, PieceFacts
    <3>2. ASSUME r.base # new PROVE FALSE
      <4>1. new \in r.base + 1 .. End(r)
        BY <3>1, <3>2
      <4>2. new <= LastLogIndex(s)
        BY Zenon, <2>0, <2>1, <2>2, <4>1 DEF Created
      <4> QED
        BY <1>1, <1>9, <4>2
    <3> QED
      BY Zenon, <3>2
  <2> SUFFICES ASSUME NEW i \in Span(n) \cap Span(r), Entry(n, i).Term = Entry(r, i).Term,
                      NEW j \in Span(n) \cap Span(r), j <= i
               PROVE  /\ Entry(n, j).Term = Entry(r, j).Term
                      /\ n.base < j /\ r.base < j => Entry(n, j) = Entry(r, j)
    BY Zenon DEF Agree
  <2>3. i \in Nat /\ j \in Nat /\ r.base \in Nat /\ r.base <= j
    BY Zenon, <1>7, <2>0, PieceFacts
  <2>4. CASE i \in Span(p) /\ j \in Span(p)
    <3>1. i \in Span(p) \cap Span(r) /\ j \in Span(p) \cap Span(r)
      BY Zenon, <2>4
    <3>2. Entry(p, i).Term = Entry(r, i).Term
      BY Zenon, <1>10, <2>4
    <3>3. /\ Entry(p, j).Term = Entry(r, j).Term
          /\ p.base < j /\ r.base < j => Entry(p, j) = Entry(r, j)
      BY Zenon, <2>0, <3>1, <3>2 DEF Agree
    <3> QED
      BY Zenon, <1>6, <1>7, <1>10, <2>4, <3>3
  <2>5. CASE i = new
    <3>1. r.base = new
      BY Zenon, <1>10, <2>2, <2>5
    <3>2. j = new
      BY <2>3, <2>5, <3>1
    <3> QED
      BY <2>3, <2>5, <3>1, <3>2
  <2>6. CASE i \in Span(p) /\ j = new
    BY <1>9, <1>11, <2>3, <2>6
  <2> QED
    BY Zenon, <1>10, <2>4, <2>5, <2>6
<1>15. Created(PeerPiece(s))'
  <2> SUFFICES ASSUME NEW i \in n.base + 1 .. End(n)
               PROVE  /\ \E l \in leaders' : l[2] = Entry(n, i).Term
                      /\ \A u \in Server :
                           identity'[u] = "LEADER" /\ CurrentTerm'[u] = Entry(n, i).Term
                             => i <= LastLogIndex(u)'
    BY Zenon DEF Created, Leads, n
  <2>1. i \in Nat /\ i \in Span(n) /\ p.base < i
    BY <1>1, <1>6, <1>7, PieceFacts
  <2>2. CASE i \in Span(p)
    <3>1. i \in p.base + 1 .. End(p)
      BY <1>6, <2>1, <2>2, PieceFacts
    <3> QED
      BY Zenon, <1>6, <1>10, <2>2, <3>1 DEF Created, Leads
  <2>3. CASE i = new
    <3>1. \E l \in leaders' : l[2] = t
      BY Zenon, <1>8, <1>9a
    <3>2. ASSUME NEW u \in Server, identity'[u] = "LEADER", CurrentTerm'[u] = t
          PROVE  i <= LastLogIndex(u)'
      <4>1. <<u, t>> \in leaders'
        BY Zenon, <3>2 DEF LeadersInv
      <4>2. u = s
        BY <1>8, <1>9a, <4>1 DEF ElectionInv, ElectionSafety
      <4>3. i = LastLogIndex(s)' /\ i \in Nat
        BY Zenon, <1>4, <1>9, <2>1, <2>3
      <4>4. \A x \in Nat : x <= x
        OBVIOUS
      <4> QED
        BY Zenon, <4>2, <4>3, <4>4
    <3> QED
      BY Zenon, <1>10, <2>3, <3>1, <3>2
  <2> QED
    BY Zenon, <1>10, <2>1, <2>2, <2>3
<1> QED
  BY Zenon, <1>13, <1>14, <1>15 DEF Fresh, n

=============================================================================
