----------------------------- MODULE Porcupine -----------------------------
(***************************************************************************)
(* The linearizability checker of src/src/porcupine/checker.go, with which *)
(* the tests judge the key/value services, on the model of                 *)
(* src/src/models/kv.go.  checkOperations() partitions a history by key    *)
(* and checkParallel() searches every partition in a goroutine of its own. *)
(* One step is one iteration of checkSingle()'s loop, one receive of       *)
(* checkParallel(), or the timeout.  A string is the sequence of the       *)
(* pieces it was put together from.                                        *)
(***************************************************************************)
EXTENDS Integers, Sequences, FiniteSets, SequencesExt

CONSTANTS
  Checks   \* the calls of checkOperations(): history, verbose, timeout > 0

VARIABLES
  check,       \* the call
  partition,   \* the histories of the keys, in the order of the keys
  entries,     \* for each of them, makeEntries()
  search,      \* for each of them, the variables of checkSingle()
  results,     \* the channel
  kill, ok, timedOut, count,
  verdict      \* CheckResult, or Undecided before checkParallel() returns

checkerVars ==
  <<check, partition, entries, search, results, kill, ok, timedOut, count, verdict>>

Undecided == "Undecided"

Nil == -1

-----------------------------------------------------------------------------
(***************************************************************************)
(* KvModel.                                                                *)
(***************************************************************************)

EmptyString == <<>>

\* An operation is [key, op, value, out, call, return].
Possible(state, o) == o.op \in {"get", "appendGet"} => o.out = state

After(state, o) ==
  CASE o.op = "get" -> state
    [] o.op = "put" -> o.value
    [] OTHER        -> state \o o.value

Partition(history) ==
  LET of(key) == SelectSeq(history, LAMBDA o : o.key = key)
      keys    == {history[i].key : i \in DOMAIN history}
  IN  [n \in 1 .. Cardinality(keys) |-> of(SetToSortSeq(keys, <)[n])]

-----------------------------------------------------------------------------
(***************************************************************************)
(* Entries in the order of time, and the list made from them.              *)
(***************************************************************************)

Entries(ops) ==
  {[kind |-> "call", id |-> i, time |-> ops[i].call] : i \in DOMAIN ops} \cup
  {[kind |-> "return", id |-> i, time |-> ops[i].return] : i \in DOMAIN ops}

Less(e, f) ==
  \/ e.time < f.time
  \/ e.time = f.time /\ e.kind = "call" /\ f.kind = "return"

\* sort.Sort() leaves open the order of entries neither of which is Less.
makeEntries(ops) ==
  LET sorted[E \in SUBSET Entries(ops)] ==
        IF E = {} THEN {<<>>}
        ELSE UNION {{<<e>> \o rest : rest \in sorted[E \ {e}]} :
                    e \in {f \in E : \A g \in E : ~Less(g, f)}}
  IN  sorted[Entries(ops)]

\* headEntry is node 0, entry i is node i.
makeLinkedEntries(n) ==
  [next |-> [i \in 0 .. n |-> IF i = n THEN Nil ELSE i + 1],
   prev |-> [i \in 0 .. n |-> i - 1]]

\* The node of the return of the call at e.
match(es, e) == CHOOSE m \in DOMAIN es : es[m].kind = "return" /\ es[m].id = es[e].id

Unlink(list, e) ==
  [next |-> [list.next EXCEPT ![list.prev[e]] = list.next[e]],
   prev |-> IF list.next[e] = Nil THEN list.prev
            ELSE [list.prev EXCEPT ![list.next[e]] = list.prev[e]]]

Relink(list, e) ==
  [next |-> [list.next EXCEPT ![list.prev[e]] = e],
   prev |-> IF list.next[e] = Nil THEN list.prev
            ELSE [list.prev EXCEPT ![list.next[e]] = e]]

lift(list, es, e) == Unlink(Unlink(list, e), match(es, e))

unlift(list, es, e) == Relink(Relink(list, match(es, e)), e)

-----------------------------------------------------------------------------
(***************************************************************************)
(* checkSingle() on partition p.                                           *)
(***************************************************************************)

NewSearch(ops) ==
  [list |-> makeLinkedEntries(2 * Len(ops)), entry |-> IF ops = <<>> THEN Nil ELSE 1,
   state |-> EmptyString, calls |-> <<>>, linearized |-> {}, cache |-> {},
   longest |-> [i \in DOMAIN ops |-> <<>>], ended |-> FALSE]

Searching(p) == ~search[p].ended

Ids(p, calls) == [i \in DOMAIN calls |-> entries[p][calls[i].entry].id]

\* return ok, longest; results <- ok.  The channel has room for every result.
Ends(p, found, longest) ==
  /\ search'  = [search EXCEPT ![p].ended = TRUE, ![p].longest = longest]
  /\ results' = Append(results, found)

Killed(p) ==
  /\ Searching(p)
  /\ search[p].list.next[0] # Nil
  /\ kill
  /\ Ends(p, FALSE, search[p].longest)

\* Mutant of cacheContains: the sets are compared and the states are not.
cacheContains_SetOnly(cache, linearized, state) ==
  \E c \in cache : c.linearized = linearized

cacheContains(cache, linearized, state) ==
  \E c \in cache : c.linearized = linearized /\ c.state = state

Seen(p, o, id) ==
  cacheContains(search[p].cache, search[p].linearized \cup {id}, After(search[p].state, o))

AtCall(p) ==
  /\ Searching(p) /\ ~kill
  /\ search[p].list.next[0] # Nil
  /\ entries[p][search[p].entry].kind = "call"

\* The call at the entry is linearized next.
Linearize(p) ==
  LET s  == search[p]
      id == entries[p][s.entry].id
      o  == partition[p][id]
      list == lift(s.list, entries[p], s.entry)
  IN  /\ Possible(s.state, o) /\ ~Seen(p, o, id)
      /\ search' = [search EXCEPT ![p] =
           [s EXCEPT !.cache = @ \cup {[linearized |-> s.linearized \cup {id},
                                        state |-> After(s.state, o)]},
                     !.calls = Append(@, [entry |-> s.entry, state |-> s.state]),
                     !.state = After(@, o),
                     !.linearized = @ \cup {id},
                     !.list  = list,
                     !.entry = list.next[0]]]

Skip(p) ==
  LET s  == search[p]
      id == entries[p][s.entry].id
      o  == partition[p][id]
  IN  /\ ~Possible(s.state, o) \/ Seen(p, o, id)
      /\ search' = [search EXCEPT ![p].entry = s.list.next[@]]

Call(p) ==
  /\ AtCall(p)
  /\ Linearize(p) \/ Skip(p)
  /\ UNCHANGED results

\* The calls made so far are a longer linearization of some of them.
Longest(p) ==
  LET seq == Ids(p, search[p].calls)
  IN  [i \in DOMAIN search[p].longest |->
         IF /\ check.verbose /\ i \in Range(seq)
            /\ Len(seq) > Len(search[p].longest[i])
         THEN seq ELSE search[p].longest[i]]

\* At a return the last call is taken back; the search goes on behind it.
TakeBack(p) ==
  LET s    == search[p]
      top  == Last(s.calls)
      list == unlift(s.list, entries[p], top.entry)
  IN  /\ Searching(p) /\ ~kill
      /\ s.list.next[0] # Nil
      /\ entries[p][s.entry].kind = "return"
      /\ \/ /\ s.calls = <<>>
            /\ Ends(p, FALSE, s.longest)
         \/ /\ s.calls # <<>>
            /\ search' = [search EXCEPT ![p] =
                 [s EXCEPT !.longest = Longest(p),
                           !.state = top.state,
                           !.linearized = @ \ {entries[p][top.entry].id},
                           !.calls = Front(@),
                           !.list  = list,
                           !.entry = list.next[top.entry]]]
            /\ UNCHANGED results

Complete(p) ==
  /\ Searching(p)
  /\ search[p].list.next[0] = Nil
  /\ Ends(p, TRUE, [i \in DOMAIN search[p].longest |-> Ids(p, search[p].calls)])

checkSingle(p) ==
  /\ Killed(p) \/ Call(p) \/ TakeBack(p) \/ Complete(p)
  /\ UNCHANGED <<check, partition, entries, kill, ok, timedOut, count, verdict>>

-----------------------------------------------------------------------------
(***************************************************************************)
(* checkParallel().                                                        *)
(***************************************************************************)

N == Len(partition)

\* The loop is left at the first failure when nobody wants details, after the
\* last result, and at the timeout.  Without partitions only the timeout ends it.
Looping ==
  /\ verdict = Undecided
  /\ ok \/ check.verbose
  /\ count = 0 \/ count < N
  /\ ~timedOut

\* Mutant of Receive: every result overwrites the one before.
Receive_LastResult ==
  /\ Looping
  /\ results # <<>>
  /\ results' = Tail(results)
  /\ count' = count + 1
  /\ ok'    = Head(results)
  /\ kill'  = (kill \/ (~ok' /\ ~check.verbose))
  /\ UNCHANGED <<check, partition, entries, search, timedOut, verdict>>

Receive ==
  /\ Looping
  /\ results # <<>>
  /\ results' = Tail(results)
  /\ count' = count + 1
  /\ ok'    = (ok /\ Head(results))
  /\ kill'  = (kill \/ (~ok' /\ ~check.verbose))
  /\ UNCHANGED <<check, partition, entries, search, timedOut, verdict>>

Timeout ==
  /\ Looping
  /\ check.timeout
  /\ timedOut' = TRUE
  /\ kill'     = TRUE
  /\ UNCHANGED <<check, partition, entries, search, results, ok, count, verdict>>

\* With details wanted all goroutines are waited for; longest is theirs till then.
Drain ==
  /\ verdict = Undecided /\ ~Looping
  /\ check.verbose /\ count < N
  /\ results # <<>>
  /\ results' = Tail(results)
  /\ count'   = count + 1
  /\ UNCHANGED <<check, partition, entries, search, kill, ok, timedOut, verdict>>

\* Mutant of Decide: the goroutines are waited for once more than there are.
Decide_OffByOne ==
  /\ verdict = Undecided /\ ~Looping
  /\ check.verbose => count > N
  /\ verdict' = IF ~ok THEN "Illegal" ELSE IF timedOut THEN "Unknown" ELSE "Ok"
  /\ UNCHANGED <<check, partition, entries, search, results, kill, ok, timedOut, count>>

Decide ==
  /\ verdict = Undecided /\ ~Looping
  /\ check.verbose => count >= N
  /\ verdict' = IF ~ok THEN "Illegal" ELSE IF timedOut THEN "Unknown" ELSE "Ok"
  /\ UNCHANGED <<check, partition, entries, search, results, kill, ok, timedOut, count>>

-----------------------------------------------------------------------------

\* checkOperations().
CheckerInit ==
  /\ check \in Checks
  /\ partition = Partition(check.history)
  /\ entries \in {es \in [DOMAIN partition -> UNION {makeEntries(partition[p]) : p \in DOMAIN partition}] :
                    \A p \in DOMAIN partition : es[p] \in makeEntries(partition[p])}
  /\ search = [p \in DOMAIN partition |-> NewSearch(partition[p])]
  /\ results = <<>>
  /\ kill = FALSE /\ ok = TRUE /\ timedOut = FALSE /\ count = 0
  /\ verdict = Undecided

CheckerNext ==
  \/ \E p \in DOMAIN partition : checkSingle(p)
  \/ Receive \/ Timeout \/ Drain \/ Decide

-----------------------------------------------------------------------------
(***************************************************************************)
(* What the checker is to find out.                                        *)
(***************************************************************************)

\* The value of key when the operations of seq have been executed one by one.
Value(ops, seq, key) ==
  FoldLeft(LAMBDA state, i : After(state, ops[i]), EmptyString,
           SelectSeq(seq, LAMBDA i : ops[i].key = key))

Precedes(ops, i, j) == ops[i].return < ops[j].call

\* Orders in which some of the operations may have taken effect: each returned
\* what it has to, and all that returned before a call are ordered before it.
Linearizations(ops, ids) ==
  {seq \in SetToSeqs(ids) :
     /\ \A n \in DOMAIN seq : Possible(Value(ops, SubSeq(seq, 1, n - 1), ops[seq[n]].key), ops[seq[n]])
     /\ \A n \in DOMAIN seq : \A i \in DOMAIN ops :
          Precedes(ops, i, seq[n]) => i \in Range(SubSeq(seq, 1, n - 1))}

\* The history as a whole, all keys together, is linearizable.
Linearizable == Linearizations(check.history, DOMAIN check.history) # {}

\* A verdict is right: "Ok" for linearizable histories only and "Illegal" for
\* others only, although the keys are judged apart and in parallel, the search
\* skips what the cache holds, and a killed goroutine answers false as well.
\* "Unknown" is for timeouts.
Verdict ==
  /\ verdict = "Ok" => Linearizable
  /\ verdict = "Illegal" => ~Linearizable
  /\ verdict = "Unknown" => check.timeout

\* The details: for each operation a longest linearization of a prefix that it is
\* part of ("longest linearizable prefix that includes the given entry"),
\* although branches are cut off by the cache and only dead ends are recorded.
LongestPartial ==
  \A p \in DOMAIN partition :
    (search[p].ended /\ ~kill /\ check.verbose) =>
      LET ops == partition[p] IN
      \A i \in DOMAIN ops :
        LET l       == search[p].longest[i]
            with(n) == {ids \in SUBSET DOMAIN ops : i \in ids /\ Cardinality(ids) = n}
        IN  /\ l # <<>> => i \in Range(l) /\ l \in Linearizations(ops, Range(l))
            /\ \A n \in Len(l) + 1 .. Len(ops) :
                 \A ids \in with(n) : Linearizations(ops, ids) = {}

\* checkParallel() returns and leaves no goroutine behind, except for a history
\* without operations that nothing but a timeout can end.
Decides ==
  [](check.history # <<>> \/ check.timeout =>
       <>(verdict # Undecided /\ \A p \in DOMAIN partition : search[p].ended))

=============================================================================
