----------------------------- MODULE MapReduce -----------------------------
(***************************************************************************)
(* The coordinator of src/src/mr/coordinator.go, the worker processes of   *)
(* src/src/mr/worker.go and the files they share.  The coordinator keeps   *)
(* the same books for map and for reduce tasks; both are indexed by kind.  *)
(* Every handler holds mu from start to end, except where it waits on a    *)
(* condition variable, so it is one step between two waits.                *)
(***************************************************************************)
EXTENDS Integers, Sequences, FiniteSets, SequencesExt

CONSTANTS
  Worker,      \* worker processes
  NMap,        \* number of input files, hence of map tasks
  Emits,       \* Emits[i]: the reduce tasks map task i has records for, in order
  Records,     \* records that a map task writes to each of its files
  MaxCrashes,  \* bound: workers that die
  MaxLate      \* bound: workers that live but exceed TIMEOUTLIMIT

ASSUME WorkerAssumption == IsFiniteSet(Worker)
ASSUME BoundAssumption == {NMap, Records, MaxCrashes, MaxLate} \subseteq Nat
ASSUME EmitsAssumption ==
  /\ Emits \in [1 .. NMap -> Seq(Nat)]
  /\ \A i \in 1 .. NMap : IsInjective(Emits[i])

VARIABLES
  idle,          \* IdleMapTask and IdleReduceTask: queues of tasks
  status,        \* MapTaskStatus and ReduceTaskStatus
  txn,           \* MTaskProcessingTxn and RTaskProcessingTxn: task -> txnID
  completed,     \* MapTasksCompletedCnt and ReduceTasksCompletedCnt
  NextTxnID,
  ReduceTasks,   \* reduce task -> the map tasks whose files it reads
  up,            \* the coordinator process runs
  pc,            \* where a worker, or the handler of the call it waits in, is
  alive,         \* the worker process runs
  task,          \* the task a worker got last
  progress,      \* map task: file -> 0, or 1 + records written since os.Create
  toRead,        \* reduce task: files still to read
  sound,         \* reduce task: all files read so far were complete
  intermediate,  \* <<i, j>> -> the records present in the file mr-i-j
  output,        \* j -> contents of mr-out-j
  crashes, late  \* bound counters

books   == <<idle, status, txn, completed, NextTxnID, ReduceTasks>>
work    == <<task, progress, toRead, sound>>
files   == <<intermediate, output>>
bounds  == <<crashes, late>>
vars    == <<books, up, pc, alive, work, files, bounds>>

Kind       == {"map", "reduce"}
MapTasks   == 1 .. NMap
Outputs    == UNION {Range(Emits[i]) : i \in MapTasks}
Files      == {<<i, j>> \in MapTasks \X Outputs : j \in Range(Emits[i])}
Tasks(kind) == IF kind = "map" THEN MapTasks ELSE DOMAIN ReduceTasks

\* Mutant of AllCompleted: off by one.
AllCompleted_OffByOne(kind) == completed[kind] + 1 >= Cardinality(Tasks(kind))

AllCompleted(kind) == completed[kind] >= Cardinality(Tasks(kind))

Put(f, k, v) == [x \in DOMAIN f \cup {k} |-> IF x = k THEN v ELSE f[x]]
Drop(f, S)   == [x \in DOMAIN f \ S |-> f[x]]

NoTask == [kind |-> "map", Index |-> 0, TxnID |-> -1]

\* MakeCoordinator(), with workers that have sent their first GetTask.
Init ==
  /\ idle         = [kind \in Kind |-> IF kind = "map" THEN [i \in MapTasks |-> i] ELSE <<>>]
  /\ status       = [kind \in Kind |-> IF kind = "map" THEN [i \in MapTasks |-> "IDLE"] ELSE <<>>]
  /\ txn          = [kind \in Kind |-> <<>>]
  /\ completed    = [kind \in Kind |-> 0]
  /\ NextTxnID    = 0
  /\ ReduceTasks  = <<>>
  /\ up           = TRUE
  /\ pc           = [w \in Worker |-> "GetMapTask"]
  /\ alive        = [w \in Worker |-> TRUE]
  /\ task         = [w \in Worker |-> NoTask]
  /\ progress     = [w \in Worker |-> <<>>]
  /\ toRead       = [w \in Worker |-> <<>>]
  /\ sound        = [w \in Worker |-> TRUE]
  /\ intermediate = [f \in Files |-> {}]
  /\ output       = [j \in Outputs |-> "none"]
  /\ crashes      = 0
  /\ late         = 0

Done == AllCompleted("map") /\ AllCompleted("reduce")

-----------------------------------------------------------------------------
(***************************************************************************)
(* GetTask().  A handler whose worker died runs on; its reply is lost.     *)
(***************************************************************************)

Goto(w, place) == pc' = [pc EXCEPT ![w] = place]

\* pc after the call of w returned: w, if it still runs, goes on at place.
After(w, place) == [pc EXCEPT ![w] = IF alive[w] THEN place ELSE "exited"]

\* The head of the queue goes to w.
Assign(w, kind) ==
  LET i == Head(idle[kind]) IN
  /\ idle'      = [idle EXCEPT ![kind] = Tail(@)]
  /\ status'    = [status EXCEPT ![kind][i] = "INPROGRESS"]
  /\ txn'       = [txn EXCEPT ![kind] = Put(@, i, NextTxnID)]
  /\ NextTxnID' = NextTxnID + 1
  /\ task'      = [task EXCEPT ![w] = [kind |-> kind, Index |-> i, TxnID |-> NextTxnID]]
  /\ pc' = After(w, kind)
  /\ UNCHANGED <<completed, ReduceTasks>>

GetMapTask(w) ==
  /\ up
  /\ pc[w] = "GetMapTask"
  /\ \/ /\ idle.map = <<>> /\ ~AllCompleted("map")
        /\ Goto(w, "mapTaskCond")
        /\ UNCHANGED <<books, work>>
     \/ /\ AllCompleted("map")
        /\ Goto(w, "GetReduceTask")
        /\ UNCHANGED <<books, work>>
     \/ /\ idle.map # <<>> /\ ~AllCompleted("map")
        /\ Assign(w, "map")
        /\ progress' = [progress EXCEPT ![w] = [j \in Range(Emits[Head(idle.map)]) |-> 0]]
        /\ UNCHANGED <<toRead, sound>>
  /\ UNCHANGED <<up, alive, files, bounds>>

\* The wait for mapTaskCompletedcond is never entered: GetMapTask() has just
\* seen all map tasks completed, and they stay so.
GetReduceTask(w) ==
  /\ up
  /\ pc[w] = "GetReduceTask"
  /\ AllCompleted("map")
  /\ \/ /\ idle.reduce = <<>> /\ ~AllCompleted("reduce")
        /\ Goto(w, "reduceTaskCond")
        /\ UNCHANGED <<books, work>>
     \/ /\ AllCompleted("reduce")        \* "tasks are all done": Worker() returns
        /\ Goto(w, "exited")
        /\ UNCHANGED <<books, work>>
     \/ /\ idle.reduce # <<>> /\ ~AllCompleted("reduce")
        /\ Assign(w, "reduce")
        /\ toRead' = [toRead EXCEPT ![w] = ReduceTasks[Head(idle.reduce)]]
        /\ sound'  = [sound EXCEPT ![w] = TRUE]
        /\ UNCHANGED progress
  /\ UNCHANGED <<up, alive, files, bounds>>

\* Mutant of Woken: nobody signals mapTaskCond.
Woken_ReduceOnly(conds, now) ==
  [w \in Worker |->
     IF now[w] = "reduceTaskCond" /\ "reduceTaskCond" \in conds THEN "GetReduceTask"
     ELSE now[w]]

\* pc after Broadcast() on the condition variables conds: the handlers that
\* wait there test their conditions again.
Woken(conds, now) ==
  [w \in Worker |->
     IF now[w] = "mapTaskCond" /\ "mapTaskCond" \in conds THEN "GetMapTask"
     ELSE IF now[w] = "reduceTaskCond" /\ "reduceTaskCond" \in conds THEN "GetReduceTask"
     ELSE now[w]]

-----------------------------------------------------------------------------
(***************************************************************************)
(* ProcessMapTask() and ProcessReduceTask().                               *)
(***************************************************************************)

\* os.Create(): the file is truncated, whoever wrote it.
CreateFile(w, j) ==
  /\ alive[w] /\ pc[w] = "map"
  /\ progress[w][j] = 0
  /\ progress'     = [progress EXCEPT ![w][j] = 1]
  /\ intermediate' = [intermediate EXCEPT ![<<task[w].Index, j>>] = {}]
  /\ UNCHANGED <<books, up, pc, alive, task, toRead, sound, output, bounds>>

\* Encode(): the next record, at the writer's own position in the file.
EncodeRecord(w, j) ==
  LET n == progress[w][j] IN
  /\ alive[w] /\ pc[w] = "map"
  /\ n \in 1 .. Records
  /\ progress'     = [progress EXCEPT ![w][j] = n + 1]
  /\ intermediate' = [intermediate EXCEPT ![<<task[w].Index, j>>] = @ \cup {n}]
  /\ UNCHANGED <<books, up, pc, alive, task, toRead, sound, output, bounds>>

CallMapTaskDone(w) ==
  /\ alive[w] /\ pc[w] = "map"
  /\ \A j \in DOMAIN progress[w] : progress[w][j] = Records + 1
  /\ Goto(w, "MapTaskDone")
  /\ UNCHANGED <<books, up, alive, work, files, bounds>>

\* Decoding stops at the first record that is missing or was overwritten.
ReadFile(w) ==
  /\ alive[w] /\ pc[w] = "reduce"
  /\ toRead[w] # <<>>
  /\ sound'  = [sound EXCEPT ![w] =
                  @ /\ intermediate[<<Head(toRead[w]), task[w].Index>>] = 1 .. Records]
  /\ toRead' = [toRead EXCEPT ![w] = Tail(@)]
  /\ UNCHANGED <<books, up, pc, alive, task, progress, files, bounds>>

CreateOutput(w) ==
  /\ alive[w] /\ pc[w] = "reduce"
  /\ toRead[w] = <<>>
  /\ output' = [output EXCEPT ![task[w].Index] = "truncated"]
  /\ Goto(w, "writeOutput")
  /\ UNCHANGED <<books, up, alive, work, intermediate, bounds>>

WriteOutput(w) ==
  /\ alive[w] /\ pc[w] = "writeOutput"
  /\ output' = [output EXCEPT ![task[w].Index] = IF sound[w] THEN "right" ELSE "wrong"]
  /\ Goto(w, "ReduceTaskDone")
  /\ UNCHANGED <<books, up, alive, work, intermediate, bounds>>

-----------------------------------------------------------------------------
(***************************************************************************)
(* MapTaskDone() and ReduceTaskDone().                                     *)
(***************************************************************************)

\* Is the report of w about the last transaction of its task?
Current(w, kind) ==
  LET t == task[w] IN t.Index \in DOMAIN txn[kind] /\ txn[kind][t.Index] = t.TxnID

\* The report of w is refused, and log.Fatal() ends w.
Refused(w, kind) ==
  /\ ~Current(w, kind)
  /\ Goto(w, "exited")
  /\ UNCHANGED books

\* Mutant of WithFiles: earlier files are overwritten.
WithFiles_Overwrites(i) ==
  [j \in DOMAIN ReduceTasks \cup Range(Emits[i]) |->
     IF j \in Range(Emits[i]) THEN <<i>> ELSE ReduceTasks[j]]

\* The reduce tasks after the files of map task i were added to them.
WithFiles(i) ==
  [j \in DOMAIN ReduceTasks \cup Range(Emits[i]) |->
     (IF j \in DOMAIN ReduceTasks THEN ReduceTasks[j] ELSE <<>>) \o
     (IF j \in Range(Emits[i]) THEN <<i>> ELSE <<>>)]

MapTaskDone(w) ==
  LET i    == task[w].Index
      new  == SelectSeq(Emits[i], LAMBDA j : j \notin DOMAIN ReduceTasks)
      last == completed.map + 1 >= NMap
  IN
  /\ up
  /\ pc[w] = "MapTaskDone"
  /\ \/ Refused(w, "map")
     \/ /\ Current(w, "map")
        /\ ReduceTasks' = WithFiles(i)
        /\ idle'      = [idle EXCEPT !.reduce = @ \o new]
        /\ status'    = [map    |-> [status.map EXCEPT ![i] = "COMPLETED"],
                         reduce |-> [j \in DOMAIN ReduceTasks' |->
                                       IF j \in Range(new) THEN "IDLE" ELSE status.reduce[j]]]
        /\ completed' = [completed EXCEPT !.map = @ + 1]
        /\ txn'       = [txn EXCEPT !.map = Drop(@, {i})]
        /\ pc'        = Woken(IF last THEN {"mapTaskCond"} ELSE {}, After(w, "GetMapTask"))
        /\ UNCHANGED NextTxnID
  /\ UNCHANGED <<up, alive, work, files, bounds>>

ReduceTaskDone(w) ==
  LET j    == task[w].Index
      last == completed.reduce + 1 >= Cardinality(DOMAIN ReduceTasks)
  IN
  /\ up
  /\ pc[w] = "ReduceTaskDone"
  /\ \/ Refused(w, "reduce")
     \/ /\ Current(w, "reduce")
        /\ status'    = [status EXCEPT !.reduce[j] = "COMPLETED"]
        /\ completed' = [completed EXCEPT !.reduce = @ + 1]
        /\ txn'       = [txn EXCEPT !.reduce = Drop(@, {j})]
        /\ pc'        = Woken(IF last THEN {"reduceTaskCond"} ELSE {}, After(w, "GetMapTask"))
        /\ UNCHANGED <<idle, NextTxnID, ReduceTasks>>
  /\ UNCHANGED <<up, alive, work, files, bounds>>

-----------------------------------------------------------------------------
(***************************************************************************)
(* Timeouts, crashes, and the end of the coordinator process.              *)
(***************************************************************************)

\* The tasks in progress that a running worker has, and those it has not.
Held(kind) ==
  {i \in DOMAIN txn[kind] : \E w \in Worker : alive[w] /\ task[w].TxnID = txn[kind][i]}

Orphaned(kind) == DOMAIN txn[kind] \ Held(kind)

\* Mutant of Expire: the transaction is kept.
Expire_KeepsTxn(kind, expired) ==
  /\ \E order \in SetToSeqs(expired) : idle' = [idle EXCEPT ![kind] = @ \o order]
  /\ status' = [status EXCEPT ![kind] =
                  [i \in DOMAIN @ |-> IF i \in expired THEN "IDLE" ELSE @[i]]]
  /\ UNCHANGED txn

\* The tasks in expired go back to the queue, in any order.
Expire(kind, expired) ==
  /\ \E order \in SetToSeqs(expired) : idle' = [idle EXCEPT ![kind] = @ \o order]
  /\ status' = [status EXCEPT ![kind] =
                  [i \in DOMAIN @ |-> IF i \in expired THEN "IDLE" ELSE @[i]]]
  /\ txn'    = [txn EXCEPT ![kind] = Drop(@, expired)]

\* InspectMapTasks() and InspectReduceTasks(): the tasks in expired have been
\* in progress for longer than TIMEOUTLIMIT.
Inspect(kind, expired) ==
  /\ up
  /\ expired # {}
  /\ late' = late + Cardinality(expired \cap Held(kind))
  /\ late' <= MaxLate
  /\ Expire(kind, expired)
  /\ pc' = Woken({IF kind = "map" THEN "mapTaskCond" ELSE "reduceTaskCond"}, pc)
  /\ UNCHANGED <<completed, NextTxnID, ReduceTasks, up, alive, work, files, crashes>>

\* The process of w dies.  A call it waits in still runs in the coordinator; at
\* "GetMapTask" w may not have called yet.
Crash(w) ==
  /\ alive[w] /\ pc[w] # "exited"
  /\ crashes < MaxCrashes
  /\ crashes' = crashes + 1
  /\ alive' = [alive EXCEPT ![w] = FALSE]
  /\ \/ pc[w] \in {"map", "reduce", "writeOutput", "GetMapTask"} /\ Goto(w, "exited")
     \/ pc[w] \notin {"map", "reduce", "writeOutput"} /\ UNCHANGED pc
  /\ UNCHANGED <<books, up, work, files, late>>

\* mrcoordinator.go returns from main() a second after Done().
CoordinatorExit ==
  /\ up /\ Done
  /\ up' = FALSE
  /\ UNCHANGED <<books, pc, alive, work, files, bounds>>

\* The coordinator is gone: any call, pending or new, fails and ends w.
CallFails(w) ==
  /\ ~up
  /\ pc[w] \notin {"map", "reduce", "writeOutput", "exited"}
  /\ Goto(w, "exited")
  /\ UNCHANGED <<books, up, alive, work, files, bounds>>

-----------------------------------------------------------------------------

Step(w) ==
  \/ GetMapTask(w)
  \/ GetReduceTask(w)
  \/ \E j \in DOMAIN progress[w] : CreateFile(w, j) \/ EncodeRecord(w, j)
  \/ CallMapTaskDone(w)
  \/ ReadFile(w)
  \/ CreateOutput(w)
  \/ WriteOutput(w)
  \/ MapTaskDone(w)
  \/ ReduceTaskDone(w)
  \/ CallFails(w)

Next ==
  \/ \E w \in Worker : Step(w) \/ Crash(w)
  \/ \E kind \in Kind : \E expired \in SUBSET DOMAIN txn[kind] : Inspect(kind, expired)
  \/ CoordinatorExit

\* Map and reduce functions return, handlers get mu, and the coordinator, which
\* inspects its tasks every second, sees the ones of dead workers expire.
Fairness ==
  /\ \A w \in Worker : WF_vars(Step(w))
  /\ \A kind \in Kind : WF_vars(Inspect(kind, Orphaned(kind)))
  /\ WF_vars(CoordinatorExit)

Spec == Init /\ [][Next]_vars /\ Fairness

-----------------------------------------------------------------------------

Place == {"GetMapTask", "mapTaskCond", "GetReduceTask", "reduceTaskCond", "map",
          "MapTaskDone", "reduce", "writeOutput", "ReduceTaskDone", "exited"}

\* The coordinator's books and the workers' tasks have their types; the status
\* map of the reduce tasks covers exactly the reduce tasks MapTaskDone() made.
TypeOK ==
  /\ \A kind \in Kind :
       /\ idle[kind] \in Seq(Tasks(kind))
       /\ status[kind] \in [Tasks(kind) -> {"IDLE", "INPROGRESS", "COMPLETED"}]
       /\ DOMAIN txn[kind] \subseteq Tasks(kind)
       /\ \A i \in DOMAIN txn[kind] : txn[kind][i] \in 0 .. NextTxnID - 1
       /\ completed[kind] \in 0 .. Cardinality(Tasks(kind))
  /\ DOMAIN ReduceTasks \subseteq Outputs
  /\ pc \in [Worker -> Place]
  /\ \A w \in Worker :
       /\ task[w].TxnID \in -1 .. NextTxnID - 1
       /\ pc[w] \in {"map", "reduce"} => task[w].Index \in Tasks(pc[w])
  /\ intermediate \in [Files -> SUBSET (1 .. Records)]
  /\ output \in [Outputs -> {"none", "truncated", "right", "wrong"}]

\* No task is lost, queued twice, or counted twice, however crashes, timeouts
\* and late reports mix: an IDLE task is in its queue exactly once, one in
\* progress has a transaction and no place in the queue, and the counters that
\* GetTask() and Done() trust count the completed ones.
TasksAccounted ==
  \A kind \in Kind :
    /\ \A i \in Tasks(kind) :
         /\ (i \in Range(idle[kind])) <=> (status[kind][i] = "IDLE")
         /\ (i \in DOMAIN txn[kind])  <=> (status[kind][i] = "INPROGRESS")
    /\ IsInjective(idle[kind])
    /\ completed[kind] = Cardinality({i \in Tasks(kind) : status[kind][i] = "COMPLETED"})

\* A reduce task is handed out only when it has the file of every map task that
\* emits to it, each exactly once, even if a map task was done by two workers.
FilesListedOnce ==
  /\ \A j \in DOMAIN ReduceTasks :
       /\ IsInjective(ReduceTasks[j])
       /\ Range(ReduceTasks[j]) =
            {i \in MapTasks : status.map[i] = "COMPLETED" /\ j \in Range(Emits[i])}
  /\ (\E j \in DOMAIN ReduceTasks : status.reduce[j] # "IDLE") =>
       /\ \A i \in MapTasks : status.map[i] = "COMPLETED"
       /\ DOMAIN ReduceTasks = Outputs

\* The job is finished and all workers end, although some die or are too slow,
\* as long as one is neither: no handler sleeps through the Broadcast it waits
\* for, and GetTask() finally answers "tasks are all done".
Finishes == <>[](Done /\ \A w \in Worker : pc[w] = "exited")

\* When Done() says so, the files mr-out-* hold the complete result
\* (test-mr.sh: "this means that the output should be finalized"), whichever
\* workers died with their files half written.  A worker that lives and exceeds
\* TIMEOUTLIMIT is another matter: os.Create() truncates a finished mr-out-*.
OutputRight == Done /\ late = 0 => \A j \in Outputs : output[j] = "right"

=============================================================================
