-------------------------- MODULE PersistenceQueue --------------------------
(***************************************************************************)
(* AsyncPersistenceQueue of src/src/persistent_queue.rs: the queue in      *)
(* memory, the I/O thread that writes pushed items to the Sled database    *)
(* later and in the background, the workers that remove them from it       *)
(* themselves, and the end of the process, orderly or not, at any time.    *)
(*                                                                         *)
(* A job is one push; its number stands for payload and GUID, since both   *)
(* are issued once per push, and jobs are numbered in the order of their   *)
(* ids' allocation.  An item is a job under the id it is stored by.        *)
(* Left out: the counts of active workers, processed items and errors,     *)
(* which are AsyncQueue's, live in memory only and are read by nothing but *)
(* the statistics; the write-ahead-log buffer, which nothing fills; and a  *)
(* second queue on the same path in one process, which the database lock   *)
(* refuses.                                                                *)
(***************************************************************************)
EXTENDS Integers, Sequences, FiniteSets, Functions

CONSTANTS
  Callers,      \* threads in the methods at once; one under the GIL
  Workers,      \* worker threads that start may spawn
  Modes,        \* execution modes of the constructor and set_mode
  BatchSizes,   \* lengths of the batches callers push and ask for
  Workloads,    \* sets of methods, by name: an application uses one of them
  FirstCounter, \* ids that the database was through with when life began
  MaxJobs,      \* bound: pushes in all
  MaxLives,     \* bound: times the process is started
  MaxCrashes    \* bound: times it ends without dropping the queue

ASSUME CallersAssumption == IsFiniteSet(Callers) /\ IsFiniteSet(Workers)
ASSUME ModeAssumption == Modes \subseteq {"Sequential", "Parallel"}
ASSUME SizeAssumption == BatchSizes \subseteq Nat
(* Ids of one or two digits, for KeyBefore. *)
ASSUME BoundAssumption ==
  /\ MaxJobs \in Nat /\ FirstCounter \in Nat
  /\ FirstCounter + MaxJobs < 100
ASSUME LifeAssumption == MaxLives \in Nat \ {0} /\ MaxCrashes \in Nat

VARIABLES
  itemQueue, counter, guidIndex, removedGuids,
  resultQueue,   \* the items whose results wait to be fetched
  removedCount,
  mode, isClosed, workersStarted, returnsResults,
  channel, pending, counterVal, ioPc, ioStop,  \* the I/O thread and its inbox
  db,            \* what reads of the database see: items, counter, removed
  recoverable,   \* what a crash may leave of it: the versions since a flush
  wpc, wItem,    \* per worker: place, item
  cpc, cItem, cLeft, cVal, cBuf,  \* per caller: place and local variables
  workload, phase, lives, crashes,
  (* History. *)
  jobs,          \* pushes so far
  accepted,      \* jobs published in memory, just before their push returns
  finished,      \* jobs whose callback ended
  discarded,     \* jobs cleared, or skipped because they were removed
  returned,      \* results handed out, on top of the count found at start
  issued, reissued   \* ids issued, and those issued more than once

results == <<resultQueue, removedCount>>
memory  == <<itemQueue, counter, guidIndex, removedGuids, results>>
flags   == <<mode, isClosed, workersStarted, returnsResults>>
io      == <<pending, counterVal, ioPc, ioStop>>
sled    == <<db, recoverable>>
workers == <<wpc, wItem>>
locals  == <<cItem, cLeft, cVal, cBuf>>
process == <<workload, phase, lives, crashes>>
ids     == <<jobs, issued, reissued>>
history == <<accepted, finished, discarded, returned>>
vars == <<memory, flags, channel, io, sled, workers, cpc, locals, process,
          ids, history>>

NoItem == [id |-> 0, job |-> 0]
JobsOf(items) == {i.job : i \in items}
Without(items, id) == {i \in items : i.id # id}

(* Messages to the I/O thread. *)
Insert(item) == [op |-> "insert", item |-> item, val |-> 0]
PersistCounter(n) == [op |-> "counter", item |-> NoItem, val |-> n]
Shutdown == [op |-> "shutdown", item |-> NoItem, val |-> 0]

CallerPlaces ==
  {"idle", "pushAlloc", "pushSend", "pushCount", "pushSendCount",
   "pushIndex", "pushItem", "batchAlloc", "batchSend", "batchCount",
   "batchSendCount", "batchItem", "removeMark", "clear", "clearDb",
   "get", "getBlocking", "getCount", "getLoad", "getSave",
   "pendPop", "pendPush"}
WorkerPlaces ==
  {"none", "pop", "empty", "check", "run", "post", "unstore", "exit"}

-----------------------------------------------------------------------------
(* The memory of a process that has just started, or is gone. *)
FreshMemory ==
  /\ itemQueue' = << >> /\ counter' = 0 /\ guidIndex' = {}
  /\ removedGuids' = {} /\ resultQueue' = << >> /\ removedCount' = 0
  /\ mode' \in Modes
  /\ isClosed' = FALSE /\ workersStarted' = FALSE /\ returnsResults' = FALSE
  /\ channel' = << >> /\ pending' = << >> /\ counterVal' = 0
  /\ ioPc' = "recv" /\ ioStop' = FALSE
  /\ wpc' = [w \in Workers |-> "none"] /\ wItem' = [w \in Workers |-> NoItem]
  /\ cpc' = [c \in Callers |-> "idle"] /\ cItem' = [c \in Callers |-> NoItem]
  /\ cLeft' = [c \in Callers |-> 0] /\ cVal' = [c \in Callers |-> 0]
  /\ cBuf' = [c \in Callers |-> << >>]

Init ==
  /\ itemQueue = << >> /\ counter = FirstCounter /\ guidIndex = {}
  /\ removedGuids = {} /\ resultQueue = << >> /\ removedCount = 0
  /\ mode \in Modes
  /\ isClosed = FALSE /\ workersStarted = FALSE /\ returnsResults = FALSE
  /\ channel = << >> /\ pending = << >> /\ counterVal = 0
  /\ ioPc = "recv" /\ ioStop = FALSE
  /\ db = [items |-> {}, counter |-> FirstCounter, removed |-> 0]
  /\ recoverable = {db}
  /\ wpc = [w \in Workers |-> "none"] /\ wItem = [w \in Workers |-> NoItem]
  /\ cpc = [c \in Callers |-> "idle"] /\ cItem = [c \in Callers |-> NoItem]
  /\ cLeft = [c \in Callers |-> 0] /\ cVal = [c \in Callers |-> 0]
  /\ cBuf = [c \in Callers |-> << >>]
  /\ workload \in Workloads
  /\ phase = "up" /\ lives = 1 /\ crashes = 0
  /\ jobs = 0 /\ accepted = {} /\ finished = {} /\ discarded = {}
  /\ returned = 0 /\ issued = {} /\ reissued = {}

(* A write to the database: readers see it at once, a crash may undo it,   *)
(* with everything written after it, as long as nothing was flushed.       *)
Write(contents) ==
  /\ db' = contents
  /\ recoverable' = recoverable \cup {contents}

CanCall(c, op) == op \in workload /\ phase = "up" /\ cpc[c] = "idle"
Goto(c, place) == cpc' = [cpc EXCEPT ![c] = place]
WorkerGoto(w, place) == wpc' = [wpc EXCEPT ![w] = place]
Return(c) ==
  /\ Goto(c, "idle")
  /\ cItem' = [cItem EXCEPT ![c] = NoItem]
  /\ cLeft' = [cLeft EXCEPT ![c] = 0]
  /\ cVal' = [cVal EXCEPT ![c] = 0]
  /\ cBuf' = [cBuf EXCEPT ![c] = << >>]

-----------------------------------------------------------------------------
(* push and push_batch.  Both send the items to the I/O thread, then the   *)
(* counter as they read it at that time, and publish the items in memory   *)
(* last; push indexes its GUID after, push_batch before the counter.       *)

PushBegin(c) ==
  /\ ~isClosed
  /\ \/ /\ CanCall(c, "push") /\ jobs < MaxJobs
        /\ Goto(c, "pushAlloc") /\ UNCHANGED cLeft
     \/ /\ CanCall(c, "push_batch") /\ Goto(c, "batchAlloc")
        /\ \E n \in BatchSizes :
             jobs + n <= MaxJobs /\ cLeft' = [cLeft EXCEPT ![c] = n]
  /\ UNCHANGED <<memory, flags, channel, io, sled, workers, cItem, cVal,
                 cBuf, process, ids, history>>

Allocate(c) ==
  /\ jobs < MaxJobs
  /\ counter' = counter + 1 /\ jobs' = jobs + 1
  /\ cItem' = [cItem EXCEPT ![c] = [id |-> counter + 1, job |-> jobs + 1]]
  /\ issued' = issued \cup {counter + 1}
  /\ reissued' = reissued \cup (issued \cap {counter + 1})
  /\ \/ /\ cpc[c] = "pushAlloc"
        /\ Goto(c, "pushSend") /\ UNCHANGED cLeft
     \/ /\ cpc[c] = "batchAlloc" /\ cLeft[c] > 0
        /\ Goto(c, "batchSend") /\ cLeft' = [cLeft EXCEPT ![c] = @ - 1]
  /\ UNCHANGED <<itemQueue, guidIndex, removedGuids, results, flags, channel,
                 io, sled, workers, cVal, cBuf, process, history>>

SendInsert(c) ==
  /\ \/ /\ cpc[c] = "pushSend" /\ Goto(c, "pushCount") /\ UNCHANGED cBuf
     \/ /\ cpc[c] = "batchSend" /\ Goto(c, "batchAlloc")
        /\ cBuf' = [cBuf EXCEPT ![c] = Append(@, cItem[c])]
  /\ channel' = Append(channel, Insert(cItem[c]))
  /\ UNCHANGED <<memory, flags, io, sled, workers, cItem, cLeft, cVal,
                 process, ids, history>>

LoadCounter(c) ==
  /\ \/ cpc[c] = "pushCount" /\ Goto(c, "pushSendCount")
     \/ cpc[c] = "batchCount" /\ Goto(c, "batchSendCount")
  /\ cVal' = [cVal EXCEPT ![c] = counter]
  /\ UNCHANGED <<memory, flags, channel, io, sled, workers, cItem, cLeft,
                 cBuf, process, ids, history>>

SendCounter(c) ==
  /\ \/ cpc[c] = "pushSendCount" /\ Goto(c, "pushIndex")
     \/ cpc[c] = "batchSendCount" /\ Goto(c, "batchItem")
  /\ channel' = Append(channel, PersistCounter(cVal[c]))
  /\ UNCHANGED <<memory, flags, io, sled, workers, locals, process, ids,
                 history>>

Index(c) ==
  /\ \/ /\ cpc[c] = "pushIndex" /\ Goto(c, "pushItem")
        /\ guidIndex' = guidIndex \cup {cItem[c].job}
     \/ /\ cpc[c] = "batchAlloc" /\ cLeft[c] = 0 /\ Goto(c, "batchCount")
        /\ guidIndex' = guidIndex \cup JobsOf(Range(cBuf[c]))
  /\ UNCHANGED <<itemQueue, counter, removedGuids, results, flags, channel, io,
                 sled, workers, locals, process, ids, history>>

PushItem(c) ==
  /\ \/ /\ cpc[c] = "pushItem"
        /\ itemQueue' = Append(itemQueue, cItem[c])
        /\ accepted' = accepted \cup {cItem[c].job}
        /\ Return(c)
     \/ /\ cpc[c] = "batchItem" /\ cBuf[c] # << >>
        /\ itemQueue' = Append(itemQueue, Head(cBuf[c]))
        /\ accepted' = accepted \cup {Head(cBuf[c]).job}
        /\ cBuf' = [cBuf EXCEPT ![c] = Tail(@)]
        /\ UNCHANGED <<cpc, cItem, cLeft, cVal>>
     \/ /\ cpc[c] = "batchItem" /\ cBuf[c] = << >>
        /\ Return(c)
        /\ UNCHANGED <<itemQueue, accepted>>
  /\ UNCHANGED <<counter, guidIndex, removedGuids, results, flags, channel, io,
                 sled, workers, process, ids, finished, discarded, returned>>

-----------------------------------------------------------------------------
(* remove_by_guid knows the GUIDs of this process only, and only in memory.*)

RemoveUnindex(c) ==
  /\ CanCall(c, "remove")
  /\ \E j \in guidIndex \cap accepted :
       /\ guidIndex' = guidIndex \ {j}
       /\ cItem' = [cItem EXCEPT ![c] = [id |-> 0, job |-> j]]
  /\ Goto(c, "removeMark")
  /\ UNCHANGED <<itemQueue, counter, removedGuids, results, flags, channel, io,
                 sled, workers, cLeft, cVal, cBuf, process, ids, history>>

RemoveMark(c) ==
  /\ cpc[c] = "removeMark"
  /\ removedGuids' = removedGuids \cup {cItem[c].job}
  /\ removedCount' = removedCount + 1
  /\ Return(c)
  /\ UNCHANGED <<itemQueue, counter, guidIndex, resultQueue, flags, channel, io,
                 sled, workers, process, ids, history>>

(* clear removes what it pops from the database and flushes at the end.    *)

ClearBegin(c) ==
  /\ CanCall(c, "clear")
  /\ Goto(c, "clear")
  /\ UNCHANGED <<memory, flags, channel, io, sled, workers, locals, process,
                 ids, history>>

ClearPop(c) ==
  /\ cpc[c] = "clear" /\ itemQueue # << >>
  /\ itemQueue' = Tail(itemQueue)
  /\ cItem' = [cItem EXCEPT ![c] = Head(itemQueue)]
  /\ discarded' = discarded \cup {Head(itemQueue).job}
  /\ Goto(c, "clearDb")
  /\ UNCHANGED <<counter, guidIndex, removedGuids, results, flags, channel, io,
                 sled, workers, cLeft, cVal, cBuf, process, ids, accepted,
                 finished, returned>>

ClearDb(c) ==
  /\ cpc[c] = "clearDb"
  /\ Write([db EXCEPT !.items = Without(@, cItem[c].id)])
  /\ Goto(c, "clear")
  /\ UNCHANGED <<memory, flags, channel, io, workers, locals, process, ids,
                 history>>

ClearReturn(c) ==
  /\ cpc[c] = "clear" /\ itemQueue = << >>
  /\ recoverable' = {db}
  /\ Return(c)
  /\ UNCHANGED <<memory, flags, channel, io, db, workers, process, ids,
                 history>>

(* get, get_batch and get_blocking: each pop is counted, and the count is  *)
(* loaded and written to the database once, before the call returns.       *)

GetBegin(c) ==
  /\ \/ /\ CanCall(c, "get") /\ Goto(c, "get")
        /\ cLeft' = [cLeft EXCEPT ![c] = 1]
     \/ /\ CanCall(c, "get_blocking") /\ Goto(c, "getBlocking")
        /\ cLeft' = [cLeft EXCEPT ![c] = 1]
     \/ /\ CanCall(c, "get_batch") /\ Goto(c, "get")
        /\ \E n \in BatchSizes : cLeft' = [cLeft EXCEPT ![c] = n]
  /\ UNCHANGED <<memory, flags, channel, io, sled, workers, cItem, cVal, cBuf,
                 process, ids, history>>

GetPop(c) ==
  /\ cpc[c] \in {"get", "getBlocking"} /\ cLeft[c] > 0 /\ resultQueue # << >>
  /\ resultQueue' = Tail(resultQueue)
  /\ cBuf' = [cBuf EXCEPT ![c] = Append(@, Head(resultQueue))]
  /\ cLeft' = [cLeft EXCEPT ![c] = @ - 1]
  /\ Goto(c, "getCount")
  /\ UNCHANGED <<itemQueue, counter, guidIndex, removedGuids, removedCount,
                 flags, channel, io, sled, workers, cItem, cVal, process, ids,
                 history>>

GetCount(c) ==
  /\ cpc[c] = "getCount"
  /\ removedCount' = removedCount + 1
  /\ Goto(c, IF cLeft[c] > 0 THEN "get" ELSE "getLoad")
  /\ UNCHANGED <<itemQueue, counter, guidIndex, removedGuids, resultQueue,
                 flags, channel, io, sled, workers, locals, process, ids,
                 history>>

(* The results run out before the batch is full. *)
GetEnd(c) ==
  /\ cpc[c] = "get" /\ (resultQueue = << >> \/ cLeft[c] = 0)
  /\ IF cBuf[c] # << >> THEN Goto(c, "getLoad") /\ UNCHANGED locals
                        ELSE Return(c)
  /\ UNCHANGED <<memory, flags, channel, io, sled, workers, process, ids,
                 history>>

GetLoad(c) ==
  /\ cpc[c] = "getLoad"
  /\ cVal' = [cVal EXCEPT ![c] = removedCount]
  /\ Goto(c, "getSave")
  /\ UNCHANGED <<memory, flags, channel, io, sled, workers, cItem, cLeft, cBuf,
                 process, ids, history>>

(* Variant: writes the value before the increment, which fetch_add returns.*)
GetSaveOld(c) ==
  /\ cpc[c] = "getSave"
  /\ Write([db EXCEPT !.removed = cVal[c] - 1])
  /\ returned' = returned + Len(cBuf[c])
  /\ Return(c)
  /\ UNCHANGED <<memory, flags, channel, io, workers, process, ids, accepted,
                 finished, discarded>>

GetSave(c) ==
  /\ cpc[c] = "getSave"
  /\ Write([db EXCEPT !.removed = cVal[c]])
  /\ returned' = returned + Len(cBuf[c])
  /\ Return(c)
  /\ UNCHANGED <<memory, flags, channel, io, workers, process, ids, accepted,
                 finished, discarded>>

(* pending_items counts by taking every item out and putting it back.      *)

PendingBegin(c) ==
  /\ CanCall(c, "pending_items")
  /\ Goto(c, "pendPop")
  /\ UNCHANGED <<memory, flags, channel, io, sled, workers, locals, process,
                 ids, history>>

PendingPop(c) ==
  /\ cpc[c] = "pendPop"
  /\ IF itemQueue # << >>
     THEN /\ itemQueue' = Tail(itemQueue)
          /\ cBuf' = [cBuf EXCEPT ![c] = Append(@, Head(itemQueue))]
          /\ UNCHANGED cpc
     ELSE Goto(c, "pendPush") /\ UNCHANGED <<itemQueue, cBuf>>
  /\ UNCHANGED <<counter, guidIndex, removedGuids, results, flags, channel, io,
                 sled, workers, cItem, cLeft, cVal, process, ids, history>>

(* Variant: puts them back from the end of the list.                       *)
PendingPushBackwards(c) ==
  /\ cpc[c] = "pendPush"
  /\ LET n == Len(cBuf[c]) IN
       IF n > 0
       THEN /\ itemQueue' = Append(itemQueue, cBuf[c][n])
            /\ cBuf' = [cBuf EXCEPT ![c] = SubSeq(@, 1, n - 1)]
            /\ UNCHANGED <<cpc, cItem, cLeft, cVal>>
       ELSE Return(c) /\ UNCHANGED itemQueue
  /\ UNCHANGED <<counter, guidIndex, removedGuids, results, flags, channel, io,
                 sled, workers, process, ids, history>>

PendingPush(c) ==
  /\ cpc[c] = "pendPush"
  /\ IF cBuf[c] # << >>
     THEN /\ itemQueue' = Append(itemQueue, Head(cBuf[c]))
          /\ cBuf' = [cBuf EXCEPT ![c] = Tail(@)]
          /\ UNCHANGED <<cpc, cItem, cLeft, cVal>>
     ELSE Return(c) /\ UNCHANGED itemQueue
  /\ UNCHANGED <<counter, guidIndex, removedGuids, results, flags, channel, io,
                 sled, workers, process, ids, history>>

Close(c) ==
  /\ CanCall(c, "close")
  /\ isClosed' = TRUE
  /\ UNCHANGED <<memory, mode, workersStarted, returnsResults, channel, io,
                 sled, workers, cpc, locals, process, ids, history>>

SetMode(c) ==
  /\ CanCall(c, "set_mode")
  /\ mode' \in Modes
  /\ UNCHANGED <<memory, isClosed, workersStarted, returnsResults, channel, io,
                 sled, workers, cpc, locals, process, ids, history>>

(* start, start_with_results and the end of the queue's life need it       *)
(* exclusively.  A sequential pool has one worker, a parallel one as many  *)
(* as are asked for.                                                       *)
Start(c) ==
  /\ \/ CanCall(c, "start") /\ returnsResults' = FALSE
     \/ CanCall(c, "start_with_results") /\ returnsResults' = TRUE
  /\ \A d \in Callers : cpc[d] = "idle"
  /\ ~workersStarted
  /\ workersStarted' = TRUE
  /\ \E pool \in SUBSET Workers \ {{}} :
       /\ mode = "Sequential" => Cardinality(pool) = 1
       /\ wpc' = [w \in Workers |-> IF w \in pool THEN "pop" ELSE "none"]
  /\ UNCHANGED <<memory, mode, isClosed, channel, io, sled, wItem, cpc, locals,
                 process, ids, history>>

-----------------------------------------------------------------------------
(* The loop of a worker.  It removes the item from the database when it is *)
(* done with it, whether or not the I/O thread has inserted it by then.    *)

WorkerPop(w) ==
  /\ wpc[w] = "pop"
  /\ \/ /\ itemQueue # << >>
        /\ itemQueue' = Tail(itemQueue)
        /\ wItem' = [wItem EXCEPT ![w] = Head(itemQueue)]
        /\ WorkerGoto(w, "check")
     \/ /\ itemQueue = << >>
        /\ WorkerGoto(w, "empty")
        /\ UNCHANGED <<itemQueue, wItem>>
  /\ UNCHANGED <<counter, guidIndex, removedGuids, results, flags, channel, io,
                 sled, cpc, locals, process, ids, history>>

(* Variant: goes on with the item it does not have.                        *)
WorkerEmptyFallsThrough(w) ==
  /\ wpc[w] = "empty"
  /\ WorkerGoto(w, IF isClosed THEN "exit" ELSE "check")
  /\ UNCHANGED <<memory, flags, channel, io, sled, wItem, cpc, locals,
                 process, ids, history>>

WorkerEmpty(w) ==
  /\ wpc[w] = "empty"
  /\ WorkerGoto(w, IF isClosed THEN "exit" ELSE "pop")
  /\ UNCHANGED <<memory, flags, channel, io, sled, wItem, cpc, locals,
                 process, ids, history>>

(* Variant: takes the item out of the database before it is run.           *)
WorkerCheckUnstores(w) ==
  /\ wpc[w] = "check"
  /\ WorkerGoto(w, "run")
  /\ Write([db EXCEPT !.items = Without(@, wItem[w].id)])
  /\ UNCHANGED <<memory, flags, channel, io, wItem, cpc, locals, process,
                 ids, history>>

WorkerCheck(w) ==
  /\ wpc[w] = "check"
  /\ \/ /\ wItem[w].job \in removedGuids
        /\ discarded' = discarded \cup {wItem[w].job}
        /\ WorkerGoto(w, "unstore")
     \/ /\ wItem[w].job \notin removedGuids
        /\ WorkerGoto(w, "run")
        /\ UNCHANGED discarded
  /\ UNCHANGED <<memory, flags, channel, io, sled, wItem, cpc, locals,
                 process, ids, accepted, finished, returned>>

(* The callback ends.  What it returned, or the error it failed with, is   *)
(* posted if the pool returns results; the item is done with after that.   *)
WorkerRun(w) ==
  /\ wpc[w] = "run"
  /\ IF returnsResults
     THEN WorkerGoto(w, "post") /\ UNCHANGED finished
     ELSE WorkerGoto(w, "unstore") /\ finished' = finished \cup {wItem[w].job}
  /\ UNCHANGED <<memory, flags, channel, io, sled, wItem, cpc, locals,
                 process, ids, accepted, discarded, returned>>

WorkerPost(w) ==
  /\ wpc[w] = "post"
  /\ resultQueue' = Append(resultQueue, wItem[w])
  /\ finished' = finished \cup {wItem[w].job}
  /\ WorkerGoto(w, "unstore")
  /\ UNCHANGED <<itemQueue, counter, guidIndex, removedGuids, removedCount,
                 flags, channel, io, sled, wItem, cpc, locals, process, ids,
                 accepted, discarded, returned>>

WorkerUnstore(w) ==
  /\ wpc[w] = "unstore"
  /\ Write([db EXCEPT !.items = Without(@, wItem[w].id)])
  /\ wItem' = [wItem EXCEPT ![w] = NoItem]
  /\ WorkerGoto(w, "pop")
  /\ UNCHANGED <<memory, flags, channel, io, cpc, locals, process, ids,
                 history>>

-----------------------------------------------------------------------------
(* io_worker.  It collects inserts and the last counter value, and writes  *)
(* them out, one write after the other and a flush, when nothing came for  *)
(* 10 ms or when it is told to stop.                                       *)

(* Variant: the batch is written in reverse order.                         *)
IoReceiveReversed ==
  /\ ioPc = "recv" /\ channel # << >>
  /\ channel' = Tail(channel)
  /\ LET msg == Head(channel) IN
       /\ pending' = IF msg.op = "insert" THEN <<msg.item>> \o pending
                                         ELSE pending
       /\ counterVal' = IF msg.op = "counter" THEN msg.val ELSE counterVal
       /\ ioPc' = IF msg.op = "shutdown" THEN "write" ELSE "recv"
       /\ ioStop' = (msg.op = "shutdown")
  /\ UNCHANGED <<memory, flags, sled, workers, cpc, locals, process, ids,
                 history>>

IoReceive ==
  /\ ioPc = "recv" /\ channel # << >>
  /\ channel' = Tail(channel)
  /\ LET msg == Head(channel) IN
       /\ pending' = IF msg.op = "insert" THEN Append(pending, msg.item)
                                         ELSE pending
       /\ counterVal' = IF msg.op = "counter" THEN msg.val ELSE counterVal
       /\ ioPc' = IF msg.op = "shutdown" THEN "write" ELSE "recv"
       /\ ioStop' = (msg.op = "shutdown")
  /\ UNCHANGED <<memory, flags, sled, workers, cpc, locals, process, ids,
                 history>>

IoTimeout ==
  /\ ioPc = "recv" /\ channel = << >> /\ phase # "down"
  /\ ioPc' = "write"
  /\ UNCHANGED <<memory, flags, channel, pending, counterVal, ioStop, sled,
                 workers, cpc, locals, process, ids, history>>

IoWriteItem ==
  /\ ioPc = "write" /\ pending # << >>
  /\ Write([db EXCEPT !.items =
                        Without(@, Head(pending).id) \cup {Head(pending)}])
  /\ pending' = Tail(pending)
  /\ UNCHANGED <<memory, flags, channel, counterVal, ioPc, ioStop, workers,
                 cpc, locals, process, ids, history>>

(* Variant: the counter is left for the next flush when told to stop.      *)
IoWriteCounterUnlessStopped ==
  /\ ioPc = "write" /\ pending = << >> /\ counterVal # 0
  /\ IF ioStop THEN UNCHANGED sled ELSE Write([db EXCEPT !.counter = counterVal])
  /\ counterVal' = 0
  /\ UNCHANGED <<memory, flags, channel, pending, ioPc, ioStop, workers, cpc,
                 locals, process, ids, history>>

IoWriteCounter ==
  /\ ioPc = "write" /\ pending = << >> /\ counterVal # 0
  /\ Write([db EXCEPT !.counter = counterVal])
  /\ counterVal' = 0
  /\ UNCHANGED <<memory, flags, channel, pending, ioPc, ioStop, workers, cpc,
                 locals, process, ids, history>>

(* Variant: the last flush drops the inserts that are still pending.       *)
IoFlushEarly ==
  /\ ioPc = "write" /\ (ioStop \/ (pending = << >> /\ counterVal = 0))
  /\ recoverable' = {db}
  /\ pending' = << >> /\ counterVal' = 0
  /\ ioPc' = IF ioStop THEN "exit" ELSE "recv"
  /\ phase' = IF ioStop THEN "dropped" ELSE phase
  /\ UNCHANGED <<memory, flags, channel, ioStop, db, workers, cpc, locals,
                 workload, lives, crashes, ids, history>>

(* After the last flush the thread ends, which drop waits for.             *)
IoFlush ==
  /\ ioPc = "write" /\ pending = << >> /\ counterVal = 0
  /\ recoverable' = {db}
  /\ ioPc' = IF ioStop THEN "exit" ELSE "recv"
  /\ phase' = IF ioStop THEN "dropped" ELSE phase
  /\ UNCHANGED <<memory, flags, channel, pending, counterVal, ioStop, db,
                 workers, cpc, locals, workload, lives, crashes, ids, history>>

-----------------------------------------------------------------------------
(* The life of the process.                                                *)

Drop ==
  /\ phase = "up" /\ \A c \in Callers : cpc[c] = "idle"
  /\ channel' = Append(channel, Shutdown)
  /\ phase' = "dropping"
  /\ UNCHANGED <<memory, flags, io, sled, workers, cpc, locals, workload,
                 lives, crashes, ids, history>>

(* The process ends, after drop or at any other time, with the workers     *)
(* wherever they are.  Nothing but the database outlives it.               *)
End ==
  /\ phase # "down"
  /\ \/ phase = "dropped" /\ UNCHANGED crashes
     \/ phase # "dropped" /\ crashes < MaxCrashes /\ crashes' = crashes + 1
  /\ phase' = "down"
  /\ \E left \in recoverable : db' = left /\ recoverable' = {left}
  /\ FreshMemory
  /\ returned' = db'.removed
  /\ UNCHANGED <<workload, lives, ids, accepted, finished, discarded>>

(* The byte order of the keys, which are decimal numerals.                 *)
KeyBefore(m, n) ==
  LET padded(id) == IF id < 10 THEN 10 * id ELSE id
  IN \/ padded(m) < padded(n)
     \/ padded(m) = padded(n) /\ m < n

(* new and restore_from_disk: the items come back in the order of their    *)
(* keys, under GUIDs nobody else has seen.  (The counts of processed items *)
(* and errors are read from keys that nothing writes.)                     *)
Open ==
  /\ phase = "down" /\ lives < MaxLives
  /\ phase' = "up" /\ lives' = lives + 1
  /\ counter' = db.counter /\ removedCount' = db.removed
  /\ \E q \in [1 .. Cardinality(db.items) -> db.items] :
       /\ \A m, n \in DOMAIN q : m < n => KeyBefore(q[m].id, q[n].id)
       /\ itemQueue' = q
  /\ UNCHANGED <<guidIndex, removedGuids, resultQueue, flags, channel, io,
                 sled, workers, cpc, locals, workload, crashes, ids, history>>

-----------------------------------------------------------------------------
CallerStep(c) ==
  \/ PushBegin(c) \/ Allocate(c) \/ SendInsert(c) \/ LoadCounter(c)
  \/ SendCounter(c) \/ Index(c) \/ PushItem(c)
  \/ RemoveUnindex(c) \/ RemoveMark(c)
  \/ ClearBegin(c) \/ ClearPop(c) \/ ClearDb(c) \/ ClearReturn(c)
  \/ GetBegin(c) \/ GetPop(c) \/ GetCount(c) \/ GetEnd(c) \/ GetLoad(c)
  \/ GetSave(c)
  \/ PendingBegin(c) \/ PendingPop(c) \/ PendingPush(c)
  \/ Close(c) \/ SetMode(c) \/ Start(c)

WorkerStep(w) ==
  \/ WorkerPop(w) \/ WorkerEmpty(w) \/ WorkerCheck(w) \/ WorkerRun(w)
  \/ WorkerPost(w) \/ WorkerUnstore(w)

IoStep ==
  \/ IoReceive \/ IoTimeout \/ IoWriteItem \/ IoWriteCounter \/ IoFlush

Next ==
  \/ \E c \in Callers : CallerStep(c)
  \/ \E w \in Workers : WorkerStep(w)
  \/ IoStep \/ Drop \/ End \/ Open

Spec == Init /\ [][Next]_vars

-----------------------------------------------------------------------------
Items == [id : Nat, job : Nat]
Messages ==
  [op : {"insert", "counter", "shutdown"}, item : Items, val : Nat]
Contents == [items : SUBSET Items, counter : Nat, removed : Nat]

TypeMemory ==
  /\ itemQueue \in Seq(Items) /\ counter \in Nat
  /\ guidIndex \subseteq Nat /\ removedGuids \subseteq Nat
  /\ resultQueue \in Seq(Items) /\ removedCount \in Nat
  /\ mode \in Modes /\ isClosed \in BOOLEAN
  /\ workersStarted \in BOOLEAN /\ returnsResults \in BOOLEAN

(* The database has one item under an id. *)
TypeIo ==
  /\ channel \in Seq(Messages)
  /\ pending \in Seq(Items) /\ counterVal \in Nat
  /\ ioPc \in {"recv", "write", "exit"} /\ ioStop \in BOOLEAN
  /\ db \in recoverable /\ recoverable \subseteq Contents
  /\ \A d \in recoverable :
       /\ IsFiniteSet(d.items)
       /\ \A i, k \in d.items : i.id = k.id => i = k

TypeThreads ==
  /\ wpc \in [Workers -> WorkerPlaces] /\ wItem \in [Workers -> Items]
  /\ cpc \in [Callers -> CallerPlaces] /\ cItem \in [Callers -> Items]
  /\ cLeft \in [Callers -> Nat] /\ cVal \in [Callers -> Nat]
  /\ cBuf \in [Callers -> Seq(Items)]
  /\ workload \in Workloads
  /\ phase \in {"up", "dropping", "dropped", "down"}
  /\ lives \in 1 .. MaxLives /\ crashes \in 0 .. MaxCrashes

TypeHistory ==
  /\ jobs \in 0 .. MaxJobs
  /\ accepted \cup finished \cup discarded \subseteq 1 .. jobs
  /\ returned \in Nat
  /\ issued \subseteq Nat /\ reissued \subseteq issued

TypeOK == TypeMemory /\ TypeIo /\ TypeThreads /\ TypeHistory

(* Accepted work that is still to be done. *)
Owed == accepted \ (finished \cup discarded)

(* The counter that restart restores covers every id of the past, so that  *)
(* no id, and no database key, is ever issued twice, as long as every life *)
(* ends with the queue dropped in order.                                   *)
IdsNeverReissuedInOrder == crashes = 0 => reissued = {}

(* Dropping the queue loses nothing: once drop has returned, all work that *)
(* is owed is in the database, whenever the process then ends and wherever *)
(* its workers are, unless an earlier life ended without dropping it.      *)
ShutdownKeepsOwed ==
  phase = "dropped" /\ crashes = 0 =>
    \A d \in recoverable : Owed \subseteq JobsOf(d.items)

(* What a crash loses is the most recent work: if a crash would keep a job *)
(* that is owed, it would keep every earlier one that is owed.             *)
PrefixDurable ==
  reissued = {} =>
    \A d \in recoverable : \A j, k \in Owed :
      j < k /\ k \in JobsOf(d.items) => j \in JobsOf(d.items)

(* Work that reached the disk stays there until it is done, cleared or     *)
(* skipped, through crashes and restarts.                                  *)
OnDisk(j) == \A d \in recoverable : j \in JobsOf(d.items)
DurableStays ==
  [][\A j \in Owed :
       OnDisk(j) => OnDisk(j)' \/ j \notin Owed' \/ reissued' # {}]_vars

(* PERSISTENCE_OPTIMIZATION_GUIDE.md: "FIFO ordering preserved (items      *)
(* pushed in order, within and across batches)".  With one caller, pushes, *)
(* pending_items and restarts keep items waiting in the order they were    *)
(* pushed in, but restarts only as long as all ids have equally many       *)
(* digits.                                                                 *)
FifoKept ==
  reissued = {} =>
    \A m, n \in DOMAIN itemQueue : m < n => itemQueue[m].job < itemQueue[n].job

(* Once drop has returned, the database counts every result that gets of   *)
(* this life returned, on top of what it counted when the life began: the  *)
(* count is written after the increments it is to cover.                   *)
DeliveredCounted ==
  phase = "dropped" => \A d \in recoverable : returned <= d.removed

-----------------------------------------------------------------------------
(* What the documentation says of the program and the code does not do.    *)

(* PERSISTENCE_OPTIMIZATION_GUIDE.md: "Counter durability: Monotonically   *)
(* increasing IDs", however the process ends.                              *)
IdsNeverReissued == reissued = {}

(* README.md: "On restart: queue automatically recovers unprocessed        *)
(* items": what comes back in a new process was not finished in an earlier *)
(* one that ended in order.                                                *)
RecoversUnprocessedOnly ==
  [][phase = "down" /\ phase' = "up" /\ crashes = 0 =>
       JobsOf(Range(itemQueue')) \cap finished = {}]_vars
=============================================================================
