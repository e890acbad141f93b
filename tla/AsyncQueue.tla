----------------------------- MODULE AsyncQueue -----------------------------
(***************************************************************************)
(* The in-memory queue of src/src/queue.rs, one action per access to state *)
(* that threads share: an atomic load or update, a pop from or a push to a *)
(* SegQueue, a critical section under a Mutex.  Callers are the threads    *)
(* that call the methods of the queue, workers the threads that start()    *)
(* or start_with_results() spawns.                                         *)
(*                                                                         *)
(* An item is its id.  The GUID that push returns stands for the id, since *)
(* both are issued once per item, and payloads are left out.               *)
(***************************************************************************)
EXTENDS Integers, Sequences, FiniteSets, Functions

CONSTANTS
  Callers,     \* threads that call the methods of one queue
  CpuCores,    \* num_cpus::get()
  Modes,       \* execution modes the constructor and set_mode are called with
  Requests,    \* values callers pass as num_workers
  BatchSizes,  \* lengths of the batches callers push
  GetSizes,    \* numbers of results callers ask get_batch for
  MaxItems,    \* bound: no push begins that would issue an id above it
  Ops,         \* the methods callers use, by name
  Gil          \* TRUE: a Python interpreter with a global interpreter lock

ASSUME CallersAssumption == IsFiniteSet(Callers)
ASSUME CpuAssumption == CpuCores \in Nat \ {0}
ASSUME ModeAssumption == Modes \subseteq {"Sequential", "Parallel"}
ASSUME SizeAssumption ==
  Requests \subseteq Nat /\ BatchSizes \subseteq Nat /\ GetSizes \subseteq Nat
ASSUME BoundAssumption == MaxItems \in Nat
ASSUME GilAssumption == Gil \in BOOLEAN

(* optimize_worker_count never grants more threads than these. *)
MaxWorkers == IF CpuCores > 1 THEN CpuCores - 1 ELSE 1
Workers == 1 .. MaxWorkers

VARIABLES
  itemQueue, resultQueue,          \* the two lock-free FIFO queues
  counter,                         \* items pushed, the last id issued
  activeWorkers, processedCount, errorCount, removedCount,
  mode, isClosed, workersStarted,
  returnsResults,                  \* which start function spawned the pool
  startedMode,                     \* the mode it was spawned in, or "none"
  guidIndex, removedGuids,         \* the two mutex-protected GUID sets
  wpc, wItem, wErr,                \* per worker: place, item, callback failed
  cpc, cId, cLeft, cBuf,           \* per caller: place and local variables
  (* History, read by no guard except that a caller only names GUIDs that  *)
  (* a push returned to some caller.                                       *)
  accepted,                        \* ids whose push returned
  ran,                             \* ids in the order their callbacks began
  dropped,                         \* ids discarded without a callback
  cancelled,                       \* ids removed before a worker decided
  delivered                        \* results handed to callers

queues   == <<itemQueue, resultQueue>>
tallies  == <<activeWorkers, processedCount, errorCount>>
counters == <<counter, tallies, removedCount>>
settings == <<mode, isClosed, workersStarted, returnsResults, startedMode>>
guids    == <<guidIndex, removedGuids>>
workers  == <<wpc, wItem, wErr>>
locals   == <<cId, cLeft, cBuf>>
callers  == <<cpc, locals>>
history  == <<accepted, ran, dropped, cancelled, delivered>>
vars == <<queues, counters, settings, guids, workers, callers, history>>

CallerPlaces ==
  {"idle", "pushAlloc", "pushIndex", "pushItem", "batchAlloc", "batchItem",
   "removeMark", "get", "getBlocking", "getCount", "clear", "pendPop",
   "pendPush"}

(* A worker at one of these places has passed the removed-GUID check and   *)
(* will run, or has run, the callback for the item it holds.               *)
Committed == {"enter", "call", "running", "push", "err", "count", "leave"}
WorkerPlaces == {"none", "pop", "empty", "check", "exit"} \cup Committed

-----------------------------------------------------------------------------
(* Where an item can be.                                                   *)

Queued == Range(itemQueue)

(* temp_items of pending_items *)
Draining(c) == IF cpc[c] \in {"pendPop", "pendPush"} THEN cBuf[c] ELSE << >>

(* Items a call holds: the one being pushed, or those being counted.       *)
InHand(c) ==
  (IF cpc[c] \in {"pushIndex", "pushItem", "batchItem"} THEN {cId[c]} ELSE {})
    \cup Range(Draining(c))

InWork(w) ==
  IF wpc[w] = "check" \/ wpc[w] \in Committed THEN {wItem[w]} ELSE {}

(* A worker that holds an item whose callback has not begun. *)
Unstarted(w) == wpc[w] \in {"check", "enter", "call"}

At(places) == {w \in Workers : wpc[w] \in places}

Running == UNION {InWork(w) : w \in At(Committed)}
Waiting == Queued \cup (UNION {InHand(c) : c \in Callers})
                  \cup (UNION {InWork(w) : w \in At({"check"})})
Done == Range(ran) \ Running

-----------------------------------------------------------------------------
Init ==
  /\ itemQueue = << >> /\ resultQueue = << >>
  /\ counter = 0 /\ activeWorkers = 0 /\ processedCount = 0
  /\ errorCount = 0 /\ removedCount = 0
  /\ mode \in Modes
  /\ isClosed = FALSE /\ workersStarted = FALSE /\ returnsResults = FALSE
  /\ startedMode = "none"
  /\ guidIndex = {} /\ removedGuids = {}
  /\ wpc = [w \in Workers |-> "none"]
  /\ wItem = [w \in Workers |-> 0]
  /\ wErr = [w \in Workers |-> FALSE]
  /\ cpc = [c \in Callers |-> "idle"]
  /\ cId = [c \in Callers |-> 0]
  /\ cLeft = [c \in Callers |-> 0]
  /\ cBuf = [c \in Callers |-> << >>]
  /\ accepted = {} /\ ran = << >> /\ dropped = {} /\ cancelled = {}
  /\ delivered = {}

(* The methods of the Python classes keep the interpreter lock from entry  *)
(* to return, and a callback needs it to begin and to end.                 *)
GilFree == Gil => \A c \in Callers : cpc[c] = "idle"

CanCall(c, op) == op \in Ops /\ cpc[c] = "idle" /\ GilFree
Goto(c, place) == cpc' = [cpc EXCEPT ![c] = place]
WorkerGoto(w, place) == wpc' = [wpc EXCEPT ![w] = place]

(* Back to the caller, whose local variables cease to exist. *)
Return(c) ==
  /\ Goto(c, "idle")
  /\ cId' = [cId EXCEPT ![c] = 0]
  /\ cLeft' = [cLeft EXCEPT ![c] = 0]
  /\ cBuf' = [cBuf EXCEPT ![c] = << >>]

-----------------------------------------------------------------------------
(* push: closed check, id, GUID index, queue.                              *)

PushBegin(c) ==
  /\ CanCall(c, "push") /\ ~isClosed
  /\ counter < MaxItems
  /\ Goto(c, "pushAlloc")
  /\ UNCHANGED <<queues, counters, settings, guids, workers, locals, history>>

(* Variant: the id is loaded and stored, so that two calls may share one.  *)
PushAllocByLoad(c) ==
  /\ cpc[c] = "pushAlloc"
  /\ \E seen \in {counter} \cup
       {cId[d] - 1 : d \in {e \in Callers : cpc[e] = "pushIndex"}} :
       /\ counter' = seen + 1
       /\ cId' = [cId EXCEPT ![c] = seen + 1]
  /\ Goto(c, "pushIndex")
  /\ UNCHANGED <<queues, tallies, removedCount, settings, guids, workers,
                 cLeft, cBuf, history>>

PushAlloc(c) ==
  /\ cpc[c] = "pushAlloc"
  /\ counter' = counter + 1
  /\ cId' = [cId EXCEPT ![c] = counter + 1]
  /\ Goto(c, "pushIndex")
  /\ UNCHANGED <<queues, tallies, removedCount, settings, guids, workers,
                 cLeft, cBuf, history>>

PushIndex(c) ==
  /\ cpc[c] = "pushIndex"
  /\ guidIndex' = guidIndex \cup {cId[c]}
  /\ Goto(c, "pushItem")
  /\ UNCHANGED <<queues, counters, settings, removedGuids, workers, locals,
                 history>>

PushItem(c) ==
  /\ cpc[c] = "pushItem"
  /\ itemQueue' = Append(itemQueue, cId[c])
  /\ accepted' = accepted \cup {cId[c]}
  /\ Return(c)
  /\ UNCHANGED <<resultQueue, counters, settings, guids, workers, ran, dropped,
                 cancelled, delivered>>

(* push_batch: every item is published as soon as it has an id, and the    *)
(* GUIDs of the whole batch are indexed in one critical section at the end.*)

BatchBegin(c) ==
  /\ CanCall(c, "push_batch") /\ ~isClosed
  /\ \E n \in BatchSizes :
       /\ counter + n <= MaxItems
       /\ cLeft' = [cLeft EXCEPT ![c] = n]
  /\ Goto(c, "batchAlloc")
  /\ UNCHANGED <<queues, counters, settings, guids, workers, cId, cBuf,
                 history>>

BatchAlloc(c) ==
  /\ cpc[c] = "batchAlloc" /\ cLeft[c] > 0
  /\ counter' = counter + 1
  /\ cId' = [cId EXCEPT ![c] = counter + 1]
  /\ cLeft' = [cLeft EXCEPT ![c] = @ - 1]
  /\ Goto(c, "batchItem")
  /\ UNCHANGED <<queues, tallies, removedCount, settings, guids, workers, cBuf,
                 history>>

BatchItem(c) ==
  /\ cpc[c] = "batchItem"
  /\ itemQueue' = Append(itemQueue, cId[c])
  /\ cBuf' = [cBuf EXCEPT ![c] = Append(@, cId[c])]
  /\ Goto(c, "batchAlloc")
  /\ UNCHANGED <<resultQueue, counters, settings, guids, workers, cId, cLeft,
                 history>>

BatchIndex(c) ==
  /\ cpc[c] = "batchAlloc" /\ cLeft[c] = 0
  /\ guidIndex' = guidIndex \cup Range(cBuf[c])
  /\ accepted' = accepted \cup Range(cBuf[c])
  /\ Return(c)
  /\ UNCHANGED <<queues, counters, settings, removedGuids, workers, ran,
                 dropped, cancelled, delivered>>

-----------------------------------------------------------------------------
(* remove_by_guid: two critical sections, the index first.  An unknown     *)
(* GUID changes nothing and returns false.                                 *)

(* Variant: looks the GUID up and leaves it in the index.                  *)
RemoveLookup(c) ==
  /\ CanCall(c, "remove")
  /\ \E i \in guidIndex \cap accepted : cId' = [cId EXCEPT ![c] = i]
  /\ Goto(c, "removeMark")
  /\ UNCHANGED <<queues, counters, settings, guids, workers, cLeft, cBuf,
                 history>>

RemoveUnindex(c) ==
  /\ CanCall(c, "remove")
  /\ \E i \in guidIndex \cap accepted :
       /\ guidIndex' = guidIndex \ {i}
       /\ cId' = [cId EXCEPT ![c] = i]
  /\ Goto(c, "removeMark")
  /\ UNCHANGED <<queues, counters, settings, removedGuids, workers, cLeft,
                 cBuf, history>>

(* Variant: counts the removal and forgets to mark the GUID.               *)
RemoveCountOnly(c) ==
  /\ cpc[c] = "removeMark"
  /\ removedCount' = removedCount + 1
  /\ cancelled' = cancelled \cup ({cId[c]} \cap Waiting)
  /\ Return(c)
  /\ UNCHANGED <<queues, counter, tallies, settings, guids, workers, accepted,
                 ran, dropped, delivered>>

(* The counter is updated before the lock is released, so the insertion    *)
(* and the increment are one step; the call returns true.                  *)
RemoveMark(c) ==
  /\ cpc[c] = "removeMark"
  /\ removedGuids' = removedGuids \cup {cId[c]}
  /\ removedCount' = removedCount + 1
  /\ cancelled' = cancelled \cup ({cId[c]} \cap Waiting)
  /\ Return(c)
  /\ UNCHANGED <<queues, counter, tallies, settings, guidIndex, workers,
                 accepted, ran, dropped, delivered>>

-----------------------------------------------------------------------------
(* get and get_batch: at most n pops, each counted after it was made; get  *)
(* is the batch of one.                                                    *)

GetBegin(c) ==
  /\ \/ CanCall(c, "get") /\ cLeft' = [cLeft EXCEPT ![c] = 1]
     \/ /\ CanCall(c, "get_batch")
        /\ \E n \in GetSizes : cLeft' = [cLeft EXCEPT ![c] = n]
  /\ Goto(c, "get")
  /\ UNCHANGED <<queues, counters, settings, guids, workers, cId, cBuf,
                 history>>

PopResult(c) ==
  /\ resultQueue # << >>
  /\ resultQueue' = Tail(resultQueue)
  /\ delivered' = delivered \cup {Head(resultQueue)}
  /\ Goto(c, "getCount")
  /\ UNCHANGED <<itemQueue, counters, settings, guids, workers, cId, cBuf,
                 accepted, ran, dropped, cancelled>>

GetPop(c) ==
  /\ cpc[c] = "get" /\ cLeft[c] > 0
  /\ cLeft' = [cLeft EXCEPT ![c] = @ - 1]
  /\ PopResult(c)

GetReturn(c) ==
  /\ cpc[c] = "get" /\ (cLeft[c] = 0 \/ resultQueue = << >>)
  /\ Return(c)
  /\ UNCHANGED <<queues, counters, settings, guids, workers, history>>

(* Variant: a call counts once, however many results it took.             *)
GetCountOnce(c) ==
  /\ cpc[c] = "getCount"
  /\ removedCount' = removedCount + (IF cLeft[c] = 0 THEN 1 ELSE 0)
  /\ IF cLeft[c] = 0 THEN Return(c)
                     ELSE Goto(c, "get") /\ UNCHANGED <<locals>>
  /\ UNCHANGED <<queues, counter, tallies, settings, guids, workers, history>>

GetCount(c) ==
  /\ cpc[c] = "getCount"
  /\ removedCount' = removedCount + 1
  /\ IF cLeft[c] = 0 THEN Return(c)
                     ELSE Goto(c, "get") /\ UNCHANGED <<locals>>
  /\ UNCHANGED <<queues, counter, tallies, settings, guids, workers, history>>

(* get_blocking polls until a pop succeeds; a failed poll changes nothing. *)

GetBlockingBegin(c) ==
  /\ CanCall(c, "get_blocking")
  /\ Goto(c, "getBlocking")
  /\ UNCHANGED <<queues, counters, settings, guids, workers, locals, history>>

GetBlockingPop(c) ==
  /\ cpc[c] = "getBlocking"
  /\ PopResult(c)
  /\ UNCHANGED cLeft

-----------------------------------------------------------------------------
(* clear pops and discards until the queue is empty; it leaves the index   *)
(* alone.                                                                  *)

ClearBegin(c) ==
  /\ CanCall(c, "clear")
  /\ Goto(c, "clear")
  /\ UNCHANGED <<queues, counters, settings, guids, workers, locals, history>>

ClearPop(c) ==
  /\ cpc[c] = "clear" /\ itemQueue # << >>
  /\ itemQueue' = Tail(itemQueue)
  /\ dropped' = dropped \cup {Head(itemQueue)}
  /\ UNCHANGED <<resultQueue, counters, settings, guids, workers, callers,
                 accepted, ran, cancelled, delivered>>

ClearReturn(c) ==
  /\ cpc[c] = "clear" /\ itemQueue = << >>
  /\ Return(c)
  /\ UNCHANGED <<queues, counters, settings, guids, workers, history>>

(* pending_items counts by taking every item out and putting it back.      *)

PendingBegin(c) ==
  /\ CanCall(c, "pending_items")
  /\ Goto(c, "pendPop")
  /\ UNCHANGED <<queues, counters, settings, guids, workers, locals, history>>

PendingPop(c) ==
  /\ cpc[c] = "pendPop"
  /\ \/ /\ itemQueue # << >>
        /\ itemQueue' = Tail(itemQueue)
        /\ cBuf' = [cBuf EXCEPT ![c] = Append(@, Head(itemQueue))]
        /\ UNCHANGED cpc
     \/ /\ itemQueue = << >>
        /\ Goto(c, "pendPush")
        /\ UNCHANGED <<itemQueue, cBuf>>
  /\ UNCHANGED <<resultQueue, counters, settings, guids, workers, cId, cLeft,
                 history>>

(* Variant: leaves out the items whose GUID was removed meanwhile.         *)
PendingPushActive(c) ==
  /\ cpc[c] = "pendPush"
  /\ \/ /\ cBuf[c] # << >>
        /\ itemQueue' = IF Head(cBuf[c]) \in removedGuids THEN itemQueue
                        ELSE Append(itemQueue, Head(cBuf[c]))
        /\ cBuf' = [cBuf EXCEPT ![c] = Tail(@)]
        /\ UNCHANGED <<cpc, cId, cLeft>>
     \/ /\ cBuf[c] = << >>
        /\ Return(c)
        /\ UNCHANGED itemQueue
  /\ UNCHANGED <<resultQueue, counters, settings, guids, workers, history>>

PendingPush(c) ==
  /\ cpc[c] = "pendPush"
  /\ \/ /\ cBuf[c] # << >>
        /\ itemQueue' = Append(itemQueue, Head(cBuf[c]))
        /\ cBuf' = [cBuf EXCEPT ![c] = Tail(@)]
        /\ UNCHANGED <<cpc, cId, cLeft>>
     \/ /\ cBuf[c] = << >>
        /\ Return(c)
        /\ UNCHANGED itemQueue
  /\ UNCHANGED <<resultQueue, counters, settings, guids, workers, history>>

-----------------------------------------------------------------------------
Close(c) ==
  /\ CanCall(c, "close")
  /\ isClosed' = TRUE
  /\ UNCHANGED <<queues, counters, mode, workersStarted, returnsResults,
                 startedMode, guids, workers, callers, history>>

SetMode(c) ==
  /\ CanCall(c, "set_mode")
  /\ mode' \in Modes
  /\ UNCHANGED <<queues, counters, isClosed, workersStarted, returnsResults,
                 startedMode, guids, workers, callers, history>>

(* Variant: the mode is ignored. *)
PoolSizeAnyMode(requested) ==
  IF requested < MaxWorkers THEN requested ELSE MaxWorkers

PoolSize(requested) ==
  IF mode = "Sequential" THEN 1
  ELSE IF requested < MaxWorkers THEN requested ELSE MaxWorkers

(* start and start_with_results borrow the queue exclusively, so no other  *)
(* call is in progress.  Only the first one spawns a pool, of the size and *)
(* kind fixed at that moment; a later one changes nothing and fails.       *)
Start(c) ==
  /\ \/ CanCall(c, "start") /\ returnsResults' = FALSE
     \/ CanCall(c, "start_with_results") /\ returnsResults' = TRUE
  /\ \A d \in Callers : cpc[d] = "idle"
  /\ ~workersStarted
  /\ workersStarted' = TRUE /\ startedMode' = mode
  /\ \E n \in Requests :
       wpc' = [w \in Workers |-> IF w <= PoolSize(n) THEN "pop" ELSE wpc[w]]
  /\ UNCHANGED <<queues, counters, mode, isClosed, guids, wItem, wErr, callers,
                 history>>

-----------------------------------------------------------------------------
(* The loop of a worker thread; the four spawn functions contain it.       *)

(* Variant: looks at the closed flag first, whatever is in the queue.      *)
WorkerPopUnlessClosed(w) ==
  /\ wpc[w] = "pop"
  /\ \/ /\ itemQueue # << >> /\ ~isClosed
        /\ itemQueue' = Tail(itemQueue)
        /\ wItem' = [wItem EXCEPT ![w] = Head(itemQueue)]
        /\ WorkerGoto(w, "check")
     \/ /\ itemQueue = << >> \/ isClosed
        /\ WorkerGoto(w, "empty")
        /\ UNCHANGED <<itemQueue, wItem>>
  /\ UNCHANGED <<resultQueue, counters, settings, guids, wErr, callers,
                 history>>

WorkerPop(w) ==
  /\ wpc[w] = "pop"
  /\ \/ /\ itemQueue # << >>
        /\ itemQueue' = Tail(itemQueue)
        /\ wItem' = [wItem EXCEPT ![w] = Head(itemQueue)]
        /\ WorkerGoto(w, "check")
     \/ /\ itemQueue = << >>
        /\ WorkerGoto(w, "empty")
        /\ UNCHANGED <<itemQueue, wItem>>
  /\ UNCHANGED <<resultQueue, counters, settings, guids, wErr, callers,
                 history>>

(* Variant: an empty queue ends the worker even when it is open.           *)
WorkerEmptyLeaves(w) ==
  /\ wpc[w] = "empty"
  /\ WorkerGoto(w, "exit")
  /\ UNCHANGED <<queues, counters, settings, guids, wItem, wErr, callers,
                 history>>

(* After a failed pop: leave if the queue is closed, else sleep and retry. *)
WorkerEmpty(w) ==
  /\ wpc[w] = "empty"
  /\ WorkerGoto(w, IF isClosed THEN "exit" ELSE "pop")
  /\ UNCHANGED <<queues, counters, settings, guids, wItem, wErr, callers,
                 history>>

(* Variant: removed GUIDs are not looked up.                               *)
WorkerUnchecked(w) ==
  /\ wpc[w] = "check"
  /\ WorkerGoto(w, "enter")
  /\ UNCHANGED <<queues, counters, settings, guids, wItem, wErr, callers,
                 history>>

WorkerCheck(w) ==
  /\ wpc[w] = "check"
  /\ \/ /\ wItem[w] \in removedGuids
        /\ dropped' = dropped \cup {wItem[w]}
        /\ WorkerGoto(w, "pop")
        /\ wItem' = [wItem EXCEPT ![w] = 0]
     \/ /\ wItem[w] \notin removedGuids
        /\ WorkerGoto(w, "enter")
        /\ UNCHANGED <<wItem, dropped>>
  /\ UNCHANGED <<queues, counters, settings, guids, wErr, callers, accepted,
                 ran, cancelled, delivered>>

(* Variant: the worker is not counted as active.                           *)
WorkerEnterUncounted(w) ==
  /\ wpc[w] = "enter"
  /\ WorkerGoto(w, "call")
  /\ UNCHANGED <<queues, counters, settings, guids, wItem, wErr, callers,
                 history>>

WorkerEnter(w) ==
  /\ wpc[w] = "enter"
  /\ activeWorkers' = activeWorkers + 1
  /\ WorkerGoto(w, "call")
  /\ UNCHANGED <<queues, counter, processedCount, errorCount, removedCount,
                 settings, guids, wItem, wErr, callers, history>>

(* The callback, through the closures of src/src/lib.rs: it waits for the  *)
(* interpreter lock, may give it up while it runs, and ends holding it.    *)
WorkerCall(w) ==
  /\ wpc[w] = "call" /\ GilFree
  /\ ran' = Append(ran, wItem[w])
  /\ WorkerGoto(w, "running")
  /\ UNCHANGED <<queues, counters, settings, guids, wItem, wErr, callers,
                 accepted, dropped, cancelled, delivered>>

(* A fire-and-forget callback cannot fail: its closure swallows errors.    *)
WorkerReturn(w) ==
  /\ wpc[w] = "running" /\ GilFree
  /\ \/ /\ returnsResults
        /\ \E failed \in BOOLEAN : wErr' = [wErr EXCEPT ![w] = failed]
        /\ WorkerGoto(w, "push")
     \/ /\ ~returnsResults
        /\ WorkerGoto(w, "count")
        /\ UNCHANGED wErr
  /\ UNCHANGED <<queues, counters, settings, guids, wItem, callers, history>>

(* Variant: only successes produce a result.                               *)
WorkerPushSuccess(w) ==
  /\ wpc[w] = "push"
  /\ resultQueue' =
       IF wErr[w] THEN resultQueue
                  ELSE Append(resultQueue, [id |-> wItem[w], error |-> FALSE])
  /\ WorkerGoto(w, IF wErr[w] THEN "err" ELSE "count")
  /\ UNCHANGED <<itemQueue, counters, settings, guids, wItem, wErr, callers,
                 history>>

WorkerPush(w) ==
  /\ wpc[w] = "push"
  /\ resultQueue' = Append(resultQueue, [id |-> wItem[w], error |-> wErr[w]])
  /\ WorkerGoto(w, IF wErr[w] THEN "err" ELSE "count")
  /\ UNCHANGED <<itemQueue, counters, settings, guids, wItem, wErr, callers,
                 history>>

(* Variant: a failed item is not counted as processed.                     *)
WorkerErrorOnly(w) ==
  /\ wpc[w] = "err"
  /\ errorCount' = errorCount + 1
  /\ WorkerGoto(w, "leave")
  /\ UNCHANGED <<queues, counter, activeWorkers, processedCount, removedCount,
                 settings, guids, wItem, wErr, callers, history>>

WorkerError(w) ==
  /\ wpc[w] = "err"
  /\ errorCount' = errorCount + 1
  /\ WorkerGoto(w, "count")
  /\ UNCHANGED <<queues, counter, activeWorkers, processedCount, removedCount,
                 settings, guids, wItem, wErr, callers, history>>

WorkerCount(w) ==
  /\ wpc[w] = "count"
  /\ processedCount' = processedCount + 1
  /\ WorkerGoto(w, "leave")
  /\ UNCHANGED <<queues, counter, activeWorkers, errorCount, removedCount,
                 settings, guids, wItem, wErr, callers, history>>

WorkerLeave(w) ==
  /\ wpc[w] = "leave"
  /\ activeWorkers' = activeWorkers - 1
  /\ WorkerGoto(w, "pop")
  /\ wItem' = [wItem EXCEPT ![w] = 0]
  /\ wErr' = [wErr EXCEPT ![w] = FALSE]
  /\ UNCHANGED <<queues, counter, processedCount, errorCount, removedCount,
                 settings, guids, callers, history>>

-----------------------------------------------------------------------------
CallBegins(c) ==
  \/ PushBegin(c) \/ BatchBegin(c) \/ RemoveUnindex(c) \/ GetBegin(c)
  \/ GetBlockingBegin(c) \/ ClearBegin(c) \/ PendingBegin(c)
  \/ Close(c) \/ SetMode(c) \/ Start(c)

CallContinues(c) ==
  \/ PushAlloc(c) \/ PushIndex(c) \/ PushItem(c)
  \/ BatchAlloc(c) \/ BatchItem(c) \/ BatchIndex(c)
  \/ RemoveMark(c)
  \/ GetPop(c) \/ GetReturn(c) \/ GetCount(c) \/ GetBlockingPop(c)
  \/ ClearPop(c) \/ ClearReturn(c) \/ PendingPop(c) \/ PendingPush(c)

WorkerStep(w) ==
  \/ WorkerPop(w) \/ WorkerEmpty(w) \/ WorkerCheck(w) \/ WorkerEnter(w)
  \/ WorkerCall(w) \/ WorkerReturn(w) \/ WorkerPush(w) \/ WorkerError(w)
  \/ WorkerCount(w) \/ WorkerLeave(w)

Next ==
  \/ \E c \in Callers : CallBegins(c) \/ CallContinues(c)
  \/ \E w \in Workers : WorkerStep(w)

Spec == Init /\ [][Next]_vars

(* Threads are scheduled by the operating system: a thread that can take   *)
(* its next step eventually does.  A thread waiting for the interpreter    *)
(* lock gets it in turn, so the two steps that need it are strongly fair;  *)
(* fairness of the second also says that a callback ends, which is up to   *)
(* the application.  Nothing obliges a caller to begin a call.             *)
Fairness ==
  /\ \A c \in Callers : WF_vars(CallContinues(c))
  /\ \A w \in Workers : /\ WF_vars(WorkerStep(w))
                        /\ SF_vars(WorkerCall(w))
                        /\ SF_vars(WorkerReturn(w))

FairSpec == Spec /\ Fairness

-----------------------------------------------------------------------------
(* Types.  Ids are natural numbers, 0 standing for "no item".              *)
TypeQueues ==
  /\ itemQueue \in Seq(Nat) /\ ran \in Seq(Nat)
  /\ resultQueue \in Seq([id : Nat, error : BOOLEAN])
  /\ delivered \subseteq [id : Nat, error : BOOLEAN]

TypeGuids ==
  /\ guidIndex \subseteq Nat /\ removedGuids \subseteq Nat
  /\ accepted \subseteq Nat /\ dropped \subseteq Nat
  /\ cancelled \subseteq Nat

TypeScalars ==
  /\ counter \in Nat /\ activeWorkers \in Nat /\ processedCount \in Nat
  /\ errorCount \in Nat /\ removedCount \in Nat
  /\ mode \in Modes /\ isClosed \in BOOLEAN
  /\ workersStarted \in BOOLEAN /\ returnsResults \in BOOLEAN
  /\ startedMode \in Modes \cup {"none"}

TypeWorkers ==
  /\ wpc \in [Workers -> WorkerPlaces]
  /\ wItem \in [Workers -> Nat] /\ wErr \in [Workers -> BOOLEAN]

TypeCallers ==
  /\ cpc \in [Callers -> CallerPlaces]
  /\ cId \in [Callers -> Nat] /\ cLeft \in [Callers -> Nat]
  /\ cBuf \in [Callers -> Seq(Nat)]

TypeOK ==
  TypeQueues /\ TypeGuids /\ TypeScalars /\ TypeWorkers /\ TypeCallers

(* An item is in at most one place at a time and at most once there: in    *)
(* the queue, in the hands of one call, at one worker, run, or discarded.  *)
(* So its callback is called at most once, and never for an item that      *)
(* clear or a removal discarded.  (A worker keeps its copy of the item it  *)
(* has run until it lets go.)                                              *)
SequencesUnique ==
  /\ IsInjective(itemQueue) /\ IsInjective(ran)
  /\ \A c \in Callers : IsInjective(Draining(c))

HandsApart ==
  /\ \A c \in Callers : InHand(c) \cap (Queued \cup Range(ran) \cup dropped) = {}
  /\ \A c, d \in Callers : c # d => InHand(c) \cap InHand(d) = {}
  /\ \A c \in Callers, w \in Workers : InHand(c) \cap InWork(w) = {}

WorkApart ==
  /\ \A w \in Workers : InWork(w) \cap (Queued \cup dropped) = {}
  /\ \A w \in Workers : Unstarted(w) => InWork(w) \cap Range(ran) = {}
  /\ \A v, w \in Workers : v # w => InWork(v) \cap InWork(w) = {}

SettledApart ==
  /\ Queued \cap (Range(ran) \cup dropped) = {}
  /\ Range(ran) \cap dropped = {}

ItemsUnique == SequencesUnique /\ HandsApart /\ WorkApart /\ SettledApart

(* No item is lost between the structures it moves through: every id ever  *)
(* issued is waiting somewhere, at a worker, run or discarded.             *)
NoItemLost ==
  1 .. counter = Queued \cup (UNION {InHand(c) : c \in Callers})
                        \cup (UNION {InWork(w) : w \in Workers})
                        \cup Range(ran) \cup dropped

(* remove_by_guid keeps its promise when it comes in time: an item whose   *)
(* removal was recorded before a worker looked it up is never run.         *)
CancelledNeverRuns == cancelled \cap (Running \cup Range(ran)) = {}

(* active_workers never drifts: it is the number of workers between their  *)
(* increment and their decrement, so it cannot underflow.                  *)
ActiveExact == activeWorkers = Cardinality(At(Committed \ {"enter"}))

(* Each statistic agrees with what happened, up to the steps a worker is   *)
(* between: every run is counted once as active and once as processed, and *)
(* errors are exactly the failed results.                                  *)
CountersExact ==
  /\ ActiveExact
  /\ processedCount
       + Cardinality(At({"running", "push", "err", "count"})) = Len(ran)
  /\ errorCount + Cardinality(At({"err"})) =
       Cardinality({r \in Range(resultQueue) \cup delivered : r.error})

(* A pool that returns results produces exactly one per item it ran, which *)
(* is delivered to at most one caller; a fire-and-forget pool produces     *)
(* none.                                                                   *)
OneResultPerRun ==
  LET unposted == UNION {InWork(w) : w \in At({"running", "push"})}
      posted == IF returnsResults THEN Range(ran) \ unposted ELSE {}
  IN /\ {r.id : r \in Range(resultQueue) \cup delivered} = posted
     /\ Len(resultQueue) + Cardinality(delivered) = Cardinality(posted)

(* Of several calls of remove_by_guid for one GUID at most one returns     *)
(* true (README.md:440), and so counts a removal: a call between its two   *)
(* critical sections is bound to, no other call is there with the same     *)
(* GUID, and none has been before.                                         *)
RemovedOnce ==
  \A c \in Callers :
    cpc[c] = "removeMark" =>
      /\ cId[c] \notin removedGuids
      /\ \A d \in Callers \ {c} : cpc[d] = "removeMark" => cId[d] # cId[c]

(* total_removed is the number of results the getters handed out, in       *)
(* batches or one by one, as README.md:509 defines it, but only as long as *)
(* no item was removed by GUID: remove_by_guid increments the same         *)
(* counter, which the documentation does not provide for.                  *)
ConsumedCounted ==
  removedGuids = {} =>
    removedCount + Cardinality({c \in Callers : cpc[c] = "getCount"})
      = Cardinality(delivered)

(* A pool that was started in sequential mode runs items in the order      *)
(* their ids were issued, whatever set_mode says later, as long as nobody  *)
(* calls pending_items: a worker beside it takes items while it holds      *)
(* older ones (the run doc_sequential), although README.md:94 promises     *)
(* ordered processing without that condition.                              *)
SequentialOrder ==
  startedMode = "Sequential" =>
    \A i, j \in DOMAIN ran : i < j => ran[i] < ran[j]

(* A removal that finds its GUID returns true; the item it finds has not   *)
(* been processed yet.                                                     *)
TrueMeansNotProcessed ==
  [][\A i \in guidIndex \ guidIndex' : i \notin Done]_vars

(* The queue implements the promise of JobQueue: an item is decided on     *)
(* where a worker takes it out of the removed set's reach, and that step   *)
(* is the one that must not follow a cancellation.                         *)
Jobs == INSTANCE JobQueue
          WITH waiting <- Waiting, running <- Running, done <- Done,
               discarded <- dropped, cancelled <- cancelled

ImplementsJobQueue == Jobs!Spec

(* As long as nobody closes the queue, an accepted item with a pool to run *)
(* it is eventually run or discarded.                                      *)
EventuallyHandled ==
  \A i \in 1 .. MaxItems :
    i \in accepted /\ (\E w \in Workers : wpc[w] # "none")
      ~> i \in Range(ran) \cup dropped \/ isClosed

(* Closing lets the pool finish what it finds: while some worker is still  *)
(* between a successful pop and the next one, or about to pop, no accepted *)
(* item is left behind, closed or not.  Only a worker whose pop has failed *)
(* already may leave without looking again.                                *)
ClosedPoolDrains ==
  \A i \in 1 .. MaxItems :
    i \in accepted /\ At(WorkerPlaces \ {"none", "empty", "exit"}) # {}
      ~> i \in Range(ran) \cup dropped

(* A caller blocked in get_blocking returns when a result is there, or is  *)
(* to come from an item no removal or clear takes away.                    *)
ResultToCome ==
  \/ resultQueue # << >>
  \/ returnsResults /\ At({"check", "enter", "call", "running", "push"}) # {}
  \/ returnsResults /\ itemQueue # << >> /\ At({"pop", "leave"}) # {}

BlockingGetReturns ==
  \A c \in Callers :
    cpc[c] = "getBlocking" /\ ResultToCome ~> cpc[c] = "idle"
=============================================================================
