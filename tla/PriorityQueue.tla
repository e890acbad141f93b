---------------------------- MODULE PriorityQueue ----------------------------
(***************************************************************************)
(* AsyncPriorityQueue of src/src/priority_queue.rs with the workers that   *)
(* PyAsyncPriorityQueue::start of src/src/lib.rs spawns: a heap and a GUID *)
(* index under a mutex each, and an I/O thread that takes inserts and      *)
(* deletes from a bounded channel.                                         *)
(*                                                                         *)
(* An item's GUID is a number issued in order.  The heap is the set of its *)
(* items: only the order Ord gives them decides what pop returns, and      *)
(* among equal items any may come first.  The database is never read back, *)
(* so it is two sets of GUIDs: those stored, and those a flush made safe.  *)
(***************************************************************************)
EXTENDS Integers, Sequences, FiniteSets, Functions

CONSTANTS
  Callers,      \* threads that call the methods of the queue
  Workers,      \* worker threads that calls of start spawn
  Levels,       \* priorities callers use
  Times,        \* what the system clock may show; it may be set back
  BatchSizes,   \* lengths of the batches callers push
  Capacity,     \* of the I/O channel
  Ops,          \* the methods callers use, by name
  MaxItems      \* bound: items pushed in all

ASSUME SetsAssumption == IsFiniteSet(Callers) /\ IsFiniteSet(Workers)
ASSUME LevelAssumption == Levels \subseteq 1 .. 100 /\ Times \subseteq Nat
ASSUME SizeAssumption == BatchSizes \subseteq Nat /\ MaxItems \in Nat
ASSUME CapacityAssumption == Capacity \in Nat \ {0}

VARIABLES
  heap, heapLock,        \* items; the caller that holds the mutex across steps
  index,                 \* guid_index: GUIDs to priorities
  counter, processedCount, isClosed,
  channel, disk, synced,
  wpc, wGuid,            \* per worker: place, GUID of its item
  cpc, cItems, cLeft, cLevel, cTime,  \* per caller: place, local variables
  issued,                \* GUIDs issued so far
  (* History. *)
  returned,              \* GUIDs that a push returned
  shown,                 \* those a push has yet to return that peek_next showed
  taken,                 \* GUIDs in the order get_next returned them
  byCaller,              \* those of them that a caller got
  removed                \* GUIDs remove_by_guid took out

memory  == <<heap, heapLock, index>>
counts  == <<counter, processedCount>>
sled    == <<disk, synced>>
workers == <<wpc, wGuid>>
locals  == <<cItems, cLeft, cLevel, cTime>>
history == <<returned, shown, taken, byCaller, removed>>
vars == <<memory, counts, isClosed, channel, sled, workers, cpc, locals,
          issued, history>>

Item(g, l, t) == [guid |-> g, level |-> l, time |-> t]
GuidsOf(items) == {i.guid : i \in items}
Message(op, g) == [op |-> op, guid |-> g]

(* guid_index after an insertion of the same priority for each GUID of a   *)
(* set, and after the removal of one.                                      *)
Inserted(guids, l) ==
  [g \in DOMAIN index \cup guids |-> IF g \in guids THEN l ELSE index[g]]
Unindexed(g) == [h \in DOMAIN index \ {g} |-> index[h]]

None == 0

(* Ord for PrioritizedQueueItem: a comes before b. *)
Greater(a, b) ==
  \/ a.level < b.level
  \/ a.level = b.level /\ a.time > b.time

(* What BinaryHeap::pop may return. *)
Tops == {a \in heap : \A b \in heap : ~Greater(b, a)}

Init ==
  /\ heap = {} /\ heapLock = None /\ index = << >>
  /\ counter = 0 /\ processedCount = 0 /\ isClosed = FALSE
  /\ channel = << >> /\ disk = {} /\ synced = {}
  /\ wpc = [w \in Workers |-> "none"] /\ wGuid = [w \in Workers |-> 0]
  /\ cpc = [c \in Callers |-> "idle"] /\ cItems = [c \in Callers |-> << >>]
  /\ cLeft = [c \in Callers |-> 0] /\ cLevel = [c \in Callers |-> 0]
  /\ cTime = [c \in Callers |-> 0]
  /\ issued = 0
  /\ returned = {} /\ shown = {} /\ taken = << >> /\ byCaller = {}
  /\ removed = {}

CanCall(c, op) == op \in Ops /\ cpc[c] = "idle"
Goto(c, place) == cpc' = [cpc EXCEPT ![c] = place]
WorkerGoto(w, place) == wpc' = [wpc EXCEPT ![w] = place]
Return(c) ==
  /\ Goto(c, "idle")
  /\ cItems' = [cItems EXCEPT ![c] = << >>]
  /\ cLeft' = [cLeft EXCEPT ![c] = 0]
  /\ cLevel' = [cLevel EXCEPT ![c] = 0]
  /\ cTime' = [cTime EXCEPT ![c] = 0]

(* A full channel blocks the sender. *)
Send(message) ==
  /\ Len(channel) < Capacity
  /\ channel' = Append(channel, message)

-----------------------------------------------------------------------------
(* push_with_priority is push_batch_with_priority of one item: an Insert   *)
(* for each, then all on the heap, then all in the index, then the count.  *)

(* GUIDs issued, and those the pushes under way will yet issue.            *)
Promised ==
  issued + Cardinality(UNION {{c} \X (1 .. cLeft[c]) : c \in Callers})

PushBegin(c) ==
  /\ ~isClosed
  /\ \E n \in {1} \cup BatchSizes, l \in Levels, t \in Times :
       /\ CanCall(c, IF n = 1 THEN "push" ELSE "push_batch")
       /\ Promised + n <= MaxItems
       /\ cLeft' = [cLeft EXCEPT ![c] = n]
       /\ cLevel' = [cLevel EXCEPT ![c] = l]
       /\ cTime' = [cTime EXCEPT ![c] = t]
  /\ Goto(c, "pushSend")
  /\ UNCHANGED <<memory, counts, isClosed, channel, sled, workers, cItems,
                 issued, history>>

PushSend(c) ==
  /\ cpc[c] = "pushSend" /\ cLeft[c] > 0
  /\ issued' = issued + 1
  /\ Send(Message("insert", issued + 1))
  /\ cItems' = [cItems EXCEPT ![c] =
                  Append(@, Item(issued + 1, cLevel[c], cTime[c] + Len(@)))]
  /\ cLeft' = [cLeft EXCEPT ![c] = @ - 1]
  /\ UNCHANGED <<memory, counts, isClosed, sled, workers, cpc, cLevel, cTime,
                 history>>

PushHeap(c) ==
  /\ cpc[c] = "pushSend" /\ cLeft[c] = 0 /\ heapLock = None
  /\ heap' = heap \cup Range(cItems[c])
  /\ Goto(c, "pushIndex")
  /\ UNCHANGED <<heapLock, index, counts, isClosed, channel, sled, workers,
                 locals, issued, history>>

PushIndex(c) ==
  /\ cpc[c] = "pushIndex"
  /\ index' = Inserted(GuidsOf(Range(cItems[c])), cLevel[c])
  /\ Goto(c, "pushCount")
  /\ UNCHANGED <<heap, heapLock, counts, isClosed, channel, sled, workers,
                 locals, issued, history>>

PushCount(c) ==
  /\ cpc[c] = "pushCount"
  /\ counter' = counter + Len(cItems[c])
  /\ returned' = returned \cup GuidsOf(Range(cItems[c]))
  /\ shown' = shown \ GuidsOf(Range(cItems[c]))
  /\ Return(c)
  /\ UNCHANGED <<memory, processedCount, isClosed, channel, sled, workers,
                 issued, taken, byCaller, removed>>

-----------------------------------------------------------------------------
(* get_next: pop and unindex under both locks.  It deletes nothing on disk.*)

GetNext(item) ==
  /\ heapLock = None /\ item \in Tops
  /\ heap' = heap \ {item}
  /\ index' = Unindexed(item.guid)
  /\ taken' = Append(taken, item.guid)

CallerGetNext(c) ==
  /\ CanCall(c, "get_next")
  /\ \E item \in Tops :
       GetNext(item) /\ byCaller' = byCaller \cup {item.guid}
  /\ UNCHANGED <<heapLock, counts, isClosed, channel, sled, workers, cpc,
                 locals, issued, returned, shown, removed>>

(* GUIDs callers can name. *)
Named == returned \cup shown

(* peek_next shows a GUID; that is news while its push is under way.       *)
PeekNext(c) ==
  /\ CanCall(c, "peek_next") /\ heapLock = None
  /\ \E item \in Tops : item.guid \notin Named /\ shown' = shown \cup {item.guid}
  /\ UNCHANGED <<memory, counts, isClosed, channel, sled, workers, cpc, locals,
                 issued, returned, taken, byCaller, removed>>

(* Variant: takes the old entry out of the index and adds no new one.      *)
UpdateUnindexed(c) ==
  /\ CanCall(c, "update_priority") /\ heapLock = None
  /\ \E i \in heap, l \in Levels :
       /\ i.guid \in Named
       /\ heap' = (heap \ {i}) \cup {[i EXCEPT !.level = l]}
       /\ index' = Unindexed(i.guid)
  /\ UNCHANGED <<heapLock, counts, isClosed, channel, sled, workers, cpc,
                 locals, issued, history>>

UpdatePriority(c) ==
  /\ CanCall(c, "update_priority") /\ heapLock = None
  /\ \E i \in heap, l \in Levels :
       /\ i.guid \in Named
       /\ heap' = (heap \ {i}) \cup {[i EXCEPT !.level = l]}
       /\ index' = Inserted({i.guid}, l)
  /\ UNCHANGED <<heapLock, counts, isClosed, channel, sled, workers, cpc,
                 locals, issued, history>>

(* Variant: finds the GUID in the index instead of the heap.               *)
RemoveIndexed(c) ==
  /\ CanCall(c, "remove") /\ heapLock = None
  /\ \E g \in Named \cap DOMAIN index :
       /\ heap' = {i \in heap : i.guid # g}
       /\ cItems' = [cItems EXCEPT ![c] = <<Item(g, index[g], 0)>>]
       /\ removed' = removed \cup {g}
  /\ heapLock' = c
  /\ Goto(c, "removeSend")
  /\ UNCHANGED <<index, counts, isClosed, channel, sled, workers, cLeft,
                 cLevel, cTime, issued, returned, shown, taken, byCaller>>

(* remove_by_guid keeps the heap locked while it waits for the channel.    *)
RemoveFind(c) ==
  /\ CanCall(c, "remove") /\ heapLock = None
  /\ \E i \in heap :
       /\ i.guid \in Named
       /\ heap' = heap \ {i}
       /\ cItems' = [cItems EXCEPT ![c] = <<i>>]
       /\ removed' = removed \cup {i.guid}
  /\ heapLock' = c
  /\ Goto(c, "removeSend")
  /\ UNCHANGED <<index, counts, isClosed, channel, sled, workers, cLeft,
                 cLevel, cTime, issued, returned, shown, taken, byCaller>>

(* Variant: does not wait for room in the channel.                         *)
RemoveSendAnyway(c) ==
  /\ cpc[c] = "removeSend"
  /\ channel' = Append(channel, Message("delete", cItems[c][1].guid))
  /\ index' = Unindexed(cItems[c][1].guid)
  /\ heapLock' = None
  /\ Return(c)
  /\ UNCHANGED <<heap, counts, isClosed, sled, workers, issued, history>>

(* Variant: gives the Delete up when the channel is full.                  *)
RemoveSendTry(c) ==
  /\ cpc[c] = "removeSend"
  /\ channel' = IF Len(channel) < Capacity
                  THEN Append(channel, Message("delete", cItems[c][1].guid))
                  ELSE channel
  /\ index' = Unindexed(cItems[c][1].guid)
  /\ heapLock' = None
  /\ Return(c)
  /\ UNCHANGED <<heap, counts, isClosed, sled, workers, issued, history>>

RemoveSend(c) ==
  /\ cpc[c] = "removeSend"
  /\ Send(Message("delete", cItems[c][1].guid))
  /\ index' = Unindexed(cItems[c][1].guid)
  /\ heapLock' = None
  /\ Return(c)
  /\ UNCHANGED <<heap, counts, isClosed, sled, workers, issued, history>>

(* flush sends its message and returns 50 ms later, done or not.           *)
FlushBegin(c) ==
  /\ CanCall(c, "flush")
  /\ Goto(c, "flush")
  /\ UNCHANGED <<memory, counts, isClosed, channel, sled, workers, locals,
                 issued, history>>

FlushSend(c) ==
  /\ cpc[c] = "flush"
  /\ Send(Message("flush", 0))
  /\ Return(c)
  /\ UNCHANGED <<memory, counts, isClosed, sled, workers, issued, history>>

Close(c) ==
  /\ CanCall(c, "close")
  /\ isClosed' = TRUE
  /\ UNCHANGED <<memory, counts, channel, sled, workers, cpc, locals, issued,
                 history>>

(* Every call of start spawns workers, beside those that run already.      *)
Start(c) ==
  /\ CanCall(c, "start")
  /\ \E spawned \in SUBSET {w \in Workers : wpc[w] = "none"} :
       wpc' = [w \in Workers |-> IF w \in spawned THEN "next" ELSE wpc[w]]
  /\ UNCHANGED <<memory, counts, isClosed, channel, sled, wGuid, cpc, locals,
                 issued, history>>

-----------------------------------------------------------------------------
WorkerNext(w) ==
  /\ wpc[w] = "next"
  /\ \/ \E item \in Tops :
          /\ GetNext(item)
          /\ wGuid' = [wGuid EXCEPT ![w] = item.guid]
          /\ WorkerGoto(w, "call")
     \/ /\ heapLock = None /\ heap = {}
        /\ WorkerGoto(w, "empty")
        /\ UNCHANGED <<heap, index, taken, wGuid>>
  /\ UNCHANGED <<heapLock, counts, isClosed, channel, sled, cpc, locals,
                 issued, returned, shown, byCaller, removed>>

WorkerEmpty(w) ==
  /\ wpc[w] = "empty"
  /\ WorkerGoto(w, IF isClosed THEN "exit" ELSE "next")
  /\ UNCHANGED <<memory, counts, isClosed, channel, sled, wGuid, cpc, locals,
                 issued, history>>

(* The callback has ended, in whatever way; then it is counted.            *)
WorkerCount(w) ==
  /\ wpc[w] = "call"
  /\ processedCount' = processedCount + 1
  /\ wGuid' = [wGuid EXCEPT ![w] = 0]
  /\ WorkerGoto(w, "next")
  /\ UNCHANGED <<memory, counter, isClosed, channel, sled, cpc, locals,
                 issued, history>>

(* What the I/O thread does with a message. *)
Applied(stored, m) ==
  CASE m.op = "insert" -> stored \cup {m.guid}
    [] m.op = "delete" -> stored \ {m.guid}
    [] m.op = "flush"  -> stored

(* Variant: the I/O thread locks the heap to look the item up.             *)
IoApplyLocked ==
  /\ channel # << >> /\ heapLock = None
  /\ channel' = Tail(channel)
  /\ disk' = Applied(disk, Head(channel))
  /\ synced' = IF Head(channel).op = "flush" THEN disk ELSE synced
  /\ UNCHANGED <<memory, counts, isClosed, workers, cpc, locals, issued,
                 history>>

(* Variant: a Flush is left to the next idle period.                       *)
IoApplyUnflushed ==
  /\ channel # << >>
  /\ channel' = Tail(channel)
  /\ disk' = Applied(disk, Head(channel))
  /\ UNCHANGED <<memory, synced, counts, isClosed, workers, cpc, locals,
                 issued, history>>

IoApply ==
  /\ channel # << >>
  /\ channel' = Tail(channel)
  /\ disk' = Applied(disk, Head(channel))
  /\ synced' = IF Head(channel).op = "flush" THEN disk ELSE synced
  /\ UNCHANGED <<memory, counts, isClosed, workers, cpc, locals, issued,
                 history>>

(* After 100 ms without a message it flushes by itself.                    *)
IoIdle ==
  /\ channel = << >>
  /\ synced' = disk
  /\ UNCHANGED <<memory, counts, isClosed, channel, disk, workers, cpc, locals,
                 issued, history>>

-----------------------------------------------------------------------------
CallBegins(c) ==
  \/ PushBegin(c) \/ CallerGetNext(c) \/ PeekNext(c) \/ UpdatePriority(c)
  \/ RemoveFind(c) \/ FlushBegin(c) \/ Close(c) \/ Start(c)

CallContinues(c) ==
  \/ PushSend(c) \/ PushHeap(c) \/ PushIndex(c) \/ PushCount(c)
  \/ RemoveSend(c) \/ FlushSend(c)

WorkerStep(w) == WorkerNext(w) \/ WorkerEmpty(w) \/ WorkerCount(w)

Next ==
  \/ \E c \in Callers : CallBegins(c) \/ CallContinues(c)
  \/ \E w \in Workers : WorkerStep(w)
  \/ IoApply \/ IoIdle

Spec == Init /\ [][Next]_vars

(* The operating system schedules every thread; a thread that waits for a  *)
(* mutex or for room in the channel gets it in turn.  Nothing obliges the  *)
(* callers to be silent for the 100 ms an idle flush needs.                *)
FairSpec ==
  /\ Spec
  /\ \A c \in Callers : SF_vars(CallContinues(c))
  /\ \A w \in Workers : WF_vars(WorkerStep(w))
  /\ WF_vars(IoApply)

-----------------------------------------------------------------------------
Guids == Nat \ {0}
Items == [guid : Guids, level : 1 .. 100, time : Nat]
Messages == [op : {"insert", "delete"}, guid : Guids] \cup {Message("flush", 0)}

TypeMemory ==
  /\ heap \subseteq Items /\ heapLock \in Callers \cup {None}
  /\ DOMAIN index \subseteq Guids /\ index \in [DOMAIN index -> 1 .. 100]
  /\ counter \in Nat /\ processedCount \in Nat /\ isClosed \in BOOLEAN
  /\ issued \in Nat

TypeIo ==
  /\ channel \in Seq(Messages) /\ Len(channel) <= Capacity
  /\ disk \subseteq Guids /\ synced \subseteq Guids

TypeThreads ==
  /\ wpc \in [Workers -> {"none", "next", "empty", "call", "exit"}]
  /\ wGuid \in [Workers -> {0} \cup Guids]
  /\ cpc \in [Callers -> {"idle", "pushSend", "pushIndex", "pushCount",
                          "removeSend", "flush"}]
  /\ cItems \in [Callers -> Seq(Items)] /\ cLeft \in [Callers -> Nat]
  /\ cLevel \in [Callers -> 0 .. 100] /\ cTime \in [Callers -> Nat]

TypeHistory ==
  /\ returned \cup shown \cup byCaller \cup removed \subseteq Guids
  /\ taken \in Seq(Guids)

TypeOK == TypeMemory /\ TypeIo /\ TypeThreads /\ TypeHistory

(* The database follows the queue: once the I/O thread has caught up, it   *)
(* holds every item whose Insert was sent but those that were removed: of  *)
(* the messages about an item, the last one decides.                       *)
(* That needs a removal's Delete never to overtake the Insert it undoes.   *)
BeingRemoved ==
  UNION {GuidsOf(Range(cItems[c])) : c \in {d \in Callers : cpc[d] = "removeSend"}}
WillHold(g) ==
  \/ \E k \in DOMAIN channel :
       /\ channel[k] = Message("insert", g)
       /\ \A j \in DOMAIN channel : j > k => channel[j] # Message("delete", g)
  \/ /\ g \in disk
     /\ \A j \in DOMAIN channel : channel[j] # Message("delete", g)
DiskFollows ==
  /\ disk \cup {m.guid : m \in Range(channel)} \subseteq 0 .. issued
  /\ {g \in 1 .. issued : WillHold(g)} =
       (1 .. issued) \ (removed \ BeingRemoved)

(* The queue implements the promise of JobQueue: an item is begun when     *)
(* get_next returns it, and removal reaches it only before that.           *)
Held == {wGuid[w] : w \in {v \in Workers : wpc[v] = "call"}}
InHand ==
  UNION {GuidsOf(Range(cItems[c])) : c \in {d \in Callers : cpc[d] = "pushSend"}}
Jobs == INSTANCE JobQueue
          WITH waiting <- GuidsOf(heap) \cup InHand,
               running <- Held \cup byCaller,
               done <- Range(taken) \ (Held \cup byCaller),
               discarded <- removed,
               cancelled <- {}
ImplementsJobQueue == Jobs!Spec

(* A call that has begun returns, although removal waits for the channel   *)
(* with the heap locked: the thread that empties it takes no lock.         *)
CallsReturn == \A c \in Callers : cpc[c] # "idle" ~> cpc[c] = "idle"

(* flush makes safe what was pushed before it, if not by the time it       *)
(* returns: an item whose push has returned and whose Insert a Flush in    *)
(* the channel is behind reaches the disk for good, unless it is removed.  *)
Covered(g) ==
  \E k \in DOMAIN channel :
    /\ channel[k].op = "flush"
    /\ \A j \in DOMAIN channel :
         j > k => channel[j] # Message("insert", g)
FlushReachesDisk ==
  \A g \in 1 .. MaxItems : g \in returned /\ Covered(g) ~> g \in synced \cup removed

(* get_priority knows every item a caller has pushed and that is queued:   *)
(* the index, which each call updates in a critical section other than the *)
(* heap's, may lag behind and keep entries of items that are gone, but it  *)
(* never misses one that is there.                                         *)
IndexCovers ==
  \A i \in heap : i.guid \in returned => i.guid \in DOMAIN index

-----------------------------------------------------------------------------
(* What the documentation says of the program and the code does not do.    *)

(* README.md on priorities: "higher = processed first": the item get_next  *)
(* returns has the highest priority of those queued.                       *)
HighestFirst ==
  [][Len(taken') > Len(taken) =>
       \A i, j \in heap :
         i.guid = taken'[Len(taken')] => j.level <= i.level]_vars
=============================================================================
