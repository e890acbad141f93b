----------------------- MODULE PersistenceQueueProofs -----------------------
(***************************************************************************)
(* Safety of PersistenceQueue for every number of callers, workers, jobs   *)
(* and lives, first for any number of threads in the methods and then for  *)
(* one at a time, which is what the GIL grants.                            *)
(***************************************************************************)
EXTENDS PersistenceQueue, SequenceLemmas, FiniteSetTheorems

(* What an action leaves unchanged it names by these groups of variables.  *)
USE DEF results, memory, flags, io, sled, workers, locals, process, ids,
        history

-----------------------------------------------------------------------------
(* Types.                                                                  *)

(* Contents the database may have. *)
Sound(d) ==
  /\ d \in Contents /\ IsFiniteSet(d.items)
  /\ \A i, k \in d.items : i.id = k.id => i = k

LEMMA SoundType ==
  /\ TypeIo => Sound(db) /\ \A d \in recoverable : Sound(d)
  /\ (/\ channel \in Seq(Messages)
      /\ pending \in Seq(Items) /\ counterVal \in Nat
      /\ ioPc \in {"recv", "write", "exit"} /\ ioStop \in BOOLEAN
      /\ db \in recoverable /\ \A d \in recoverable : Sound(d)) => TypeIo
BY DEF TypeIo, Sound

LEMMA SoundChanges ==
  ASSUME NEW d, Sound(d)
  PROVE  /\ \A id : Sound([d EXCEPT !.items = Without(@, id)])
         /\ \A item \in Items :
              Sound([d EXCEPT !.items = Without(@, item.id) \cup {item}])
         /\ \A n \in Nat : Sound([d EXCEPT !.counter = n])
         /\ \A n \in Nat : Sound([d EXCEPT !.removed = n])
<1>1. /\ d.items \subseteq Items /\ d.counter \in Nat /\ d.removed \in Nat
      /\ \A i, k \in d.items : i.id = k.id => i = k
      /\ \A new \in SUBSET Items :
           /\ [d EXCEPT !.items = new] \in Contents
           /\ [d EXCEPT !.items = new].items = new
      /\ \A n \in Nat : /\ [d EXCEPT !.counter = n] \in Contents
                        /\ [d EXCEPT !.counter = n].items = d.items
                        /\ [d EXCEPT !.removed = n] \in Contents
                        /\ [d EXCEPT !.removed = n].items = d.items
      /\ IsFiniteSet(d.items) /\ d = [d EXCEPT !.items = d.items]
  BY DEF Sound, Contents
<1>2. \A id : Without(d.items, id) \subseteq d.items
                /\ IsFiniteSet(Without(d.items, id))
  BY <1>1, FS_Subset DEF Without
<1>3. ASSUME NEW id PROVE Sound([d EXCEPT !.items = Without(@, id)])
  BY <1>1, <1>2 DEF Sound
<1>4. ASSUME NEW item \in Items
      PROVE  Sound([d EXCEPT !.items = Without(@, item.id) \cup {item}])
  <2> DEFINE new == Without(d.items, item.id) \cup {item}
  <2>1. IsFiniteSet(new) /\ new \in SUBSET Items
    BY <1>1, <1>2, FS_AddElement
  <2>2. \A i, k \in new : i.id = k.id => i = k
    BY <1>1 DEF Without
  <2> QED
    BY <1>1, <2>1, <2>2 DEF Sound
<1>5. ASSUME NEW n \in Nat
      PROVE  Sound([d EXCEPT !.counter = n]) /\ Sound([d EXCEPT !.removed = n])
  BY <1>1 DEF Sound
<1> QED
  BY <1>3, <1>4, <1>5

LEMMA WriteType ==
  ASSUME TypeIo, NEW new, Sound(new), Write(new),
         UNCHANGED <<channel, ioPc, ioStop>>, pending' \in Seq(Items),
         counterVal' \in Nat
  PROVE  TypeIo'
BY DEF TypeIo, Write, Sound

LEMMA ItemTypes ==
  /\ NoItem \in Items
  /\ \A i, j \in Nat : [id |-> i, job |-> j] \in Items
  /\ \A i \in Items : Insert(i) \in Messages /\ i.id \in Nat /\ i.job \in Nat
  /\ \A n \in Nat : PersistCounter(n) \in Messages
  /\ Shutdown \in Messages
  /\ \A m \in Messages : m.item \in Items /\ m.val \in Nat
BY DEF NoItem, Items, Insert, PersistCounter, Shutdown, Messages

LEMMA ReturnType ==
  ASSUME TypeThreads, NEW c \in Callers, Return(c)
  PROVE  /\ cpc' \in [Callers -> CallerPlaces]
         /\ cItem' \in [Callers -> Items] /\ cLeft' \in [Callers -> Nat]
         /\ cVal' \in [Callers -> Nat] /\ cBuf' \in [Callers -> Seq(Items)]
BY EmptyType, ItemTypes DEF TypeThreads, Return, Goto, CallerPlaces

Types == TypeMemory /\ TypeIo /\ TypeThreads

LEMMA PushTypes ==
  ASSUME Types, jobs \in Nat, NEW c \in Callers,
         PushBegin(c) \/ Allocate(c) \/ SendInsert(c) \/ LoadCounter(c)
           \/ SendCounter(c) \/ Index(c) \/ PushItem(c)
  PROVE  Types'
<1> USE DEF Types
<1>1. CASE PushBegin(c)
  <2>1. TypeMemory' /\ TypeIo'
    BY <1>1 DEF PushBegin, TypeMemory, TypeIo
  <2>2. TypeThreads'
    BY <1>1, SizeAssumption DEF PushBegin, TypeThreads, Goto, CallerPlaces
  <2> QED
    BY <2>1, <2>2
<1>2. CASE Allocate(c)
  <2>1. TypeMemory' /\ TypeIo'
    BY <1>2 DEF Allocate, TypeMemory, TypeIo
  <2>2. [id |-> counter + 1, job |-> jobs + 1] \in Items
    BY ItemTypes DEF TypeMemory
  <2>3. cLeft' \in [Callers -> Nat] /\ cpc' \in [Callers -> CallerPlaces]
    <3>1. cLeft \in [Callers -> Nat] /\ cpc \in [Callers -> CallerPlaces]
      BY DEF TypeThreads
    <3>2. CASE cpc' = [cpc EXCEPT ![c] = "pushSend"] /\ UNCHANGED cLeft
      BY <3>1, <3>2 DEF CallerPlaces
    <3>3. CASE /\ cpc' = [cpc EXCEPT ![c] = "batchSend"] /\ cLeft[c] > 0
               /\ cLeft' = [cLeft EXCEPT ![c] = @ - 1]
      BY <3>1, <3>3 DEF CallerPlaces
    <3> QED
      BY <1>2, <3>2, <3>3 DEF Allocate, Goto
  <2>4. cItem' \in [Callers -> Items]
    BY <1>2, <2>2 DEF Allocate, TypeThreads
  <2>5. TypeThreads'
    BY <1>2, <2>3, <2>4 DEF Allocate, TypeThreads
  <2> QED
    BY <2>1, <2>5
<1>3. CASE SendInsert(c)
  <2>1. TypeMemory'
    BY <1>3 DEF SendInsert, TypeMemory
  <2>2. cItem[c] \in Items /\ Insert(cItem[c]) \in Messages
    BY ItemTypes DEF TypeThreads
  <2>3. channel' \in Seq(Messages)
    BY <1>3, <2>2, SeqTypes DEF SendInsert, TypeIo
  <2>4. TypeIo'
    BY <1>3, <2>3 DEF SendInsert, TypeIo
  <2>5. Append(cBuf[c], cItem[c]) \in Seq(Items)
    BY <2>2, SeqTypes DEF TypeThreads
  <2>6. TypeThreads'
    BY <1>3, <2>5 DEF SendInsert, TypeThreads, Goto, CallerPlaces
  <2> QED
    BY <2>1, <2>4, <2>6
<1>4. CASE LoadCounter(c)
  <2>1. TypeMemory' /\ TypeIo'
    BY <1>4 DEF LoadCounter, TypeMemory, TypeIo
  <2>2. TypeThreads'
    BY <1>4 DEF LoadCounter, TypeThreads, TypeMemory, Goto, CallerPlaces
  <2> QED
    BY <2>1, <2>2
<1>5. CASE SendCounter(c)
  <2>1. TypeMemory'
    BY <1>5 DEF SendCounter, TypeMemory
  <2>2. PersistCounter(cVal[c]) \in Messages
    BY ItemTypes DEF TypeThreads
  <2>3. channel' \in Seq(Messages)
    BY <1>5, <2>2, SeqTypes DEF SendCounter, TypeIo
  <2>4. TypeIo'
    BY <1>5, <2>3 DEF SendCounter, TypeIo
  <2>5. TypeThreads'
    BY <1>5 DEF SendCounter, TypeThreads, Goto, CallerPlaces
  <2> QED
    BY <2>1, <2>4, <2>5
<1>6. CASE Index(c)
  <2>1. cItem[c].job \in Nat /\ JobsOf(Range(cBuf[c])) \subseteq Nat
    BY RangeType, ItemTypes DEF TypeThreads, JobsOf
  <2>2. TypeMemory' /\ TypeIo'
    BY <1>6, <2>1 DEF Index, TypeMemory, TypeIo
  <2>3. TypeThreads'
    BY <1>6 DEF Index, TypeThreads, Goto, CallerPlaces
  <2> QED
    BY <2>2, <2>3
<1>7. CASE PushItem(c)
  <2>1. cItem[c] \in Items /\ cBuf[c] \in Seq(Items)
    BY DEF TypeThreads
  <2>2. cBuf[c] # << >> => Head(cBuf[c]) \in Items /\ Tail(cBuf[c]) \in Seq(Items)
    BY <2>1, SeqTypes
  <2>3. \A i \in Items : Append(itemQueue, i) \in Seq(Items)
    BY SeqTypes DEF TypeMemory
  <2>4. itemQueue' \in Seq(Items)
    BY <1>7, <2>1, <2>2, <2>3 DEF PushItem, TypeMemory
  <2>5. TypeMemory' /\ TypeIo'
    BY <1>7, <2>4 DEF PushItem, TypeMemory, TypeIo
  <2>6. TypeThreads'
    <3>1. CASE Return(c)
      BY <1>7, <3>1, ReturnType DEF PushItem, TypeThreads
    <3>2. CASE cBuf' = [cBuf EXCEPT ![c] = Tail(@)] /\ cBuf[c] # << >>
               /\ UNCHANGED <<cpc, cItem, cLeft, cVal>>
      BY <1>7, <2>2, <3>2 DEF PushItem, TypeThreads
    <3> QED
      BY <1>7, <3>1, <3>2 DEF PushItem
  <2> QED
    BY <2>5, <2>6
<1> QED
  BY <1>1, <1>2, <1>3, <1>4, <1>5, <1>6, <1>7

LEMMA RemoveTypes ==
  ASSUME Types, accepted \subseteq Nat, NEW c \in Callers,
         RemoveUnindex(c) \/ RemoveMark(c) \/ ClearBegin(c) \/ ClearPop(c)
           \/ ClearDb(c) \/ ClearReturn(c)
  PROVE  Types'
<1> USE DEF Types
<1>1. CASE RemoveUnindex(c)
  <2>1. PICK j \in Nat : cItem' = [cItem EXCEPT ![c] = [id |-> 0, job |-> j]]
                         /\ guidIndex' = guidIndex \ {j}
    BY <1>1 DEF RemoveUnindex
  <2>2. TypeMemory' /\ TypeIo'
    BY <1>1, <2>1 DEF RemoveUnindex, TypeMemory, TypeIo
  <2>3. [id |-> 0, job |-> j] \in Items
    BY <2>1, ItemTypes
  <2>4. TypeThreads'
    BY <1>1, <2>1, <2>3 DEF RemoveUnindex, TypeThreads, Goto, CallerPlaces
  <2> QED
    BY <2>2, <2>4
<1>2. CASE RemoveMark(c)
  <2>1. cItem[c].job \in Nat
    BY ItemTypes DEF TypeThreads
  <2>2. TypeMemory'
    <3>1. removedGuids' = removedGuids \cup {cItem[c].job}
          /\ removedCount' = removedCount + 1
      BY <1>2 DEF RemoveMark
    <3>2. removedGuids \subseteq Nat /\ removedCount \in Nat
      BY DEF TypeMemory
    <3>3. removedGuids' \subseteq Nat
      BY <2>1, <3>1, <3>2
    <3>4. removedCount' \in Nat
      BY <3>1, <3>2
    <3> QED
      BY <1>2, <3>3, <3>4 DEF RemoveMark, TypeMemory
  <2>3. TypeIo'
    BY <1>2 DEF RemoveMark, TypeIo
  <2>4. TypeThreads'
    BY <1>2, ReturnType DEF RemoveMark, TypeThreads
  <2> QED
    BY <2>2, <2>3, <2>4
<1>3. CASE ClearBegin(c)
  <2>1. TypeMemory' /\ TypeIo'
    BY <1>3 DEF ClearBegin, TypeMemory, TypeIo
  <2>2. TypeThreads'
    BY <1>3 DEF ClearBegin, TypeThreads, Goto, CallerPlaces
  <2> QED
    BY <2>1, <2>2
<1>4. CASE ClearPop(c)
  <2>1. Head(itemQueue) \in Items /\ Tail(itemQueue) \in Seq(Items)
    BY <1>4, SeqTypes DEF ClearPop, TypeMemory
  <2>2. TypeMemory' /\ TypeIo'
    BY <1>4, <2>1 DEF ClearPop, TypeMemory, TypeIo
  <2>3. TypeThreads'
    BY <1>4, <2>1 DEF ClearPop, TypeThreads, Goto, CallerPlaces
  <2> QED
    BY <2>2, <2>3
<1>5. CASE ClearDb(c)
  <2>1. TypeMemory'
    BY <1>5 DEF ClearDb, TypeMemory
  <2>2. Sound([db EXCEPT !.items = Without(@, cItem[c].id)])
    BY SoundType, SoundChanges
  <2>3. TypeIo'
    BY <1>5, <2>2, WriteType DEF ClearDb, TypeIo
  <2>4. TypeThreads'
    BY <1>5 DEF ClearDb, TypeThreads, Goto, CallerPlaces
  <2> QED
    BY <2>1, <2>3, <2>4
<1>6. CASE ClearReturn(c)
  <2>1. TypeMemory' /\ TypeIo'
    BY <1>6 DEF ClearReturn, TypeMemory, TypeIo
  <2>2. TypeThreads'
    BY <1>6, ReturnType DEF ClearReturn, TypeThreads
  <2> QED
    BY <2>1, <2>2
<1> QED
  BY <1>1, <1>2, <1>3, <1>4, <1>5, <1>6

LEMMA GetTypes ==
  ASSUME Types, NEW c \in Callers,
         GetBegin(c) \/ GetPop(c) \/ GetCount(c) \/ GetEnd(c) \/ GetLoad(c)
           \/ GetSave(c)
  PROVE  Types'
<1> USE DEF Types
<1>1. CASE GetBegin(c)
  <2>1. TypeMemory' /\ TypeIo'
    BY <1>1 DEF GetBegin, TypeMemory, TypeIo
  <2>2. PICK n \in Nat, place \in {"get", "getBlocking"} :
          /\ cLeft' = [cLeft EXCEPT ![c] = n]
          /\ cpc' = [cpc EXCEPT ![c] = place]
    BY <1>1, SizeAssumption DEF GetBegin, Goto
  <2>3. TypeThreads'
    BY <1>1, <2>2 DEF GetBegin, TypeThreads, CallerPlaces
  <2> QED
    BY <2>1, <2>3
<1>2. CASE GetPop(c)
  <2>1. Head(resultQueue) \in Items /\ Tail(resultQueue) \in Seq(Items)
    BY <1>2, SeqTypes DEF GetPop, TypeMemory
  <2>2. Append(cBuf[c], Head(resultQueue)) \in Seq(Items)
    BY <2>1, SeqTypes DEF TypeThreads
  <2>3. TypeMemory'
    BY <1>2, <2>1 DEF GetPop, TypeMemory
  <2>4. TypeIo'
    BY <1>2 DEF GetPop, TypeIo
  <2>5. cLeft' \in [Callers -> Nat]
    BY <1>2 DEF GetPop, TypeThreads
  <2>6. TypeThreads'
    BY <1>2, <2>2, <2>5 DEF GetPop, TypeThreads, Goto, CallerPlaces
  <2> QED
    BY <2>3, <2>4, <2>6
<1>3. CASE GetCount(c)
  <2>1. TypeMemory' /\ TypeIo'
    BY <1>3 DEF GetCount, TypeMemory, TypeIo
  <2>2. TypeThreads'
    BY <1>3 DEF GetCount, TypeThreads, Goto, CallerPlaces
  <2> QED
    BY <2>1, <2>2
<1>4. CASE GetEnd(c)
  <2>1. TypeMemory' /\ TypeIo'
    BY <1>4 DEF GetEnd, TypeMemory, TypeIo
  <2>2. CASE Return(c)
    BY <1>4, <2>1, <2>2, ReturnType DEF GetEnd, TypeThreads
  <2>3. CASE Goto(c, "getLoad") /\ UNCHANGED locals
    <3>1. TypeThreads'
      BY <1>4, <2>3 DEF GetEnd, TypeThreads, Goto, CallerPlaces
    <3> QED
      BY <2>1, <3>1
  <2> QED
    BY <1>4, <2>2, <2>3 DEF GetEnd
<1>5. CASE GetLoad(c)
  <2>1. TypeMemory' /\ TypeIo'
    BY <1>5 DEF GetLoad, TypeMemory, TypeIo
  <2>2. TypeThreads'
    BY <1>5 DEF GetLoad, TypeThreads, TypeMemory, Goto, CallerPlaces
  <2> QED
    BY <2>1, <2>2
<1>6. CASE GetSave(c)
  <2>1. TypeMemory'
    BY <1>6 DEF GetSave, TypeMemory
  <2>2. cVal[c] \in Nat
    BY DEF TypeThreads
  <2>3. Sound([db EXCEPT !.removed = cVal[c]])
    BY <2>2, SoundType, SoundChanges
  <2>4. TypeIo'
    BY <1>6, <2>3, WriteType DEF GetSave, TypeIo
  <2>5. TypeThreads'
    BY <1>6, ReturnType DEF GetSave, TypeThreads
  <2> QED
    BY <2>1, <2>4, <2>5
<1> QED
  BY <1>1, <1>2, <1>3, <1>4, <1>5, <1>6

LEMMA OtherTypes ==
  ASSUME Types, NEW c \in Callers,
         PendingBegin(c) \/ PendingPop(c) \/ PendingPush(c)
           \/ Close(c) \/ SetMode(c) \/ Start(c)
  PROVE  Types'
<1> USE DEF Types
<1>1. CASE PendingBegin(c)
  <2>1. TypeMemory' /\ TypeIo'
    BY <1>1 DEF PendingBegin, TypeMemory, TypeIo
  <2>2. TypeThreads'
    BY <1>1 DEF PendingBegin, TypeThreads, Goto, CallerPlaces
  <2> QED
    BY <2>1, <2>2
<1>2. CASE PendingPop(c)
  <2>1. TypeIo'
    BY <1>2 DEF PendingPop, TypeIo
  <2>2. CASE itemQueue # << >>
    <3>1. /\ itemQueue' = Tail(itemQueue)
          /\ cBuf' = [cBuf EXCEPT ![c] = Append(@, Head(itemQueue))]
          /\ UNCHANGED cpc
      BY <1>2, <2>2 DEF PendingPop
    <3>2. Head(itemQueue) \in Items /\ Tail(itemQueue) \in Seq(Items)
      BY <2>2, SeqTypes DEF TypeMemory
    <3>3. Append(cBuf[c], Head(itemQueue)) \in Seq(Items)
      BY <3>2, SeqTypes DEF TypeThreads
    <3>4. TypeMemory'
      BY <1>2, <3>1, <3>2 DEF PendingPop, TypeMemory
    <3>5. TypeThreads'
      BY <1>2, <3>1, <3>3 DEF PendingPop, TypeThreads
    <3> QED
      BY <2>1, <3>4, <3>5
  <2>3. CASE itemQueue = << >>
    <3>1. TypeMemory'
      BY <1>2, <2>3 DEF PendingPop, TypeMemory
    <3>2. TypeThreads'
      BY <1>2, <2>3 DEF PendingPop, TypeThreads, Goto, CallerPlaces
    <3> QED
      BY <2>1, <3>1, <3>2
  <2> QED
    BY <2>2, <2>3
<1>3. CASE PendingPush(c)
  <2>1. TypeIo'
    BY <1>3 DEF PendingPush, TypeIo
  <2>2. CASE cBuf[c] # << >>
    <3>1. /\ itemQueue' = Append(itemQueue, Head(cBuf[c]))
          /\ cBuf' = [cBuf EXCEPT ![c] = Tail(@)]
          /\ UNCHANGED <<cpc, cItem, cLeft, cVal>>
      BY <1>3, <2>2 DEF PendingPush
    <3>2. Head(cBuf[c]) \in Items /\ Tail(cBuf[c]) \in Seq(Items)
      BY <2>2, SeqTypes DEF TypeThreads
    <3>3. Append(itemQueue, Head(cBuf[c])) \in Seq(Items)
      BY <3>2, SeqTypes DEF TypeMemory
    <3>4. TypeMemory'
      BY <1>3, <3>1, <3>3 DEF PendingPush, TypeMemory
    <3>5. TypeThreads'
      BY <1>3, <3>1, <3>2 DEF PendingPush, TypeThreads
    <3> QED
      BY <2>1, <3>4, <3>5
  <2>3. CASE cBuf[c] = << >>
    <3>1. TypeMemory'
      BY <1>3, <2>3 DEF PendingPush, TypeMemory
    <3>2. TypeThreads'
      BY <1>3, <2>3, ReturnType DEF PendingPush, TypeThreads
    <3> QED
      BY <2>1, <3>1, <3>2
  <2> QED
    BY <2>2, <2>3
<1>4. CASE Close(c)
  BY <1>4 DEF Close, TypeMemory, TypeIo, TypeThreads
<1>5. CASE SetMode(c)
  BY <1>5 DEF SetMode, TypeMemory, TypeIo, TypeThreads
<1>6. CASE Start(c)
  <2>1. TypeMemory' /\ TypeIo'
    BY <1>6 DEF Start, TypeMemory, TypeIo
  <2>2. wpc' \in [Workers -> WorkerPlaces]
    BY <1>6 DEF Start, TypeThreads, WorkerPlaces
  <2>3. TypeThreads'
    BY <1>6, <2>2 DEF Start, TypeThreads
  <2> QED
    BY <2>1, <2>3
<1> QED
  BY <1>1, <1>2, <1>3, <1>4, <1>5, <1>6

LEMMA WorkerTypes ==
  ASSUME Types, NEW w \in Workers, WorkerStep(w)
  PROVE  Types'
<1> USE DEF Types
<1>1. CASE WorkerPop(w)
  <2>1. TypeIo'
    BY <1>1 DEF WorkerPop, TypeIo
  <2>2. CASE /\ itemQueue # << >> /\ itemQueue' = Tail(itemQueue)
             /\ wItem' = [wItem EXCEPT ![w] = Head(itemQueue)]
             /\ WorkerGoto(w, "check")
    <3>1. Head(itemQueue) \in Items /\ Tail(itemQueue) \in Seq(Items)
      BY <2>2, SeqTypes DEF TypeMemory
    <3>2. TypeMemory'
      BY <1>1, <2>2, <3>1 DEF WorkerPop, TypeMemory
    <3>3. TypeThreads'
      BY <1>1, <2>2, <3>1 DEF WorkerPop, TypeThreads, WorkerGoto, WorkerPlaces
    <3> QED
      BY <2>1, <3>2, <3>3
  <2>3. CASE WorkerGoto(w, "empty") /\ UNCHANGED <<itemQueue, wItem>>
    <3>1. TypeMemory'
      BY <1>1, <2>3 DEF WorkerPop, TypeMemory
    <3>2. TypeThreads'
      BY <1>1, <2>3 DEF WorkerPop, TypeThreads, WorkerGoto, WorkerPlaces
    <3> QED
      BY <2>1, <3>1, <3>2
  <2> QED
    BY <1>1, <2>2, <2>3 DEF WorkerPop
<1>2. CASE WorkerEmpty(w) \/ WorkerCheck(w) \/ WorkerRun(w)
  <2>1. TypeMemory' /\ TypeIo'
    BY <1>2 DEF WorkerEmpty, WorkerCheck, WorkerRun, TypeMemory, TypeIo
  <2>2. \E place \in WorkerPlaces : wpc' = [wpc EXCEPT ![w] = place]
    BY <1>2 DEF WorkerEmpty, WorkerCheck, WorkerRun, WorkerGoto, WorkerPlaces
  <2>3. UNCHANGED <<wItem, cpc, locals, process>>
    BY <1>2 DEF WorkerEmpty, WorkerCheck, WorkerRun
  <2>4. TypeThreads'
    BY <2>2, <2>3 DEF TypeThreads
  <2> QED
    BY <2>1, <2>4
<1>3. CASE WorkerPost(w)
  <2>1. TypeIo'
    BY <1>3 DEF WorkerPost, TypeIo
  <2>2. Append(resultQueue, wItem[w]) \in Seq(Items)
    BY SeqTypes DEF TypeMemory, TypeThreads
  <2>3. TypeMemory'
    BY <1>3, <2>2 DEF WorkerPost, TypeMemory
  <2>4. TypeThreads'
    BY <1>3 DEF WorkerPost, TypeThreads, WorkerGoto, WorkerPlaces
  <2> QED
    BY <2>1, <2>3, <2>4
<1>4. CASE WorkerUnstore(w)
  <2>1. TypeMemory'
    BY <1>4 DEF WorkerUnstore, TypeMemory
  <2>2. Sound([db EXCEPT !.items = Without(@, wItem[w].id)])
    BY SoundType, SoundChanges
  <2>3. TypeIo'
    BY <1>4, <2>2, WriteType DEF WorkerUnstore, TypeIo
  <2>4. TypeThreads'
    BY <1>4, ItemTypes DEF WorkerUnstore, TypeThreads, WorkerGoto, WorkerPlaces
  <2> QED
    BY <2>1, <2>3, <2>4
<1> QED
  BY <1>1, <1>2, <1>3, <1>4 DEF WorkerStep

LEMMA IoTypes ==
  ASSUME Types, IoStep
  PROVE  Types'
<1> USE DEF Types
<1>1. TypeMemory'
  BY DEF IoStep, IoReceive, IoTimeout, IoWriteItem, IoWriteCounter, IoFlush,
         TypeMemory
<1>2. phase' = phase \/ phase' = "dropped"
  BY DEF IoStep, IoReceive, IoTimeout, IoWriteItem, IoWriteCounter, IoFlush
<1>3. UNCHANGED <<workers, cpc, locals, workload, lives, crashes>>
  BY DEF IoStep, IoReceive, IoTimeout, IoWriteItem, IoWriteCounter, IoFlush
<1>4. TypeThreads'
  BY <1>2, <1>3 DEF TypeThreads
<1>5. CASE IoReceive
  <2> DEFINE msg == Head(channel)
  <2>1. msg \in Messages /\ channel' \in Seq(Messages)
    BY <1>5, SeqTypes DEF IoReceive, TypeIo
  <2>2. msg.item \in Items /\ msg.val \in Nat
    BY <2>1, ItemTypes
  <2>3. Append(pending, msg.item) \in Seq(Items)
    BY <2>2, SeqTypes DEF TypeIo
  <2>4. /\ pending' \in Seq(Items) /\ counterVal' \in Nat
        /\ ioPc' \in {"recv", "write", "exit"} /\ ioStop' \in BOOLEAN
    BY <1>5, <2>2, <2>3 DEF IoReceive, TypeIo
  <2>5. TypeIo'
    BY <1>5, <2>1, <2>4 DEF IoReceive, TypeIo
  <2> QED
    BY <1>1, <1>4, <2>5
<1>6. CASE IoTimeout
  <2>1. TypeIo'
    BY <1>6 DEF IoTimeout, TypeIo
  <2> QED
    BY <1>1, <1>4, <2>1
<1>7. CASE IoWriteItem
  <2>1. Head(pending) \in Items /\ Tail(pending) \in Seq(Items)
    BY <1>7, SeqTypes DEF IoWriteItem, TypeIo
  <2>2. Sound([db EXCEPT !.items =
                 Without(@, Head(pending).id) \cup {Head(pending)}])
    BY <2>1, SoundType, SoundChanges
  <2>3. TypeIo'
    BY <1>7, <2>1, <2>2, WriteType DEF IoWriteItem, TypeIo
  <2> QED
    BY <1>1, <1>4, <2>3
<1>8. CASE IoWriteCounter
  <2>1. counterVal \in Nat /\ 0 \in Nat /\ pending \in Seq(Items)
    BY DEF TypeIo
  <2>2. Sound([db EXCEPT !.counter = counterVal])
    BY <2>1, SoundType, SoundChanges
  <2>3. TypeIo'
    BY <1>8, <2>1, <2>2, WriteType DEF IoWriteCounter
  <2> QED
    BY <1>1, <1>4, <2>3
<1>9. CASE IoFlush
  <2>1. TypeIo'
    BY <1>9 DEF IoFlush, TypeIo
  <2> QED
    BY <1>1, <1>4, <2>1
<1> QED
  BY <1>5, <1>6, <1>7, <1>8, <1>9 DEF IoStep

LEMMA LifeTypes ==
  ASSUME Types, Drop \/ End \/ Open
  PROVE  Types'
<1> USE DEF Types
<1>1. CASE Drop
  <2>1. channel' \in Seq(Messages)
    BY <1>1, ItemTypes, SeqTypes DEF Drop, TypeIo
  <2>2. TypeMemory' /\ TypeIo'
    BY <1>1, <2>1 DEF Drop, TypeMemory, TypeIo
  <2>3. TypeThreads'
    BY <1>1 DEF Drop, TypeThreads
  <2> QED
    BY <2>2, <2>3
<1>2. CASE End
  <2>1. TypeMemory'
    BY <1>2, EmptyType DEF End, FreshMemory, TypeMemory
  <2>2. TypeIo'
    BY <1>2, EmptyType DEF End, FreshMemory, TypeIo
  <2>3. crashes' \in 0 .. MaxCrashes
    BY <1>2, LifeAssumption DEF End, TypeThreads
  <2>4. UNCHANGED <<workload, lives>> /\ phase' = "down"
    BY <1>2 DEF End
  <2>5. /\ wpc' \in [Workers -> WorkerPlaces] /\ wItem' \in [Workers -> Items]
        /\ cpc' \in [Callers -> CallerPlaces] /\ cItem' \in [Callers -> Items]
        /\ cLeft' \in [Callers -> Nat] /\ cVal' \in [Callers -> Nat]
        /\ cBuf' \in [Callers -> Seq(Items)]
    BY <1>2, EmptyType, ItemTypes
       DEF End, FreshMemory, WorkerPlaces, CallerPlaces
  <2>6. TypeThreads'
    BY <2>3, <2>4, <2>5 DEF TypeThreads
  <2> QED
    BY <2>1, <2>2, <2>6
<1>3. CASE Open
  <2>1. Sound(db) /\ db.items \subseteq Items /\ db.counter \in Nat
        /\ db.removed \in Nat
    BY SoundType DEF Sound, Contents
  <2>2. Cardinality(db.items) \in Nat
    BY <2>1, FS_CardinalityType DEF Sound
  <2>3. PICK q \in [1 .. Cardinality(db.items) -> db.items] : itemQueue' = q
    BY <1>3 DEF Open
  <2>4. q \in Seq(Items)
    BY <2>1, <2>2, <2>3
  <2>5. TypeMemory' /\ TypeIo'
    BY <1>3, <2>1, <2>3, <2>4 DEF Open, TypeMemory, TypeIo
  <2>6. lives' \in 1 .. MaxLives
    BY <1>3, LifeAssumption DEF Open, TypeThreads
  <2>7. TypeThreads'
    BY <1>3, <2>6 DEF Open, TypeThreads
  <2> QED
    BY <2>5, <2>7
<1> QED
  BY <1>1, <1>2, <1>3

-----------------------------------------------------------------------------
(* Where items are, and how they get there.                                *)

ItemPlaces == {"pushSend", "pushCount", "pushSendCount", "pushIndex",
               "pushItem", "batchSend", "clearDb"}
BufPlaces == {"batchAlloc", "batchSend", "batchCount", "batchSendCount",
              "batchItem", "pendPop", "pendPush"}
WorkPlaces == {"check", "run", "post", "unstore"}

(* The items a caller, and a worker, holds. *)
HandOf(c) == IF cpc[c] \in ItemPlaces THEN {cItem[c]} ELSE {}
BufOf(c) == IF cpc[c] \in BufPlaces THEN Range(cBuf[c]) ELSE {}
WorkOf(w) == IF wpc[w] \in WorkPlaces THEN {wItem[w]} ELSE {}

(* The items on their way to the database, and those in what is left of it *)
(* after some crash.                                                       *)
Inserts(s) == {m.item : m \in {n \in Range(s) : n.op = "insert"}}
ToWrite == Range(pending) \cup Inserts(channel)
Stored == UNION {d.items : d \in recoverable}

Held == UNION {HandOf(c) \cup BufOf(c) : c \in Callers}
Worked == UNION {WorkOf(w) : w \in Workers}

Around == Range(itemQueue) \cup ToWrite \cup Stored \cup Held \cup Worked

NewItem == [id |-> counter + 1, job |-> jobs + 1]

LocalsInv == \A c \in Callers : cpc[c] = "idle" => cBuf[c] = << >>

LEMMA CallerAlone ==
  ASSUME Types, NEW c \in Callers, CallerStep(c), NEW d \in Callers, d # c
  PROVE  /\ cpc'[d] = cpc[d] /\ cItem'[d] = cItem[d] /\ cVal'[d] = cVal[d]
         /\ cBuf'[d] = cBuf[d] /\ cLeft'[d] = cLeft[d]
<1> USE DEF Types, TypeThreads
<1>1. CASE Return(c)
  BY <1>1 DEF Return, Goto
<1>2. CASE PushBegin(c) \/ Allocate(c) \/ SendInsert(c) \/ LoadCounter(c)
             \/ SendCounter(c) \/ Index(c)
  BY <1>2 DEF PushBegin, Allocate, SendInsert, LoadCounter, SendCounter, Index,
              Goto
<1>3. CASE PushItem(c)
  BY <1>1, <1>3 DEF PushItem
<1>4. CASE RemoveUnindex(c) \/ RemoveMark(c) \/ ClearBegin(c) \/ ClearPop(c)
             \/ ClearDb(c) \/ ClearReturn(c)
  BY <1>1, <1>4 DEF RemoveUnindex, RemoveMark, ClearBegin, ClearPop, ClearDb,
                    ClearReturn, Goto
<1>5. CASE GetBegin(c) \/ GetPop(c) \/ GetCount(c) \/ GetEnd(c) \/ GetLoad(c)
             \/ GetSave(c)
  BY <1>1, <1>5 DEF GetBegin, GetPop, GetCount, GetEnd, GetLoad, GetSave, Goto
<1>6. CASE PendingBegin(c) \/ PendingPop(c) \/ PendingPush(c)
             \/ Close(c) \/ SetMode(c) \/ Start(c)
  BY <1>1, <1>6 DEF PendingBegin, PendingPop, PendingPush, Close, SetMode,
                    Start, Goto
<1> QED
  BY <1>2, <1>3, <1>4, <1>5, <1>6 DEF CallerStep

LEMMA InsertsChange ==
  ASSUME NEW s \in Seq(Messages)
  PROVE  /\ \A m \in Messages :
              Inserts(Append(s, m)) =
                Inserts(s) \cup (IF m.op = "insert" THEN {m.item} ELSE {})
         /\ s # << >> =>
              /\ Inserts(Tail(s)) \subseteq Inserts(s)
              /\ Head(s).op = "insert" => Head(s).item \in Inserts(s)
<1>1. ASSUME NEW m \in Messages
      PROVE  Inserts(Append(s, m)) =
               Inserts(s) \cup (IF m.op = "insert" THEN {m.item} ELSE {})
  <2>1. Range(Append(s, m)) = Range(s) \cup {m}
    BY AppendRange
  <2> QED
    BY <2>1 DEF Inserts
<1>2. ASSUME s # << >>
      PROVE  Range(Tail(s)) \subseteq Range(s) /\ Head(s) \in Range(s)
  <2>1. \A k \in DOMAIN Tail(s) : k + 1 \in DOMAIN s /\ Tail(s)[k] = s[k + 1]
    BY <1>2
  <2>2. 1 \in DOMAIN s /\ Head(s) = s[1]
    BY <1>2
  <2> QED
    BY <2>1, <2>2 DEF Range
<1> QED
  BY <1>1, <1>2 DEF Inserts

LEMMA StoredChange ==
  ASSUME Types
  PROVE  /\ \A new : Write(new) => Stored' = Stored \cup new.items
         /\ db.items \subseteq Stored
         /\ \A id : [db EXCEPT !.items = Without(@, id)].items =
                      Without(db.items, id)
         /\ \A n : /\ [db EXCEPT !.counter = n].items = db.items
                   /\ [db EXCEPT !.removed = n].items = db.items
         /\ \A id, i : [db EXCEPT !.items = Without(@, id) \cup {i}].items =
                         Without(db.items, id) \cup {i}
         /\ \A id : Without(db.items, id) \subseteq db.items
         /\ \A left \in recoverable : recoverable' = {left} =>
              Stored' \subseteq Stored
         /\ UNCHANGED recoverable => Stored' = Stored
<1>1. db \in Contents /\ db \in recoverable
  BY DEF Types, TypeIo
<1>2. /\ \A id : [db EXCEPT !.items = Without(@, id)].items =
                   Without(db.items, id)
      /\ \A n : /\ [db EXCEPT !.counter = n].items = db.items
                /\ [db EXCEPT !.removed = n].items = db.items
      /\ \A id, i : [db EXCEPT !.items = Without(@, id) \cup {i}].items =
                      Without(db.items, id) \cup {i}
  BY <1>1 DEF Contents
<1>3. \A id : Without(db.items, id) \subseteq db.items
  BY DEF Without
<1>4. db.items \subseteq Stored
  BY <1>1 DEF Stored
<1>5. \A new : Write(new) => Stored' = Stored \cup new.items
  BY DEF Write, Stored
<1> QED
  BY <1>2, <1>3, <1>4, <1>5 DEF Stored

(* What a step of a caller moves.  Only Allocate makes an item. *)
LEMMA CallerFlow ==
  ASSUME Types, LocalsInv, NEW c \in Callers, CallerStep(c)
  PROVE  /\ Range(itemQueue') \subseteq Range(itemQueue) \cup HandOf(c) \cup BufOf(c)
         /\ ToWrite' \subseteq ToWrite \cup HandOf(c)
         /\ Stored' \subseteq Stored
         /\ HandOf(c)' \subseteq HandOf(c) \cup Range(itemQueue)
              \cup (IF Allocate(c) THEN {NewItem} ELSE {})
         /\ BufOf(c)' \subseteq BufOf(c) \cup HandOf(c) \cup Range(itemQueue)
         /\ UNCHANGED wItem
<1> USE DEF Types
<1>0. /\ itemQueue \in Seq(Items) /\ cBuf[c] \in Seq(Items) /\ cItem[c] \in Items
      /\ channel \in Seq(Messages)
      /\ cpc \in [Callers -> CallerPlaces] /\ cItem \in [Callers -> Items]
      /\ cBuf \in [Callers -> Seq(Items)]
  BY DEF TypeMemory, TypeThreads, TypeIo
<1>1. CASE Allocate(c)
  <2>1. /\ UNCHANGED <<itemQueue, channel, pending, recoverable, cBuf, wItem>>
        /\ cItem'[c] = NewItem /\ cpc[c] \in {"pushAlloc", "batchAlloc"}
        /\ cpc[c] = "pushAlloc" => cpc'[c] = "pushSend"
        /\ cpc[c] = "batchAlloc" => cpc'[c] = "batchSend"
    BY <1>0, <1>1 DEF Allocate, NewItem, Goto
  <2>2. HandOf(c)' \subseteq {NewItem} /\ BufOf(c)' \subseteq BufOf(c)
    BY <2>1 DEF HandOf, BufOf, ItemPlaces, BufPlaces
  <2> QED
    BY <1>1, <2>1, <2>2 DEF ToWrite, Stored
<1>2. CASE SendInsert(c)
  <2>1. /\ UNCHANGED <<itemQueue, pending, recoverable, cItem, wItem>>
        /\ cpc[c] \in {"pushSend", "batchSend"}
        /\ cpc[c] = "pushSend" => cpc'[c] = "pushCount" /\ UNCHANGED cBuf
        /\ cpc[c] = "batchSend" =>
             cpc'[c] = "batchAlloc" /\ cBuf'[c] = Append(cBuf[c], cItem[c])
        /\ channel' = Append(channel, Insert(cItem[c]))
    BY <1>0, <1>2 DEF SendInsert, Goto
  <2>2. Insert(cItem[c]) \in Messages /\ Insert(cItem[c]).op = "insert"
        /\ Insert(cItem[c]).item = cItem[c]
    BY <1>0, ItemTypes DEF Insert
  <2>3. Inserts(channel') = Inserts(channel) \cup {cItem[c]}
    BY <1>0, <2>1, <2>2, InsertsChange
  <2>4. Range(Append(cBuf[c], cItem[c])) = Range(cBuf[c]) \cup {cItem[c]}
    BY <1>0, AppendRange
  <2>5. HandOf(c) = {cItem[c]} /\ HandOf(c)' \subseteq HandOf(c)
        /\ BufOf(c)' \subseteq BufOf(c) \cup {cItem[c]}
    BY <2>1, <2>4 DEF HandOf, BufOf, ItemPlaces, BufPlaces
  <2> QED
    BY <2>1, <2>3, <2>5 DEF ToWrite, Stored
<1>3. CASE PushItem(c)
  <2>1. UNCHANGED <<channel, pending, recoverable, wItem>>
    BY <1>3 DEF PushItem
  <2>2. CASE cpc[c] = "pushItem"
    <3>1. itemQueue' = Append(itemQueue, cItem[c]) /\ cpc'[c] = "idle"
      BY <1>0, <1>3, <2>2 DEF PushItem, Return, Goto
    <3>2. Range(itemQueue') = Range(itemQueue) \cup {cItem[c]}
      BY <1>0, <3>1, AppendRange
    <3>3. HandOf(c) = {cItem[c]} /\ HandOf(c)' = {} /\ BufOf(c)' = {}
      BY <2>2, <3>1 DEF HandOf, BufOf, ItemPlaces, BufPlaces
    <3> QED
      BY <2>1, <3>2, <3>3 DEF ToWrite, Stored
  <2>3. CASE cpc[c] = "batchItem" /\ cBuf[c] # << >>
    <3>1. itemQueue' = Append(itemQueue, Head(cBuf[c])) /\ UNCHANGED cpc
          /\ cBuf'[c] = Tail(cBuf[c])
      BY <1>0, <1>3, <2>3 DEF PushItem
    <3>2. /\ Range(cBuf[c]) = Range(Tail(cBuf[c])) \cup {Head(cBuf[c])}
          /\ Head(cBuf[c]) \in Items
      BY <1>0, <2>3, TailPart
    <3>3. Range(itemQueue') = Range(itemQueue) \cup {Head(cBuf[c])}
      BY <1>0, <3>1, <3>2, AppendRange
    <3>4. HandOf(c)' = {} /\ BufOf(c) = Range(cBuf[c]) /\ BufOf(c)' = Range(cBuf'[c])
      BY <2>3, <3>1 DEF HandOf, BufOf, ItemPlaces, BufPlaces
    <3> QED
      BY <2>1, <3>1, <3>2, <3>3, <3>4 DEF ToWrite, Stored
  <2>4. CASE cpc[c] = "batchItem" /\ cBuf[c] = << >>
    <3>1. UNCHANGED itemQueue /\ cpc'[c] = "idle"
      BY <1>0, <1>3, <2>4 DEF PushItem, Return, Goto
    <3> QED
      BY <2>1, <3>1 DEF ToWrite, Stored, HandOf, BufOf, ItemPlaces, BufPlaces
  <2> QED
    BY <1>3, <2>2, <2>3, <2>4 DEF PushItem
<1>4. CASE ClearPop(c)
  <2>1. UNCHANGED <<channel, pending, recoverable, wItem, cBuf>>
        /\ cpc'[c] = "clearDb" /\ cItem'[c] = Head(itemQueue)
        /\ itemQueue # << >> /\ itemQueue' = Tail(itemQueue)
    BY <1>0, <1>4 DEF ClearPop, Goto
  <2>2. Range(itemQueue) = Range(Tail(itemQueue)) \cup {Head(itemQueue)}
    BY <1>0, <2>1, TailPart
  <2>3. HandOf(c)' = {Head(itemQueue)} /\ BufOf(c)' = {}
    BY <2>1 DEF HandOf, BufOf, ItemPlaces, BufPlaces
  <2> QED
    BY <2>1, <2>2, <2>3 DEF ToWrite, Stored
<1>5. CASE ClearDb(c) \/ ClearReturn(c) \/ GetSave(c)
  <2>1. UNCHANGED <<itemQueue, channel, pending, wItem>>
        /\ cpc'[c] \in {"clear", "idle"}
    BY <1>0, <1>5 DEF ClearDb, ClearReturn, GetSave, Return, Goto
  <2>2. Stored' \subseteq Stored
    <3>1. CASE ClearDb(c)
      <4>1. Stored' =
              Stored \cup [db EXCEPT !.items = Without(@, cItem[c].id)].items
        BY <3>1, StoredChange DEF ClearDb
      <4> QED
        BY <4>1, StoredChange
    <3>2. CASE GetSave(c)
      BY <3>2, StoredChange DEF GetSave
    <3>3. CASE ClearReturn(c)
      BY <3>3, StoredChange DEF ClearReturn, TypeIo
    <3> QED
      BY <1>5, <3>1, <3>2, <3>3
  <2>3. HandOf(c)' = {} /\ BufOf(c)' = {}
    BY <2>1 DEF HandOf, BufOf, ItemPlaces, BufPlaces
  <2> QED
    BY <2>1, <2>2, <2>3 DEF ToWrite
<1>6. CASE PendingPop(c)
  <2>1. UNCHANGED <<channel, pending, recoverable, wItem, cItem>>
        /\ cpc[c] = "pendPop" /\ cpc'[c] \in {"pendPop", "pendPush"}
    BY <1>0, <1>6 DEF PendingPop, Goto
  <2>2. HandOf(c)' = {} /\ BufOf(c) = Range(cBuf[c]) /\ BufOf(c)' = Range(cBuf'[c])
    BY <2>1 DEF HandOf, BufOf, ItemPlaces, BufPlaces
  <2>3. CASE itemQueue # << >>
    <3>1. itemQueue' = Tail(itemQueue) /\ cBuf'[c] = Append(cBuf[c], Head(itemQueue))
      BY <1>0, <1>6, <2>3 DEF PendingPop
    <3>2. Range(itemQueue) = Range(Tail(itemQueue)) \cup {Head(itemQueue)}
          /\ Head(itemQueue) \in Items
      BY <1>0, <2>3, TailPart
    <3>3. Range(cBuf'[c]) = Range(cBuf[c]) \cup {Head(itemQueue)}
      BY <1>0, <3>1, <3>2, AppendRange
    <3> QED
      BY <2>1, <2>2, <3>1, <3>2, <3>3 DEF ToWrite, Stored
  <2>4. CASE itemQueue = << >>
    <3>1. UNCHANGED <<itemQueue, cBuf>>
      BY <1>6, <2>4 DEF PendingPop
    <3> QED
      BY <2>1, <2>2, <3>1 DEF ToWrite, Stored
  <2> QED
    BY <2>3, <2>4
<1>7. CASE PendingPush(c)
  <2>1. UNCHANGED <<channel, pending, recoverable, wItem>> /\ cpc[c] = "pendPush"
    BY <1>7 DEF PendingPush
  <2>2. BufOf(c) = Range(cBuf[c])
    BY <2>1 DEF BufOf, BufPlaces
  <2>3. CASE cBuf[c] # << >>
    <3>1. itemQueue' = Append(itemQueue, Head(cBuf[c])) /\ UNCHANGED cpc
          /\ cBuf'[c] = Tail(cBuf[c])
      BY <1>0, <1>7, <2>3 DEF PendingPush
    <3>2. /\ Range(cBuf[c]) = Range(Tail(cBuf[c])) \cup {Head(cBuf[c])}
          /\ Head(cBuf[c]) \in Items
      BY <1>0, <2>3, TailPart
    <3>3. Range(itemQueue') = Range(itemQueue) \cup {Head(cBuf[c])}
      BY <1>0, <3>1, <3>2, AppendRange
    <3>4. HandOf(c)' = {} /\ BufOf(c)' = Range(cBuf'[c])
      BY <2>1, <3>1 DEF HandOf, BufOf, ItemPlaces, BufPlaces
    <3> QED
      BY <2>1, <2>2, <3>1, <3>2, <3>3, <3>4 DEF ToWrite, Stored
  <2>4. CASE cBuf[c] = << >>
    <3>1. UNCHANGED itemQueue /\ cpc'[c] = "idle"
      BY <1>0, <1>7, <2>4 DEF PendingPush, Return, Goto
    <3> QED
      BY <2>1, <3>1 DEF ToWrite, Stored, HandOf, BufOf, ItemPlaces, BufPlaces
  <2> QED
    BY <2>3, <2>4
<1>8. CASE SendCounter(c)
  <2>1. /\ UNCHANGED <<itemQueue, pending, recoverable, wItem, cItem, cBuf>>
        /\ channel' = Append(channel, PersistCounter(cVal[c]))
        /\ cpc[c] = "pushSendCount" => cpc'[c] = "pushIndex"
        /\ cpc[c] = "batchSendCount" => cpc'[c] = "batchItem"
        /\ cpc[c] \in {"pushSendCount", "batchSendCount"}
    BY <1>0, <1>8 DEF SendCounter, Goto
  <2>2. PersistCounter(cVal[c]) \in Messages /\ PersistCounter(cVal[c]).op # "insert"
    BY ItemTypes DEF TypeThreads, PersistCounter
  <2>3. Inserts(channel') = Inserts(channel)
    BY <1>0, <2>1, <2>2, InsertsChange
  <2>4. HandOf(c)' \subseteq HandOf(c) /\ BufOf(c)' \subseteq BufOf(c)
    BY <2>1 DEF HandOf, BufOf, ItemPlaces, BufPlaces
  <2> QED
    BY <2>1, <2>3, <2>4 DEF ToWrite, Stored
<1>9. CASE PushBegin(c) \/ LoadCounter(c) \/ Index(c) \/ RemoveUnindex(c)
             \/ RemoveMark(c) \/ ClearBegin(c) \/ GetBegin(c) \/ GetPop(c)
             \/ GetCount(c) \/ GetEnd(c) \/ GetLoad(c) \/ PendingBegin(c)
             \/ Close(c) \/ SetMode(c) \/ Start(c)
  <2>1. UNCHANGED <<itemQueue, channel, pending, recoverable, wItem>>
    BY <1>9 DEF PushBegin, LoadCounter, Index, RemoveUnindex, RemoveMark,
         ClearBegin, GetBegin, GetPop, GetCount, GetEnd, GetLoad, PendingBegin,
         Close, SetMode, Start
  <2>2. cpc[c] = "idle" => BufOf(c)' = {}
    <3> SUFFICES ASSUME cpc[c] = "idle", cpc'[c] \in BufPlaces PROVE Range(cBuf'[c]) = {}
      BY DEF BufOf
    <3>1. UNCHANGED cBuf
      BY <1>0, <1>9 DEF PushBegin, LoadCounter, Index, RemoveUnindex, RemoveMark,
         ClearBegin, GetBegin, GetPop, GetCount, GetEnd, GetLoad, PendingBegin,
         Close, SetMode, Start, BufPlaces, Goto
    <3>2. cBuf'[c] = << >>
      BY <3>1 DEF LocalsInv
    <3> QED
      BY <3>2 DEF Range
  <2>3. cpc[c] # "idle" => BufOf(c)' \subseteq BufOf(c)
    BY <1>0, <1>9 DEF PushBegin, LoadCounter, Index, RemoveUnindex, RemoveMark,
         ClearBegin, GetBegin, GetPop, GetCount, GetEnd, GetLoad, PendingBegin,
         Close, SetMode, Start, BufOf, BufPlaces, Goto, Return, CanCall
  <2>4. HandOf(c)' \subseteq HandOf(c)
    BY <1>0, <1>9 DEF PushBegin, LoadCounter, Index, RemoveUnindex, RemoveMark,
         ClearBegin, GetBegin, GetPop, GetCount, GetEnd, GetLoad, PendingBegin,
         Close, SetMode, Start, HandOf, ItemPlaces, Goto, Return, CanCall
  <2> QED
    BY <2>1, <2>2, <2>3, <2>4 DEF ToWrite, Stored
<1> QED
  BY <1>1, <1>2, <1>3, <1>4, <1>5, <1>6, <1>7, <1>8, <1>9 DEF CallerStep

(* What a step of a worker moves. *)
LEMMA WorkerFlow ==
  ASSUME Types, NEW w \in Workers, WorkerStep(w)
  PROVE  /\ Range(itemQueue') \subseteq Range(itemQueue)
         /\ Stored' \subseteq Stored
         /\ WorkOf(w)' \subseteq WorkOf(w) \cup Range(itemQueue)
         /\ UNCHANGED <<pending, channel, cpc, locals>>
         /\ \A v \in Workers \ {w} : wpc'[v] = wpc[v] /\ wItem'[v] = wItem[v]
<1> USE DEF Types
<1>0. /\ itemQueue \in Seq(Items) /\ wpc \in [Workers -> WorkerPlaces]
      /\ wItem \in [Workers -> Items]
  BY DEF TypeMemory, TypeThreads
<1>1. CASE WorkerPop(w)
  <2>1. UNCHANGED <<recoverable, pending, channel, cpc, locals>>
    BY <1>1 DEF WorkerPop
  <2>2. CASE itemQueue # << >>
    <3>1. itemQueue' = Tail(itemQueue) /\ wpc' = [wpc EXCEPT ![w] = "check"]
          /\ wItem' = [wItem EXCEPT ![w] = Head(itemQueue)]
      BY <1>1, <2>2 DEF WorkerPop, WorkerGoto
    <3>2. Range(itemQueue) = Range(Tail(itemQueue)) \cup {Head(itemQueue)}
      BY <1>0, <2>2, TailPart
    <3>3. WorkOf(w)' = {Head(itemQueue)}
      BY <1>0, <3>1 DEF WorkOf, WorkPlaces
    <3>4. \A v \in Workers \ {w} : wpc'[v] = wpc[v] /\ wItem'[v] = wItem[v]
      BY <1>0, <3>1
    <3> QED
      BY <2>1, <3>1, <3>2, <3>3, <3>4 DEF Stored
  <2>3. CASE itemQueue = << >>
    <3>1. UNCHANGED <<itemQueue, wItem>> /\ wpc' = [wpc EXCEPT ![w] = "empty"]
      BY <1>1, <2>3 DEF WorkerPop, WorkerGoto
    <3>2. WorkOf(w)' = {} /\ \A v \in Workers \ {w} : wpc'[v] = wpc[v]
      BY <1>0, <3>1 DEF WorkOf, WorkPlaces
    <3> QED
      BY <2>1, <3>1, <3>2 DEF Stored
  <2> QED
    BY <2>2, <2>3
<1>2. CASE WorkerEmpty(w) \/ WorkerCheck(w) \/ WorkerRun(w) \/ WorkerPost(w)
  <2>1. UNCHANGED <<itemQueue, recoverable, pending, channel, cpc, locals, wItem>>
    BY <1>2 DEF WorkerEmpty, WorkerCheck, WorkerRun, WorkerPost
  <2>2. \A v \in Workers \ {w} : wpc'[v] = wpc[v]
    BY <1>0, <1>2 DEF WorkerEmpty, WorkerCheck, WorkerRun, WorkerPost, WorkerGoto
  <2>3. wpc'[w] \in WorkPlaces => wpc[w] \in WorkPlaces
    BY <1>0, <1>2 DEF WorkerEmpty, WorkerCheck, WorkerRun, WorkerPost, WorkerGoto,
                      WorkPlaces
  <2>4. WorkOf(w)' \subseteq WorkOf(w)
    BY <2>1, <2>3 DEF WorkOf
  <2> QED
    BY <2>1, <2>2, <2>4 DEF Stored
<1>3. CASE WorkerUnstore(w)
  <2>1. UNCHANGED <<itemQueue, pending, channel, cpc, locals>>
        /\ wpc'[w] = "pop"
        /\ \A v \in Workers \ {w} : wpc'[v] = wpc[v] /\ wItem'[v] = wItem[v]
    BY <1>0, <1>3 DEF WorkerUnstore, WorkerGoto
  <2>2. Stored' =
          Stored \cup [db EXCEPT !.items = Without(@, wItem[w].id)].items
    BY <1>3, StoredChange DEF WorkerUnstore
  <2>3. WorkOf(w)' = {}
    BY <2>1 DEF WorkOf, WorkPlaces
  <2> QED
    BY <2>1, <2>2, <2>3, StoredChange
<1> QED
  BY <1>1, <1>2, <1>3 DEF WorkerStep

(* What a step of the I/O thread moves. *)
LEMMA IoFlow ==
  ASSUME Types, IoStep
  PROVE  /\ ToWrite' \subseteq ToWrite
         /\ Stored' \subseteq Stored \cup ToWrite
         /\ UNCHANGED <<itemQueue, cpc, locals, workers>>
<1> USE DEF Types
<1>0. UNCHANGED <<itemQueue, cpc, locals, workers>>
  BY DEF IoStep, IoReceive, IoTimeout, IoWriteItem, IoWriteCounter, IoFlush
<1>1. CASE IoReceive
  <2>1. channel # << >> /\ channel' = Tail(channel) /\ channel \in Seq(Messages)
        /\ pending \in Seq(Items) /\ UNCHANGED recoverable
        /\ pending' = IF Head(channel).op = "insert"
                      THEN Append(pending, Head(channel).item) ELSE pending
    BY <1>1 DEF IoReceive, TypeIo
  <2>2. /\ Inserts(Tail(channel)) \subseteq Inserts(channel)
        /\ Head(channel).op = "insert" => Head(channel).item \in Inserts(channel)
    BY <2>1, InsertsChange
  <2>3. Head(channel).item \in Items
    BY <2>1, SeqTypes, ItemTypes
  <2>4. Range(Append(pending, Head(channel).item)) =
          Range(pending) \cup {Head(channel).item}
    BY <2>1, <2>3, AppendRange
  <2>5. Range(pending') \subseteq Range(pending) \cup Inserts(channel)
    BY <2>1, <2>2, <2>4
  <2> QED
    BY <1>0, <2>1, <2>2, <2>5 DEF ToWrite, Stored
<1>2. CASE IoTimeout
  BY <1>0, <1>2 DEF IoTimeout, ToWrite, Stored
<1>3. CASE IoWriteItem
  <2>1. pending \in Seq(Items) /\ pending # << >> /\ pending' = Tail(pending)
        /\ UNCHANGED channel
    BY <1>3 DEF IoWriteItem, TypeIo
  <2>2. Range(pending) = Range(Tail(pending)) \cup {Head(pending)}
    BY <2>1, TailPart
  <2>3. Stored' = Stored \cup
          [db EXCEPT !.items =
             Without(@, Head(pending).id) \cup {Head(pending)}].items
    BY <1>3, StoredChange DEF IoWriteItem
  <2>4. Stored' = Stored \cup Without(db.items, Head(pending).id) \cup {Head(pending)}
    BY <2>3, StoredChange
  <2>5. Without(db.items, Head(pending).id) \subseteq Stored
    BY StoredChange
  <2> QED
    BY <1>0, <2>1, <2>2, <2>4, <2>5 DEF ToWrite
<1>4. CASE IoWriteCounter
  <2>1. Stored' = Stored \cup [db EXCEPT !.counter = counterVal].items
    BY <1>4, StoredChange DEF IoWriteCounter
  <2>2. UNCHANGED <<pending, channel>>
    BY <1>4 DEF IoWriteCounter
  <2>3. Stored' = Stored \cup db.items
    BY <2>1, StoredChange
  <2> QED
    BY <1>0, <2>2, <2>3, StoredChange DEF ToWrite
<1>5. CASE IoFlush
  BY <1>0, <1>5 DEF IoFlush, ToWrite, Stored, TypeIo
<1> QED
  BY <1>1, <1>2, <1>3, <1>4, <1>5 DEF IoStep

(* What the end and the start of a life move. *)
LEMMA LifeFlow ==
  ASSUME Types, Drop \/ End \/ Open
  PROVE  /\ Stored' \subseteq Stored
         /\ ToWrite' \subseteq ToWrite
         /\ Range(itemQueue') \subseteq Range(itemQueue) \cup Stored
         /\ (Drop \/ Open) => UNCHANGED <<cpc, locals, workers>>
         /\ End => /\ \A c \in Callers : cpc'[c] = "idle" /\ cBuf'[c] = << >>
                   /\ \A w \in Workers : wpc'[w] = "none"
<1> USE DEF Types
<1>1. CASE Drop
  <2>1. UNCHANGED <<itemQueue, pending, recoverable, cpc, locals, workers>>
        /\ channel' = Append(channel, Shutdown) /\ channel \in Seq(Messages)
    BY <1>1 DEF Drop, TypeIo
  <2>2. Shutdown \in Messages /\ Shutdown.op # "insert"
    BY ItemTypes DEF Shutdown
  <2>3. Inserts(channel') = Inserts(channel)
    BY <2>1, <2>2, InsertsChange
  <2>4. ~End
    BY <1>1 DEF Drop, End
  <2> QED
    BY <2>1, <2>3, <2>4 DEF Stored, ToWrite
<1>2. CASE End
  <2>1. /\ itemQueue' = << >> /\ pending' = << >> /\ channel' = << >>
        /\ \A c \in Callers : cpc'[c] = "idle" /\ cBuf'[c] = << >>
        /\ \A w \in Workers : wpc'[w] = "none"
    BY <1>2 DEF End, FreshMemory
  <2>2. \E left \in recoverable : recoverable' = {left}
    BY <1>2 DEF End
  <2>3. Range(<< >>) = {} /\ Inserts(<< >>) = {}
    BY DEF Range, Inserts
  <2>4. ~Drop /\ ~Open
    BY <1>2 DEF Drop, End, Open
  <2> QED
    BY <2>1, <2>2, <2>3, <2>4, StoredChange DEF ToWrite
<1>3. CASE Open
  <2>1. UNCHANGED <<pending, channel, recoverable, cpc, locals, workers>>
    BY <1>3 DEF Open
  <2>2. PICK q \in [1 .. Cardinality(db.items) -> db.items] : itemQueue' = q
    BY <1>3 DEF Open
  <2>3. Range(q) \subseteq db.items
    BY <2>2 DEF Range
  <2>4. ~End
    BY <1>3 DEF End, Open
  <2> QED
    BY <2>1, <2>2, <2>3, <2>4, StoredChange DEF ToWrite, Stored
<1> QED
  BY <1>1, <1>2, <1>3

(* Every step but Allocate only moves or drops items. *)
LEMMA AroundStep ==
  ASSUME Types, LocalsInv, Next
  PROVE  Around' \subseteq
           Around \cup (IF \E c \in Callers : Allocate(c) THEN {NewItem} ELSE {})
<1> DEFINE Made == IF \E c \in Callers : Allocate(c) THEN {NewItem} ELSE {}
<1>a. \A i : i \in Around <=>
               \/ i \in Range(itemQueue) \/ i \in ToWrite \/ i \in Stored
               \/ \E c \in Callers : i \in HandOf(c) \/ i \in BufOf(c)
               \/ \E w \in Workers : i \in WorkOf(w)
  <2>1. \A i : i \in Held <=> \E c \in Callers : i \in HandOf(c) \/ i \in BufOf(c)
    BY DEF Held
  <2>2. \A i : i \in Worked <=> \E w \in Workers : i \in WorkOf(w)
    BY DEF Worked
  <2> QED
    BY <2>1, <2>2 DEF Around
<1>b. \A i : i \in Around' <=>
               \/ i \in Range(itemQueue') \/ i \in ToWrite' \/ i \in Stored'
               \/ \E c \in Callers : i \in HandOf(c)' \/ i \in BufOf(c)'
               \/ \E w \in Workers : i \in WorkOf(w)'
  <2>1. \A i : i \in Held' <=> \E c \in Callers : i \in HandOf(c)' \/ i \in BufOf(c)'
    BY DEF Held
  <2>2. \A i : i \in Worked' <=> \E w \in Workers : i \in WorkOf(w)'
    BY DEF Worked
  <2> QED
    BY <2>1, <2>2 DEF Around
<1>0. /\ Range(itemQueue) \subseteq Around /\ ToWrite \subseteq Around
      /\ Stored \subseteq Around
      /\ \A c \in Callers : HandOf(c) \subseteq Around /\ BufOf(c) \subseteq Around
      /\ \A w \in Workers : WorkOf(w) \subseteq Around
  BY <1>a
<1>1. ASSUME /\ Range(itemQueue') \subseteq Around \cup Made
             /\ ToWrite' \subseteq Around \cup Made
             /\ Stored' \subseteq Around \cup Made
             /\ \A c \in Callers :
                  HandOf(c)' \cup BufOf(c)' \subseteq Around \cup Made
             /\ \A w \in Workers : WorkOf(w)' \subseteq Around \cup Made
      PROVE  Around' \subseteq Around \cup Made
  <2> HIDE DEF Made
  <2> QED
    BY <1>1, <1>b
<1>2. ASSUME NEW c \in Callers, CallerStep(c)
      PROVE  Around' \subseteq Around \cup Made
  <2>1. /\ Range(itemQueue') \subseteq Range(itemQueue) \cup HandOf(c) \cup BufOf(c)
        /\ ToWrite' \subseteq ToWrite \cup HandOf(c)
        /\ Stored' \subseteq Stored
        /\ HandOf(c)' \subseteq HandOf(c) \cup Range(itemQueue)
             \cup (IF Allocate(c) THEN {NewItem} ELSE {})
        /\ BufOf(c)' \subseteq BufOf(c) \cup HandOf(c) \cup Range(itemQueue)
        /\ UNCHANGED wItem
    BY <1>2, CallerFlow
  <2>2. \A d \in Callers \ {c} : HandOf(d)' = HandOf(d) /\ BufOf(d)' = BufOf(d)
    BY <1>2, CallerAlone DEF HandOf, BufOf
  <2>3. \A w \in Workers : WorkOf(w)' \subseteq Around
    <3>1. CASE Start(c)
      <4>1. \A w \in Workers : wpc'[w] \in {"pop", "none"}
        BY <3>1 DEF Start
      <4> QED
        BY <4>1 DEF WorkOf, WorkPlaces
    <3>2. CASE ~Start(c)
      <4>1. UNCHANGED wpc
        BY <1>2, <3>2 DEF CallerStep, PushBegin, Allocate, SendInsert, LoadCounter,
          SendCounter, Index, PushItem, RemoveUnindex, RemoveMark, ClearBegin,
          ClearPop, ClearDb, ClearReturn, GetBegin, GetPop, GetCount, GetEnd,
          GetLoad, GetSave, PendingBegin, PendingPop, PendingPush, Close, SetMode
      <4> QED
        BY <1>0, <2>1, <4>1 DEF WorkOf
    <3> QED
      BY <3>1, <3>2
  <2>4. (IF Allocate(c) THEN {NewItem} ELSE {}) \subseteq Made
    OBVIOUS
  <2>5. \A d \in Callers : HandOf(d)' \cup BufOf(d)' \subseteq Around \cup Made
    BY <1>0, <2>1, <2>2, <2>4
  <2> QED
    BY <1>0, <1>1, <2>1, <2>3, <2>5
<1>3. ASSUME NEW w \in Workers, WorkerStep(w)
      PROVE  Around' \subseteq Around \cup Made
  <2>1. /\ Range(itemQueue') \subseteq Range(itemQueue)
        /\ Stored' \subseteq Stored
        /\ WorkOf(w)' \subseteq WorkOf(w) \cup Range(itemQueue)
        /\ UNCHANGED <<pending, channel, cpc, locals>>
        /\ \A v \in Workers \ {w} : wpc'[v] = wpc[v] /\ wItem'[v] = wItem[v]
    BY <1>3, WorkerFlow
  <2>2. \A v \in Workers : WorkOf(v)' \subseteq Around
    BY <1>0, <2>1 DEF WorkOf
  <2>3. \A c \in Callers : HandOf(c)' = HandOf(c) /\ BufOf(c)' = BufOf(c)
    BY <2>1 DEF HandOf, BufOf
  <2>4. ToWrite' = ToWrite
    BY <2>1 DEF ToWrite
  <2> QED
    BY <1>0, <1>1, <2>1, <2>2, <2>3, <2>4
<1>4. CASE IoStep
  <2>1. /\ ToWrite' \subseteq ToWrite
        /\ Stored' \subseteq Stored \cup ToWrite
        /\ UNCHANGED <<itemQueue, cpc, locals, workers>>
    BY <1>4, IoFlow
  <2>2. /\ \A c \in Callers : HandOf(c)' = HandOf(c) /\ BufOf(c)' = BufOf(c)
        /\ \A w \in Workers : WorkOf(w)' = WorkOf(w)
    BY <2>1 DEF HandOf, BufOf, WorkOf
  <2> QED
    BY <1>0, <1>1, <2>1, <2>2
<1>5. CASE Drop \/ End \/ Open
  <2>1. /\ Stored' \subseteq Stored
        /\ ToWrite' \subseteq ToWrite
        /\ Range(itemQueue') \subseteq Range(itemQueue) \cup Stored
        /\ (Drop \/ Open) => UNCHANGED <<cpc, locals, workers>>
        /\ End => /\ \A c \in Callers : cpc'[c] = "idle" /\ cBuf'[c] = << >>
                  /\ \A w \in Workers : wpc'[w] = "none"
    BY <1>5, LifeFlow
  <2>2. /\ \A c \in Callers : HandOf(c)' \subseteq HandOf(c)
        /\ \A c \in Callers : BufOf(c)' \subseteq BufOf(c)
        /\ \A w \in Workers : WorkOf(w)' \subseteq WorkOf(w)
    <3>1. CASE End
      BY <2>1, <3>1 DEF HandOf, BufOf, WorkOf, ItemPlaces, BufPlaces, WorkPlaces
    <3>2. CASE Drop \/ Open
      BY <2>1, <3>2 DEF HandOf, BufOf, WorkOf
    <3> QED
      BY <1>5, <3>1, <3>2
  <2> QED
    BY <1>0, <1>1, <2>1, <2>2
<1> QED
  BY <1>2, <1>3, <1>4, <1>5 DEF Next

-----------------------------------------------------------------------------
(* Types of the history: every item anywhere stands for a push, and so do  *)
(* the jobs that are accepted, finished and discarded.                     *)

KnownInv == \A i \in Around : i.job \in 1 .. jobs
BaseInv == Types /\ TypeHistory /\ KnownInv /\ LocalsInv

LEMMA AroundParts ==
  /\ Range(itemQueue) \subseteq Around
  /\ \A c \in Callers : HandOf(c) \subseteq Around /\ BufOf(c) \subseteq Around
  /\ \A w \in Workers : WorkOf(w) \subseteq Around
  /\ ToWrite \subseteq Around /\ Stored \subseteq Around
BY DEF Around, Held, Worked

LEMMA IdsChange ==
  ASSUME Next
  PROVE  \/ UNCHANGED ids /\ ~\E c \in Callers : Allocate(c)
         \/ \E c \in Callers :
              /\ Allocate(c) /\ jobs' = jobs + 1 /\ jobs < MaxJobs
              /\ issued' = issued \cup {counter + 1}
              /\ reissued' = reissued \cup (issued \cap {counter + 1})
<1>1. CASE \E c \in Callers : Allocate(c)
  BY <1>1 DEF Allocate
<1>2. CASE ~\E c \in Callers : Allocate(c)
  <2>1. ASSUME NEW c \in Callers, CallerStep(c) PROVE UNCHANGED ids
    BY <1>2, <2>1
       DEF CallerStep, PushBegin, SendInsert, LoadCounter, SendCounter, Index,
           PushItem, RemoveUnindex, RemoveMark, ClearBegin, ClearPop, ClearDb,
           ClearReturn, GetBegin, GetPop, GetCount, GetEnd, GetLoad, GetSave,
           PendingBegin, PendingPop, PendingPush, Close, SetMode, Start
  <2>2. ASSUME NEW w \in Workers, WorkerStep(w) PROVE UNCHANGED ids
    BY <2>2 DEF WorkerStep, WorkerPop, WorkerEmpty, WorkerCheck, WorkerRun,
                WorkerPost, WorkerUnstore
  <2>3. CASE IoStep \/ Drop \/ End \/ Open
    BY <1>2, <2>3 DEF IoStep, IoReceive, IoTimeout, IoWriteItem, IoWriteCounter,
                IoFlush, Drop, End, Open
  <2> QED
    BY <1>2, <2>1, <2>2, <2>3 DEF Next
<1> QED
  BY <1>1, <1>2

LEMMA KnownStep ==
  ASSUME BaseInv, Next
  PROVE  KnownInv' /\ jobs' \in 0 .. MaxJobs /\ jobs' >= jobs
<1>1. Around' \subseteq
        Around \cup (IF \E c \in Callers : Allocate(c) THEN {NewItem} ELSE {})
  BY AroundStep DEF BaseInv
<1>2. jobs \in Nat /\ jobs <= MaxJobs /\ MaxJobs \in Nat
      /\ \A i \in Around : i.job \in 1 .. jobs
  BY BoundAssumption DEF BaseInv, TypeHistory, KnownInv
<1>3. CASE UNCHANGED ids /\ ~\E c \in Callers : Allocate(c)
  BY <1>1, <1>2, <1>3 DEF KnownInv
<1>4. CASE /\ \E c \in Callers : Allocate(c)
           /\ jobs' = jobs + 1 /\ jobs < MaxJobs
  <2>1. NewItem.job = jobs + 1
    BY DEF NewItem
  <2>2. \A i \in Around' : i.job \in 1 .. jobs'
    BY <1>1, <1>2, <1>4, <2>1
  <2> QED
    BY <1>2, <1>4, <2>2 DEF KnownInv
<1> QED
  BY <1>3, <1>4, IdsChange

LEMMA LocalsStep ==
  ASSUME BaseInv, Next
  PROVE  LocalsInv'
<1> SUFFICES ASSUME NEW d \in Callers, cpc'[d] = "idle"
             PROVE  cBuf'[d] = << >>
  BY DEF LocalsInv
<1>0. /\ cpc \in [Callers -> CallerPlaces] /\ cBuf \in [Callers -> Seq(Items)]
      /\ cpc[d] = "idle" => cBuf[d] = << >>
  BY DEF BaseInv, Types, TypeThreads, LocalsInv
<1>1. ASSUME NEW c \in Callers, CallerStep(c) PROVE cBuf'[d] = << >>
  <2>1. CASE d # c
    BY <1>0, <1>1, <2>1, CallerAlone DEF BaseInv
  <2>2. CASE d = c /\ Return(c)
    BY <1>0, <2>2 DEF Return
  <2>3. CASE d = c /\ ~Return(c) /\ cpc[c] # "idle"
    BY <1>0, <1>1, <2>3
       DEF CallerStep, PushBegin, Allocate, SendInsert, LoadCounter, SendCounter,
           Index, PushItem, RemoveUnindex, RemoveMark, ClearBegin, ClearPop,
           ClearDb, ClearReturn, GetBegin, GetPop, GetCount, GetEnd, GetLoad,
           GetSave, PendingBegin, PendingPop, PendingPush, Close, SetMode, Start,
           Goto, CanCall
  <2>4. CASE d = c /\ ~Return(c) /\ cpc[c] = "idle"
    BY <1>0, <1>1, <2>4
       DEF CallerStep, PushBegin, Allocate, SendInsert, LoadCounter, SendCounter,
           Index, PushItem, RemoveUnindex, RemoveMark, ClearBegin, ClearPop,
           ClearDb, ClearReturn, GetBegin, GetPop, GetCount, GetEnd, GetLoad,
           GetSave, PendingBegin, PendingPop, PendingPush, Close, SetMode, Start,
           Goto
  <2> QED
    BY <2>1, <2>2, <2>3, <2>4
<1>2. ASSUME NEW w \in Workers, WorkerStep(w) PROVE cBuf'[d] = << >>
  BY <1>0, <1>2 DEF WorkerStep, WorkerPop, WorkerEmpty, WorkerCheck, WorkerRun,
                    WorkerPost, WorkerUnstore
<1>3. CASE IoStep \/ Drop \/ Open
  BY <1>0, <1>3 DEF IoStep, IoReceive, IoTimeout, IoWriteItem, IoWriteCounter,
                    IoFlush, Drop, Open
<1>4. CASE End
  BY <1>4 DEF End, FreshMemory
<1> QED
  BY <1>1, <1>2, <1>3, <1>4 DEF Next

(* What a step adds to the accepted, finished and discarded jobs. *)
LEMMA HistoryStep ==
  ASSUME BaseInv, Next
  PROVE  (accepted' \ accepted) \cup (finished' \ finished)
           \cup (discarded' \ discarded) \subseteq 1 .. jobs
<1>0. /\ \A i \in Around : i.job \in 1 .. jobs
      /\ itemQueue \in Seq(Items) /\ cBuf \in [Callers -> Seq(Items)]
  BY DEF BaseInv, Types, TypeMemory, TypeThreads, KnownInv
<1>1. ASSUME NEW c \in Callers, CallerStep(c)
      PROVE  /\ accepted' \ accepted \subseteq 1 .. jobs
             /\ finished' = finished
             /\ discarded' \ discarded \subseteq 1 .. jobs
  <2>1. CASE PushItem(c)
    <3>1. finished' = finished /\ discarded' = discarded
      BY <2>1 DEF PushItem
    <3>2. CASE cpc[c] = "pushItem"
      <4>1. cItem[c] \in Around
        BY <3>2, AroundParts DEF HandOf, ItemPlaces
      <4>2. accepted' = accepted \cup {cItem[c].job}
        BY <2>1, <3>2 DEF PushItem
      <4> QED
        BY <1>0, <3>1, <4>1, <4>2
    <3>3. CASE cpc[c] = "batchItem" /\ cBuf[c] # << >>
      <4>1. Head(cBuf[c]) \in Range(cBuf[c])
        BY <1>0, <3>3, TailPart
      <4>2. Head(cBuf[c]) \in Around
        BY <3>3, <4>1, AroundParts DEF BufOf, BufPlaces
      <4>3. accepted' = accepted \cup {Head(cBuf[c]).job}
        BY <2>1, <3>3 DEF PushItem
      <4> QED
        BY <1>0, <3>1, <4>2, <4>3
    <3>4. CASE cpc[c] = "batchItem" /\ cBuf[c] = << >>
      BY <2>1, <3>4, <3>1 DEF PushItem
    <3> QED
      BY <2>1, <3>2, <3>3, <3>4 DEF PushItem
  <2>2. CASE ClearPop(c)
    <3>1. itemQueue # << >> /\ accepted' = accepted /\ finished' = finished
          /\ discarded' = discarded \cup {Head(itemQueue).job}
      BY <2>2 DEF ClearPop
    <3>2. Head(itemQueue) \in Around
      BY <1>0, <3>1, TailPart, AroundParts
    <3> QED
      BY <1>0, <3>1, <3>2
  <2>3. CASE ~PushItem(c) /\ ~ClearPop(c)
    BY <1>1, <2>3
       DEF CallerStep, PushBegin, Allocate, SendInsert, LoadCounter, SendCounter,
           Index, RemoveUnindex, RemoveMark, ClearBegin,
           ClearDb, ClearReturn, GetBegin, GetPop, GetCount, GetEnd, GetLoad,
           GetSave, PendingBegin, PendingPop, PendingPush, Close, SetMode, Start
  <2> QED
    BY <2>1, <2>2, <2>3
<1>2. ASSUME NEW w \in Workers, WorkerStep(w)
      PROVE  /\ accepted' = accepted
             /\ finished' \ finished \subseteq 1 .. jobs
             /\ discarded' \ discarded \subseteq 1 .. jobs
  <2>1. wpc[w] \in {"check", "run", "post"} => wItem[w].job \in 1 .. jobs
    BY <1>0, AroundParts DEF WorkOf, WorkPlaces
  <2> QED
    BY <1>2, <2>1 DEF WorkerStep, WorkerPop, WorkerEmpty, WorkerCheck, WorkerRun,
                      WorkerPost, WorkerUnstore
<1>3. CASE IoStep \/ Drop \/ End \/ Open
  BY <1>3 DEF IoStep, IoReceive, IoTimeout, IoWriteItem, IoWriteCounter,
              IoFlush, Drop, End, Open
<1> QED
  BY <1>1, <1>2, <1>3 DEF Next

LEMMA ReturnedStep ==
  ASSUME BaseInv, Next, Types'
  PROVE  returned' \in Nat
<1>0. returned \in Nat /\ db'.removed \in Nat
  BY DEF BaseInv, TypeHistory, Types, TypeIo, Contents
<1>1. ASSUME NEW c \in Callers, CallerStep(c) PROVE returned' \in Nat
  <2>1. CASE GetSave(c)
    <3>1. Len(cBuf[c]) \in Nat
      BY DEF BaseInv, Types, TypeThreads
    <3> QED
      BY <1>0, <2>1, <3>1 DEF GetSave
  <2>2. CASE ~GetSave(c)
    BY <1>0, <1>1, <2>2
       DEF CallerStep, PushBegin, Allocate, SendInsert, LoadCounter, SendCounter,
           Index, PushItem, RemoveUnindex, RemoveMark, ClearBegin, ClearPop,
           ClearDb, ClearReturn, GetBegin, GetPop, GetCount, GetEnd, GetLoad,
           PendingBegin, PendingPop, PendingPush, Close, SetMode, Start
  <2> QED
    BY <2>1, <2>2
<1>2. ASSUME NEW w \in Workers, WorkerStep(w) PROVE returned' \in Nat
  BY <1>0, <1>2 DEF WorkerStep, WorkerPop, WorkerEmpty, WorkerCheck, WorkerRun,
                    WorkerPost, WorkerUnstore
<1>3. CASE IoStep \/ Drop \/ Open
  BY <1>0, <1>3 DEF IoStep, IoReceive, IoTimeout, IoWriteItem, IoWriteCounter,
                    IoFlush, Drop, Open
<1>4. CASE End
  BY <1>0, <1>4 DEF End
<1> QED
  BY <1>1, <1>2, <1>3, <1>4 DEF Next

LEMMA TypesStep ==
  ASSUME BaseInv, Next
  PROVE  Types'
<1>1. Types /\ jobs \in Nat /\ accepted \subseteq Nat
  BY DEF BaseInv, TypeHistory
<1>2. ASSUME NEW c \in Callers, CallerStep(c) PROVE Types'
  BY <1>1, <1>2, PushTypes, RemoveTypes, GetTypes, OtherTypes DEF CallerStep
<1> QED
  BY <1>1, <1>2, WorkerTypes, IoTypes, LifeTypes DEF Next

LEMMA BaseInit ==
  Init => BaseInv
<1> SUFFICES ASSUME Init PROVE BaseInv
  OBVIOUS
<1>1. Types
  <2>1. TypeMemory
    BY BoundAssumption, EmptyType DEF Init, TypeMemory
  <2>2. db \in Contents /\ IsFiniteSet(db.items) /\ db.items = {}
    BY BoundAssumption, FS_EmptySet DEF Init, Contents
  <2>3. TypeIo
    BY <2>2, EmptyType DEF Init, TypeIo
  <2>4. TypeThreads
    BY EmptyType, ItemTypes, LifeAssumption
       DEF Init, TypeThreads, WorkerPlaces, CallerPlaces
  <2> QED
    BY <2>1, <2>3, <2>4 DEF Types
<1>2. TypeHistory
  BY BoundAssumption DEF Init, TypeHistory
<1>3. LocalsInv
  BY DEF Init, LocalsInv
<1>4. KnownInv
  <2>1. Range(itemQueue) = {} /\ Range(pending) = {} /\ Range(channel) = {}
    BY DEF Init, Range
  <2>2. ToWrite = {} /\ Stored = {}
    BY <2>1 DEF ToWrite, Inserts, Stored, Init
  <2>3. Held = {} /\ Worked = {}
    BY DEF Held, Worked, HandOf, BufOf, WorkOf, Init, ItemPlaces, BufPlaces,
           WorkPlaces
  <2> QED
    BY <2>1, <2>2, <2>3 DEF KnownInv, Around
<1> QED
  BY <1>1, <1>2, <1>3, <1>4 DEF BaseInv

LEMMA BaseStep ==
  BaseInv /\ [Next]_vars => BaseInv'
<1> SUFFICES ASSUME BaseInv, [Next]_vars PROVE BaseInv'
  OBVIOUS
<1>1. CASE Next
  <2>1. Types' /\ LocalsInv' /\ KnownInv' /\ jobs' \in 0 .. MaxJobs /\ jobs' >= jobs
    BY <1>1, TypesStep, LocalsStep, KnownStep
  <2>2. returned' \in Nat
    BY <1>1, <2>1, ReturnedStep
  <2>3. accepted' \cup finished' \cup discarded' \subseteq 1 .. jobs'
    <3>1. accepted \cup finished \cup discarded \subseteq 1 .. jobs
      BY DEF BaseInv, TypeHistory
    <3>2. (accepted' \ accepted) \cup (finished' \ finished)
            \cup (discarded' \ discarded) \subseteq 1 .. jobs
      BY <1>1, HistoryStep
    <3>3. 1 .. jobs \subseteq 1 .. jobs'
      BY <2>1 DEF BaseInv, TypeHistory
    <3> QED
      BY <3>1, <3>2, <3>3
  <2>4. issued' \subseteq Nat /\ reissued' \subseteq issued'
    <3>1. issued \subseteq Nat /\ reissued \subseteq issued /\ counter \in Nat
      BY DEF BaseInv, TypeHistory, Types, TypeMemory
    <3>2. \/ issued' = issued /\ reissued' = reissued
          \/ /\ issued' = issued \cup {counter + 1}
             /\ reissued' = reissued \cup (issued \cap {counter + 1})
      BY <1>1, IdsChange
    <3>3. counter + 1 \in Nat
      BY <3>1
    <3>4. issued' \subseteq Nat
      BY <3>1, <3>2, <3>3
    <3>5. reissued' \subseteq issued'
      BY <3>1, <3>2
    <3> QED
      BY <3>4, <3>5
  <2> QED
    BY <2>1, <2>2, <2>3, <2>4 DEF BaseInv, TypeHistory
<1>2. CASE UNCHANGED vars
  BY <1>2 DEF vars, BaseInv, Types, TypeMemory, TypeIo, TypeThreads, TypeHistory,
              KnownInv, LocalsInv, Around, Held, Worked, ToWrite, Stored, HandOf,
              BufOf, WorkOf
<1> QED
  BY <1>1, <1>2

(* Every variable keeps its type, whatever the callers, the workers, the   *)
(* I/O thread and crashes do: the database never has two items under one   *)
(* key, and no job that is finished or discarded was never pushed.         *)
THEOREM TypeCorrect == Spec => []TypeOK
<1>1. BaseInv => TypeOK
  BY DEF BaseInv, Types, TypeOK
<1> QED
  BY <1>1, BaseInit, BaseStep, PTL DEF Spec

-----------------------------------------------------------------------------
(* The phases of a life.  No thread is in a method unless the queue is up, *)
(* the order to stop is the last thing the I/O thread is sent, and it ends *)
(* with nothing left to write.                                             *)

PhaseInv ==
  /\ phase # "up" => \A c \in Callers : cpc[c] = "idle"
  /\ phase = "up" => ~ioStop /\ \A m \in Range(channel) : m.op # "shutdown"
  /\ phase = "dropping" =>
       \/ ioStop /\ ioPc = "write" /\ channel = << >>
       \/ /\ ~ioStop /\ channel # << >>
          /\ \A k \in DOMAIN channel :
               channel[k].op = "shutdown" <=> k = Len(channel)
  /\ phase = "dropped" =>
       /\ ioPc = "exit" /\ channel = << >> /\ pending = << >> /\ counterVal = 0
  /\ phase = "down" =>
       /\ channel = << >> /\ pending = << >> /\ counterVal = 0
       /\ ioPc = "recv" /\ ~ioStop /\ itemQueue = << >> /\ recoverable = {db}
       /\ \A w \in Workers : wpc[w] = "none"

(* A step of a caller needs the queue to be up, and sends the I/O thread   *)
(* one message at most.                                                    *)
LEMMA CallerSends ==
  ASSUME PhaseInv, NEW c \in Callers, CallerStep(c)
  PROVE  /\ phase = "up" /\ UNCHANGED <<phase, io>>
         /\ \/ UNCHANGED channel
            \/ SendInsert(c) /\ channel' = Append(channel, Insert(cItem[c]))
            \/ SendCounter(c) /\ channel' = Append(channel, PersistCounter(cVal[c]))
<1>1. phase = "up"
  BY DEF PhaseInv, CallerStep, PushBegin, Allocate, SendInsert, LoadCounter,
         SendCounter, Index, PushItem, RemoveUnindex, RemoveMark, ClearBegin,
         ClearPop, ClearDb, ClearReturn, GetBegin, GetPop, GetCount, GetEnd,
         GetLoad, GetSave, PendingBegin, PendingPop, PendingPush, Close, SetMode,
         Start, CanCall
<1>2. UNCHANGED <<phase, io>>
  BY DEF CallerStep, PushBegin, Allocate, SendInsert, LoadCounter,
         SendCounter, Index, PushItem, RemoveUnindex, RemoveMark, ClearBegin,
         ClearPop, ClearDb, ClearReturn, GetBegin, GetPop, GetCount, GetEnd,
         GetLoad, GetSave, PendingBegin, PendingPop, PendingPush, Close, SetMode,
         Start
<1>3. CASE SendInsert(c)
  BY <1>1, <1>2, <1>3 DEF SendInsert
<1>4. CASE SendCounter(c)
  BY <1>1, <1>2, <1>4 DEF SendCounter
<1>5. CASE ~SendInsert(c) /\ ~SendCounter(c)
  <2>1. UNCHANGED channel
    BY <1>5 DEF CallerStep, PushBegin, Allocate, LoadCounter, Index, PushItem,
         RemoveUnindex, RemoveMark, ClearBegin, ClearPop, ClearDb, ClearReturn,
         GetBegin, GetPop, GetCount, GetEnd, GetLoad, GetSave, PendingBegin,
         PendingPop, PendingPush, Close, SetMode, Start
  <2> QED
    BY <1>1, <1>2, <2>1
<1> QED
  BY <1>3, <1>4, <1>5

(* A step of a worker needs a process, and leaves the I/O thread alone. *)
LEMMA WorkerLeaves ==
  ASSUME PhaseInv, NEW w \in Workers, WorkerStep(w)
  PROVE  phase # "down" /\ UNCHANGED <<phase, io, channel, cpc, locals, counter>>
BY DEF PhaseInv, WorkerStep, WorkerPop, WorkerEmpty, WorkerCheck, WorkerRun,
       WorkerPost, WorkerUnstore

LEMMA PhaseIo ==
  ASSUME Types, PhaseInv, IoStep
  PROVE  PhaseInv'
<1>0. UNCHANGED <<cpc, locals, workers, itemQueue>>
  BY DEF IoStep, IoReceive, IoTimeout, IoWriteItem, IoWriteCounter, IoFlush
<1>1. CASE IoReceive
  <2>1. /\ channel # << >> /\ channel' = Tail(channel) /\ ioPc = "recv"
        /\ ioStop' = (Head(channel).op = "shutdown")
        /\ ioPc' = IF Head(channel).op = "shutdown" THEN "write" ELSE "recv"
        /\ channel \in Seq(Messages) /\ UNCHANGED <<phase, sled>>
    BY <1>1 DEF IoReceive, Types, TypeIo
  <2>2. CASE phase = "up"
    <3>1. Range(channel) = Range(Tail(channel)) \cup {Head(channel)}
      BY <2>1, TailPart
    <3>2. \A m \in Range(channel) : m.op # "shutdown"
      BY <2>2 DEF PhaseInv
    <3> QED
      BY <2>1, <2>2, <3>1, <3>2 DEF PhaseInv
  <2>3. CASE phase = "dropping"
    <3>1. \A k \in DOMAIN channel : channel[k].op = "shutdown" <=> k = Len(channel)
      BY <2>1, <2>3 DEF PhaseInv
    <3>2. /\ Len(channel) \in Nat \ {0} /\ DOMAIN channel = 1 .. Len(channel)
          /\ DOMAIN Tail(channel) = 1 .. (Len(channel) - 1)
          /\ Len(Tail(channel)) = Len(channel) - 1
          /\ \A k \in 1 .. (Len(channel) - 1) : Tail(channel)[k] = channel[k + 1]
          /\ Head(channel) = channel[1]
      BY <2>1
    <3>8. Len(channel) # 1 => Tail(channel) # << >>
      <4>1. Len(<< >>) = 0
        OBVIOUS
      <4> QED
        BY <3>2, <4>1
    <3>7. Len(channel) = 1 => Tail(channel) = << >>
      BY <2>1, <3>2
    <3>3. Head(channel).op = "shutdown" <=> Len(channel) = 1
      BY <3>1, <3>2
    <3>4. \A k \in DOMAIN Tail(channel) :
            Tail(channel)[k].op = "shutdown" <=> k = Len(Tail(channel))
      BY <3>1, <3>2
    <3>5. \A c \in Callers : cpc[c] = "idle"
      BY <2>3 DEF PhaseInv
    <3>6. \/ ioStop' /\ ioPc' = "write" /\ channel' = << >>
          \/ ~ioStop' /\ channel' # << >>
      BY <2>1, <3>2, <3>3, <3>7, <3>8
    <3> QED
      BY <1>0, <2>1, <2>3, <3>4, <3>5, <3>6 DEF PhaseInv
  <2>4. phase \in {"up", "dropping"}
    BY <2>1 DEF PhaseInv, Types, TypeThreads
  <2> QED
    BY <2>2, <2>3, <2>4
<1>2. CASE IoTimeout
  <2>1. phase = "up"
    BY <1>2 DEF IoTimeout, PhaseInv, Types, TypeThreads
  <2>2. UNCHANGED <<phase, ioStop, channel>>
    BY <1>2 DEF IoTimeout
  <2> QED
    BY <2>1, <2>2 DEF PhaseInv
<1>3. CASE IoWriteItem \/ IoWriteCounter
  <2>1. UNCHANGED <<phase, ioStop, ioPc, channel>> /\ ioPc = "write"
    BY <1>3 DEF IoWriteItem, IoWriteCounter
  <2>2. phase # "dropped" /\ phase # "down"
    BY <2>1 DEF PhaseInv
  <2> QED
    BY <1>0, <2>1, <2>2 DEF PhaseInv
<1>4. CASE IoFlush
  <2>1. /\ UNCHANGED <<ioStop, channel, pending, counterVal>> /\ ioPc = "write"
        /\ pending = << >> /\ counterVal = 0
        /\ ioStop => phase' = "dropped" /\ ioPc' = "exit"
        /\ ~ioStop => phase' = phase /\ ioPc' = "recv"
    BY <1>4 DEF IoFlush
  <2>2. phase \in {"up", "dropping"}
    BY <2>1 DEF PhaseInv, Types, TypeThreads
  <2>3. CASE ioStop
    <3>1. phase = "dropping" /\ channel = << >>
      BY <2>2, <2>3 DEF PhaseInv
    <3>2. phase' = "dropped" /\ ioPc' = "exit" /\ channel' = << >>
          /\ pending' = << >> /\ counterVal' = 0
      BY <2>1, <2>3, <3>1
    <3>3. \A c \in Callers : cpc'[c] = "idle"
      BY <1>0, <3>1 DEF PhaseInv
    <3> QED
      BY <3>2, <3>3 DEF PhaseInv
  <2>4. CASE ~ioStop
    <3>1. phase' = phase /\ ~ioStop' /\ channel' = channel
      BY <2>1, <2>4
    <3> QED
      BY <1>0, <2>2, <2>4, <3>1 DEF PhaseInv
  <2> QED
    BY <2>3, <2>4
<1> QED
  BY <1>1, <1>2, <1>3, <1>4 DEF IoStep

LEMMA PhaseStep ==
  ASSUME Types, PhaseInv, Next
  PROVE  PhaseInv'
<1>1. ASSUME NEW c \in Callers, CallerStep(c) PROVE PhaseInv'
  <2>1. /\ phase = "up" /\ UNCHANGED <<phase, io>>
        /\ \/ UNCHANGED channel
           \/ channel' = Append(channel, Insert(cItem[c]))
           \/ channel' = Append(channel, PersistCounter(cVal[c]))
    BY <1>1, CallerSends
  <2>2. /\ channel \in Seq(Messages) /\ cItem[c] \in Items /\ cVal[c] \in Nat
        /\ Insert(cItem[c]).op = "insert" /\ PersistCounter(cVal[c]).op = "counter"
    BY DEF Types, TypeIo, TypeThreads, Insert, PersistCounter
  <2>3. \A m \in Messages : Range(Append(channel, m)) = Range(channel) \cup {m}
    BY <2>2, AppendRange
  <2>4. \A m \in Range(channel') :
          m \in Range(channel) \/ m.op \in {"insert", "counter"}
    <3>1. Insert(cItem[c]) \in Messages /\ PersistCounter(cVal[c]) \in Messages
      BY <2>2, ItemTypes
    <3> QED
      BY <2>1, <2>2, <2>3, <3>1
  <2> QED
    BY <2>1, <2>4 DEF PhaseInv
<1>2. ASSUME NEW w \in Workers, WorkerStep(w) PROVE PhaseInv'
  BY <1>2, WorkerLeaves DEF PhaseInv
<1>3. CASE Drop
  <2>1. phase = "up" /\ phase' = "dropping" /\ channel' = Append(channel, Shutdown)
        /\ UNCHANGED <<ioStop, cpc>> /\ \A c \in Callers : cpc[c] = "idle"
    BY <1>3 DEF Drop
  <2>2. channel \in Seq(Messages) /\ Shutdown \in Messages
        /\ Shutdown.op = "shutdown"
    BY ItemTypes DEF Types, TypeIo, Shutdown
  <2>3. /\ Len(channel') = Len(channel) + 1 /\ Len(channel) \in Nat
        /\ channel' # << >>
        /\ DOMAIN channel' = 1 .. (Len(channel) + 1)
        /\ DOMAIN channel = 1 .. Len(channel)
        /\ \A k \in 1 .. Len(channel) : channel'[k] = channel[k]
        /\ channel'[Len(channel) + 1] = Shutdown
    BY <2>1, <2>2
  <2>4. \A k \in DOMAIN channel : channel[k].op # "shutdown"
    BY <2>1 DEF PhaseInv, Range
  <2>5. \A k \in DOMAIN channel' :
          channel'[k].op = "shutdown" <=> k = Len(channel')
    BY <2>2, <2>3, <2>4
  <2> QED
    BY <2>1, <2>3, <2>5 DEF PhaseInv
<1>4. CASE End
  BY <1>4 DEF End, FreshMemory, PhaseInv
<1>5. CASE Open
  <2>1. phase = "down" /\ phase' = "up" /\ UNCHANGED <<ioStop, channel>>
    BY <1>5 DEF Open
  <2>2. Range(<< >>) = {}
    BY DEF Range
  <2> QED
    BY <2>1, <2>2 DEF PhaseInv
<1> QED
  BY <1>1, <1>2, <1>3, <1>4, <1>5, PhaseIo DEF Next

-----------------------------------------------------------------------------
(* Versions of the database, counters and ids.                             *)

(* What a write to the database makes of its contents. *)
Written(d) ==
  \/ /\ IoWriteItem
     /\ d.items = Without(db.items, Head(pending).id) \cup {Head(pending)}
     /\ d.counter = db.counter /\ d.removed = db.removed
  \/ /\ IoWriteCounter
     /\ d.items = db.items /\ d.counter = counterVal /\ d.removed = db.removed
  \/ \E c \in Callers :
       /\ GetSave(c)
       /\ d.items = db.items /\ d.counter = db.counter /\ d.removed = cVal[c]
  \/ \E c \in Callers :
       /\ ClearDb(c) /\ d.items = Without(db.items, cItem[c].id)
       /\ d.counter = db.counter /\ d.removed = db.removed
  \/ \E w \in Workers :
       /\ WorkerUnstore(w) /\ d.items = Without(db.items, wItem[w].id)
       /\ d.counter = db.counter /\ d.removed = db.removed

LEMMA DbChange ==
  ASSUME Types, Next, ~End
  PROVE  UNCHANGED db \/ Written(db')
<1>0. db \in Contents
  BY DEF Types, TypeIo
<1>1. ASSUME NEW c \in Callers, CallerStep(c)
      PROVE  UNCHANGED db \/ ClearDb(c) \/ GetSave(c)
  BY <1>1
     DEF CallerStep, PushBegin, Allocate, SendInsert, LoadCounter, SendCounter,
         Index, PushItem, RemoveUnindex, RemoveMark, ClearBegin, ClearPop,
         ClearReturn, GetBegin, GetPop, GetCount, GetEnd, GetLoad, PendingBegin,
         PendingPop, PendingPush, Close, SetMode, Start
<1>2. ASSUME NEW w \in Workers, WorkerStep(w)
      PROVE  UNCHANGED db \/ WorkerUnstore(w)
  BY <1>2 DEF WorkerStep, WorkerPop, WorkerEmpty, WorkerCheck, WorkerRun,
              WorkerPost
<1>3. IoStep => UNCHANGED db \/ IoWriteItem \/ IoWriteCounter
  BY DEF IoStep, IoReceive, IoTimeout, IoFlush
<1>4. Drop \/ Open => UNCHANGED db
  BY DEF Drop, Open
<1>5. ASSUME NEW c \in Callers, ClearDb(c) PROVE Written(db')
  <2>1. db' = [db EXCEPT !.items = Without(@, cItem[c].id)]
    BY <1>5 DEF ClearDb, Write
  <2>2. db'.items = Without(db.items, cItem[c].id) /\ db'.counter = db.counter
        /\ db'.removed = db.removed
    BY <1>0, <2>1 DEF Contents
  <2> QED
    BY <1>5, <2>2 DEF Written
<1>6. ASSUME NEW c \in Callers, GetSave(c) PROVE Written(db')
  <2>1. db' = [db EXCEPT !.removed = cVal[c]]
    BY <1>6 DEF GetSave, Write
  <2>2. db'.items = db.items /\ db'.counter = db.counter /\ db'.removed = cVal[c]
    BY <1>0, <2>1 DEF Contents
  <2> QED
    BY <1>6, <2>2 DEF Written
<1>7. ASSUME NEW w \in Workers, WorkerUnstore(w) PROVE Written(db')
  <2>1. db' = [db EXCEPT !.items = Without(@, wItem[w].id)]
    BY <1>7 DEF WorkerUnstore, Write
  <2>2. db'.items = Without(db.items, wItem[w].id) /\ db'.counter = db.counter
        /\ db'.removed = db.removed
    BY <1>0, <2>1 DEF Contents
  <2> QED
    BY <1>7, <2>2 DEF Written
<1>8. ASSUME IoWriteItem PROVE Written(db')
  <2>1. db' = [db EXCEPT !.items =
                 Without(@, Head(pending).id) \cup {Head(pending)}]
    BY <1>8 DEF IoWriteItem, Write
  <2>2. /\ db'.items = Without(db.items, Head(pending).id) \cup {Head(pending)}
        /\ db'.counter = db.counter /\ db'.removed = db.removed
    BY <1>0, <2>1 DEF Contents
  <2> QED
    BY <1>8, <2>2 DEF Written
<1>9. ASSUME IoWriteCounter PROVE Written(db')
  <2>1. db' = [db EXCEPT !.counter = counterVal]
    BY <1>9 DEF IoWriteCounter, Write
  <2>2. db'.items = db.items /\ db'.counter = counterVal
        /\ db'.removed = db.removed
    BY <1>0, <2>1 DEF Contents
  <2> QED
    BY <1>9, <2>2 DEF Written
<1> QED
  BY <1>1, <1>2, <1>3, <1>4, <1>5, <1>6, <1>7, <1>8, <1>9 DEF Next

(* Where a version that a crash may leave can come from. *)
LEMMA NewVersion ==
  ASSUME Types, Next, NEW d \in recoverable', d \notin recoverable
  PROVE  d = db' /\ Written(d)
<1>0. db \in recoverable
  BY DEF Types, TypeIo
<1>1. ASSUME NEW c \in Callers, CallerStep(c) PROVE d = db'
  BY <1>0, <1>1
     DEF CallerStep, PushBegin, Allocate, SendInsert, LoadCounter, SendCounter,
         Index, PushItem, RemoveUnindex, RemoveMark, ClearBegin, ClearPop, ClearDb,
         ClearReturn, GetBegin, GetPop, GetCount, GetEnd, GetLoad, GetSave,
         PendingBegin, PendingPop, PendingPush, Close, SetMode, Start, Write
<1>2. ASSUME NEW w \in Workers, WorkerStep(w) PROVE d = db'
  BY <1>2 DEF WorkerStep, WorkerPop, WorkerEmpty, WorkerCheck, WorkerRun,
              WorkerPost, WorkerUnstore, Write
<1>3. ASSUME IoStep PROVE d = db'
  <2>1. ASSUME NEW new, Write(new) PROVE d = db'
    BY <2>1 DEF Write
  <2>2. CASE IoWriteItem \/ IoWriteCounter
    BY <2>1, <2>2 DEF IoWriteItem, IoWriteCounter
  <2>3. CASE IoReceive \/ IoTimeout \/ IoFlush
    BY <1>0, <2>3 DEF IoReceive, IoTimeout, IoFlush
  <2> QED
    BY <1>3, <2>2, <2>3 DEF IoStep
<1>4. ~Drop /\ ~End /\ ~Open
  BY DEF Drop, End, Open
<1>5. d = db' /\ db' # db
  BY <1>0, <1>1, <1>2, <1>3, <1>4 DEF Next
<1> QED
  BY <1>4, <1>5, DbChange

CountPlaces == {"pushSendCount", "batchSendCount"}

(* Every counter, stored, on its way or in memory, is between the one that *)
(* life began with and the one in memory, which is no more than that and   *)
(* the pushes so far.                                                      *)
CounterInv ==
  /\ phase # "down" => counter \in FirstCounter .. FirstCounter + jobs
  /\ \A d \in recoverable : d.counter \in FirstCounter .. FirstCounter + jobs
  /\ counterVal # 0 => counterVal \in FirstCounter .. counter
  /\ \A m \in Range(channel) :
       m.op = "counter" => m.val \in FirstCounter .. counter
  /\ \A c \in Callers :
       cpc[c] \in CountPlaces => cVal[c] \in FirstCounter .. counter

(* As long as no id was issued twice, an item's id follows from its job. *)
IdInv ==
  reissued = {} =>
    /\ \A i \in Around : i.id = FirstCounter + i.job
    /\ issued = FirstCounter + 1 .. FirstCounter + jobs

(* An item is taken out of the database only when it is done with. *)
DoneInv ==
  /\ \A w \in Workers :
       wpc[w] = "unstore" => wItem[w].job \in finished \cup discarded
  /\ \A c \in Callers : cpc[c] = "clearDb" => cItem[c].job \in discarded

SafeInv == BaseInv /\ PhaseInv /\ CounterInv /\ IdInv /\ DoneInv

LEMMA WiderRange ==
  \A n, j, k \in Nat : j <= k => n .. n + j \subseteq n .. n + k
OBVIOUS

LEMMA JobsGrow ==
  ASSUME BaseInv, Next
  PROVE  jobs \in Nat /\ jobs' \in Nat /\ jobs' >= jobs /\ FirstCounter \in Nat
BY KnownStep, BoundAssumption DEF BaseInv, TypeHistory

LEMMA VersionCounters ==
  ASSUME BaseInv, PhaseInv, CounterInv, Next
  PROVE  \A d \in recoverable' : d.counter \in FirstCounter .. FirstCounter + jobs'
<1> SUFFICES ASSUME NEW d \in recoverable'
             PROVE  d.counter \in FirstCounter .. FirstCounter + jobs
  BY JobsGrow
<1>1. \A e \in recoverable : e.counter \in FirstCounter .. FirstCounter + jobs
  BY DEF CounterInv
<1>2. db \in recoverable
  BY DEF BaseInv, Types, TypeIo
<1>3. CASE d \in recoverable
  BY <1>1, <1>3
<1>4. CASE d \notin recoverable
  <2>1. d.counter = db.counter \/ (IoWriteCounter /\ d.counter = counterVal)
    BY <1>4, NewVersion DEF BaseInv, Written
  <2>2. CASE d.counter = db.counter
    BY <1>1, <1>2, <2>2
  <2>3. CASE IoWriteCounter /\ d.counter = counterVal
    <3>1. ioPc = "write" /\ counterVal # 0
      BY <2>3 DEF IoWriteCounter
    <3>2. phase # "down"
      BY <3>1 DEF PhaseInv
    <3>3. counterVal \in FirstCounter .. counter
          /\ counter \in FirstCounter .. FirstCounter + jobs
      BY <3>1, <3>2 DEF CounterInv
    <3> QED
      BY <2>3, <3>3, JobsGrow
  <2> QED
    BY <2>1, <2>2, <2>3
<1> QED
  BY <1>3, <1>4

LEMMA CounterStep ==
  ASSUME BaseInv, PhaseInv, CounterInv, Next
  PROVE  CounterInv'
<1>0. /\ jobs \in Nat /\ jobs' \in Nat /\ jobs' >= jobs /\ FirstCounter \in Nat
      /\ counter \in Nat /\ channel \in Seq(Messages)
      /\ cpc \in [Callers -> CallerPlaces] /\ cVal \in [Callers -> Nat]
      /\ phase # "down" => counter \in FirstCounter .. FirstCounter + jobs
      /\ counterVal # 0 => counterVal \in FirstCounter .. counter
      /\ \A m \in Range(channel) :
           m.op = "counter" => m.val \in FirstCounter .. counter
      /\ \A c \in Callers :
           cpc[c] \in CountPlaces => cVal[c] \in FirstCounter .. counter
  BY JobsGrow DEF BaseInv, Types, TypeMemory, TypeIo, TypeThreads, CounterInv
<1>8. phase # "down" => counter \in FirstCounter .. FirstCounter + jobs'
  <2>1. jobs \in Nat /\ jobs' \in Nat /\ jobs' >= jobs /\ FirstCounter \in Nat
    BY JobsGrow
  <2> QED
    BY <2>1, WiderRange DEF CounterInv
<1>1. \A d \in recoverable' : d.counter \in FirstCounter .. FirstCounter + jobs'
  BY VersionCounters
<1>2. ASSUME NEW c \in Callers, CallerStep(c) PROVE CounterInv'
  <2>1. /\ phase = "up" /\ UNCHANGED <<phase, io>>
        /\ \/ UNCHANGED channel
           \/ channel' = Append(channel, Insert(cItem[c]))
           \/ /\ channel' = Append(channel, PersistCounter(cVal[c]))
              /\ SendCounter(c)
    BY <1>2, CallerSends DEF BaseInv
  <2>2. /\ counter' = counter \/ (counter' = counter + 1 /\ jobs' = jobs + 1)
        /\ Allocate(c) \/ counter' = counter
    BY <1>2
       DEF CallerStep, PushBegin, Allocate, SendInsert, LoadCounter, SendCounter,
           Index, PushItem, RemoveUnindex, RemoveMark, ClearBegin, ClearPop,
           ClearDb, ClearReturn, GetBegin, GetPop, GetCount, GetEnd, GetLoad,
           GetSave, PendingBegin, PendingPop, PendingPush, Close, SetMode, Start
  <2>3. /\ counter' \in FirstCounter .. FirstCounter + jobs'
        /\ \A n \in FirstCounter .. counter : n \in FirstCounter .. counter'
        /\ counter \in FirstCounter .. counter
    BY <1>0, <2>1, <2>2
  <2>4. \A m \in Range(channel') :
          m.op = "counter" => m.val \in FirstCounter .. counter
    <3>1. Insert(cItem[c]) \in Messages /\ PersistCounter(cVal[c]) \in Messages
          /\ Insert(cItem[c]).op = "insert" /\ PersistCounter(cVal[c]).val = cVal[c]
      BY ItemTypes DEF BaseInv, Types, TypeThreads, Insert, PersistCounter
    <3>2. \A m \in Messages : Range(Append(channel, m)) = Range(channel) \cup {m}
      BY <1>0, AppendRange
    <3>3. SendCounter(c) => cVal[c] \in FirstCounter .. counter
      BY <1>0 DEF SendCounter, CountPlaces
    <3>4. CASE UNCHANGED channel
      BY <1>0, <3>4
    <3>5. CASE channel' = Append(channel, Insert(cItem[c]))
      BY <1>0, <3>1, <3>2, <3>5
    <3>6. CASE channel' = Append(channel, PersistCounter(cVal[c])) /\ SendCounter(c)
      <4>1. Range(channel') = Range(channel) \cup {PersistCounter(cVal[c])}
        BY <3>1, <3>2, <3>6
      <4> QED
        BY <1>0, <3>1, <3>3, <3>6, <4>1
    <3> QED
      BY <2>1, <3>4, <3>5, <3>6
  <2>5. ASSUME NEW d \in Callers, cpc'[d] \in CountPlaces
        PROVE  cVal'[d] \in FirstCounter .. counter
    <3>1. CASE d # c
      BY <1>0, <1>2, <2>5, <3>1, CallerAlone DEF BaseInv
    <3>2. CASE d = c /\ LoadCounter(c)
      BY <1>0, <2>3, <3>2 DEF LoadCounter
    <3>3. CASE d = c /\ ~LoadCounter(c)
      <4>1. cpc[c] = "idle" \/ cpc'[c] \notin CountPlaces
        BY <1>0, <1>2, <3>3
           DEF CallerStep, PushBegin, Allocate, SendInsert, SendCounter,
               Index, PushItem, RemoveUnindex, RemoveMark, ClearBegin, ClearPop,
               ClearDb, ClearReturn, GetBegin, GetPop, GetCount, GetEnd, GetLoad,
               GetSave, PendingBegin, PendingPop, PendingPush, Close, SetMode,
               Start, Goto, Return, CountPlaces, CanCall
      <4>2. cpc[c] = "idle" => cpc'[c] \notin CountPlaces
        BY <1>0, <1>2, <3>3
           DEF CallerStep, PushBegin, Allocate, SendInsert, SendCounter,
               Index, PushItem, RemoveUnindex, RemoveMark, ClearBegin, ClearPop,
               ClearDb, ClearReturn, GetBegin, GetPop, GetCount, GetEnd, GetLoad,
               GetSave, PendingBegin, PendingPop, PendingPush, Close, SetMode,
               Start, Goto, Return, CountPlaces
      <4> QED
        BY <2>5, <3>3, <4>1, <4>2
    <3> QED
      BY <3>1, <3>2, <3>3
  <2> QED
    BY <1>0, <1>1, <2>1, <2>3, <2>4, <2>5 DEF CounterInv
<1>3. ASSUME NEW w \in Workers, WorkerStep(w) PROVE CounterInv'
  <2>1. phase # "down" /\ UNCHANGED <<phase, io, channel, cpc, locals, counter>>
    BY <1>3, WorkerLeaves DEF BaseInv
  <2>2. UNCHANGED <<counterVal, channel, cpc, cVal, counter>>
    BY <2>1
  <2>3. counter \in FirstCounter .. FirstCounter + jobs'
    BY <1>8, <2>1
  <2> QED
    BY <1>0, <1>1, <2>2, <2>3 DEF CounterInv
<1>4. CASE IoStep
  <2>1. UNCHANGED <<counter, cpc, locals>> /\ (phase' = phase \/ phase' = "dropped")
    BY <1>4 DEF IoStep, IoReceive, IoTimeout, IoWriteItem, IoWriteCounter, IoFlush
  <2>2. phase # "down"
    BY <1>4, EmptyType DEF PhaseInv, IoStep, IoReceive, IoTimeout, IoWriteItem,
                IoWriteCounter, IoFlush
  <2>3. /\ counterVal' # 0 => counterVal' \in FirstCounter .. counter
        /\ Range(channel') \subseteq Range(channel)
    <3>1. CASE IoReceive
      <4>1. channel # << >> /\ channel' = Tail(channel)
            /\ counterVal' = IF Head(channel).op = "counter" THEN Head(channel).val
                                                             ELSE counterVal
        BY <3>1 DEF IoReceive
      <4>2. Range(channel) = Range(Tail(channel)) \cup {Head(channel)}
        BY <1>0, <4>1, TailPart
      <4> QED
        BY <1>0, <4>1, <4>2
    <3>2. CASE ~IoReceive
      BY <1>0, <1>4, <3>2 DEF IoStep, IoTimeout, IoWriteItem, IoWriteCounter, IoFlush
    <3> QED
      BY <3>1, <3>2
  <2>4. counter \in FirstCounter .. FirstCounter + jobs'
    BY <1>8, <2>2
  <2>5. UNCHANGED <<cpc, cVal, counter>>
    BY <2>1
  <2> QED
    BY <1>0, <1>1, <2>3, <2>4, <2>5 DEF CounterInv
<1>5. CASE Drop
  <2>1. UNCHANGED <<counter, cpc, locals, counterVal>> /\ phase = "up"
        /\ channel' = Append(channel, Shutdown)
    BY <1>5 DEF Drop
  <2>2. Shutdown \in Messages /\ Shutdown.op # "counter"
    BY ItemTypes DEF Shutdown
  <2>3. Range(channel') = Range(channel) \cup {Shutdown}
    BY <1>0, <2>1, <2>2, AppendRange
  <2>4. counter \in FirstCounter .. FirstCounter + jobs'
    BY <1>8, <2>1
  <2>5. UNCHANGED <<cpc, cVal, counter, counterVal>>
    BY <2>1
  <2>6. \A m \in Range(channel') :
          m.op = "counter" => m.val \in FirstCounter .. counter
    BY <1>0, <2>2, <2>3
  <2> QED
    BY <1>0, <1>1, <2>4, <2>5, <2>6 DEF CounterInv
<1>6. CASE End
  <2>1. phase' = "down" /\ counterVal' = 0 /\ channel' = << >>
        /\ \A c \in Callers : cpc'[c] = "idle"
    BY <1>6 DEF End, FreshMemory
  <2>2. Range(<< >>) = {}
    BY DEF Range
  <2> QED
    BY <1>1, <2>1, <2>2 DEF CounterInv, CountPlaces
<1>7. CASE Open
  <2>1. phase = "down" /\ counter' = db.counter /\ UNCHANGED <<channel, counterVal, cpc>>
        /\ jobs' = jobs
    BY <1>7 DEF Open
  <2>2. channel = << >> /\ counterVal = 0 /\ \A c \in Callers : cpc[c] = "idle"
    BY <2>1 DEF PhaseInv
  <2>3. Range(<< >>) = {}
    BY DEF Range
  <2>4. db.counter \in FirstCounter .. FirstCounter + jobs
    BY DEF CounterInv, BaseInv, Types, TypeIo
  <2> QED
    BY <1>1, <2>1, <2>2, <2>3, <2>4 DEF CounterInv, CountPlaces
<1> QED
  BY <1>2, <1>3, <1>4, <1>5, <1>6, <1>7 DEF Next

LEMMA IdStep ==
  ASSUME BaseInv, PhaseInv, CounterInv, IdInv, Next
  PROVE  IdInv'
<1> SUFFICES ASSUME reissued' = {}
             PROVE  /\ \A i \in Around' : i.id = FirstCounter + i.job
                    /\ issued' = FirstCounter + 1 .. FirstCounter + jobs'
  BY DEF IdInv
<1>1. Around' \subseteq
        Around \cup (IF \E c \in Callers : Allocate(c) THEN {NewItem} ELSE {})
  BY AroundStep DEF BaseInv
<1>2. reissued = {}
  BY IdsChange
<1>3. /\ \A i \in Around : i.id = FirstCounter + i.job
      /\ issued = FirstCounter + 1 .. FirstCounter + jobs
  BY <1>2 DEF IdInv
<1>4. CASE UNCHANGED ids /\ ~\E c \in Callers : Allocate(c)
  BY <1>1, <1>3, <1>4
<1>5. ASSUME NEW c \in Callers, Allocate(c), jobs' = jobs + 1,
             issued' = issued \cup {counter + 1},
             reissued' = reissued \cup (issued \cap {counter + 1})
      PROVE  /\ \A i \in Around' : i.id = FirstCounter + i.job
             /\ issued' = FirstCounter + 1 .. FirstCounter + jobs'
  <2>1. phase = "up"
    BY <1>5, CallerSends DEF CallerStep
  <2>2. counter \in FirstCounter .. FirstCounter + jobs
        /\ FirstCounter \in Nat /\ jobs \in Nat
    BY <2>1, JobsGrow DEF CounterInv
  <2>3. counter + 1 \notin FirstCounter + 1 .. FirstCounter + jobs
    BY <1>3, <1>5
  <2>4. counter = FirstCounter + jobs
    BY <2>2, <2>3
  <2>5. NewItem.id = FirstCounter + NewItem.job
    BY <2>2, <2>4 DEF NewItem
  <2>6. issued' = FirstCounter + 1 .. FirstCounter + jobs'
    <3>1. issued' = (FirstCounter + 1 .. FirstCounter + jobs)
                      \cup {FirstCounter + jobs + 1}
      BY <1>3, <1>5, <2>4
    <3> QED
      BY <1>5, <2>2, <3>1
  <2> QED
    BY <1>1, <1>3, <2>5, <2>6
<1> QED
  BY <1>4, <1>5, IdsChange

LEMMA DoneGrows ==
  ASSUME Next
  PROVE  finished \subseteq finished' /\ discarded \subseteq discarded'
<1>1. ASSUME NEW c \in Callers, CallerStep(c)
      PROVE  finished \subseteq finished' /\ discarded \subseteq discarded'
  BY <1>1
     DEF CallerStep, PushBegin, Allocate, SendInsert, LoadCounter, SendCounter,
         Index, PushItem, RemoveUnindex, RemoveMark, ClearBegin, ClearPop,
         ClearDb, ClearReturn, GetBegin, GetPop, GetCount, GetEnd, GetLoad,
         GetSave, PendingBegin, PendingPop, PendingPush, Close, SetMode, Start
<1>2. ASSUME NEW w \in Workers, WorkerStep(w)
      PROVE  finished \subseteq finished' /\ discarded \subseteq discarded'
  BY <1>2 DEF WorkerStep, WorkerPop, WorkerEmpty, WorkerCheck, WorkerRun,
              WorkerPost, WorkerUnstore
<1>3. CASE IoStep \/ Drop \/ End \/ Open
  BY <1>3 DEF IoStep, IoReceive, IoTimeout, IoWriteItem, IoWriteCounter,
              IoFlush, Drop, End, Open
<1> QED
  BY <1>1, <1>2, <1>3 DEF Next

LEMMA DoneStep ==
  ASSUME BaseInv, DoneInv, Next
  PROVE  DoneInv'
<1>0. /\ wpc \in [Workers -> WorkerPlaces] /\ wItem \in [Workers -> Items]
      /\ cpc \in [Callers -> CallerPlaces] /\ cItem \in [Callers -> Items]
      /\ finished \subseteq finished' /\ discarded \subseteq discarded'
  BY DoneGrows DEF BaseInv, Types, TypeThreads
<1>1. ASSUME NEW v \in Workers, wpc'[v] = "unstore"
      PROVE  wItem'[v].job \in finished' \cup discarded'
  <2>1. ASSUME NEW w \in Workers, WorkerStep(w)
        PROVE  wItem'[v].job \in finished' \cup discarded'
    <3>1. CASE v # w
      <4>1. wpc'[v] = wpc[v] /\ wItem'[v] = wItem[v]
        BY <2>1, <3>1, WorkerFlow DEF BaseInv
      <4> QED
        BY <1>0, <1>1, <4>1 DEF DoneInv
    <3>2. CASE v = w /\ (WorkerPop(w) \/ WorkerEmpty(w) \/ WorkerUnstore(w))
      BY <1>0, <1>1, <3>2 DEF WorkerPop, WorkerEmpty, WorkerUnstore, WorkerGoto
    <3>3. CASE v = w /\ WorkerCheck(w)
      BY <1>0, <1>1, <3>3 DEF WorkerCheck, WorkerGoto
    <3>4. CASE v = w /\ WorkerRun(w)
      BY <1>0, <1>1, <3>4 DEF WorkerRun, WorkerGoto
    <3>5. CASE v = w /\ WorkerPost(w)
      BY <1>0, <1>1, <3>5 DEF WorkerPost, WorkerGoto
    <3> QED
      BY <2>1, <3>1, <3>2, <3>3, <3>4, <3>5 DEF WorkerStep
  <2>2. ASSUME NEW c \in Callers, CallerStep(c)
        PROVE  wItem'[v].job \in finished' \cup discarded'
    <3>1. ~Start(c)
      BY <1>1 DEF Start
    <3>2. UNCHANGED workers
      BY <2>2, <3>1
         DEF CallerStep, PushBegin, Allocate, SendInsert, LoadCounter, SendCounter,
             Index, PushItem, RemoveUnindex, RemoveMark, ClearBegin, ClearPop,
             ClearDb, ClearReturn, GetBegin, GetPop, GetCount, GetEnd, GetLoad,
             GetSave, PendingBegin, PendingPop, PendingPush, Close, SetMode
    <3> QED
      BY <1>0, <1>1, <3>2 DEF DoneInv
  <2>3. CASE IoStep \/ Drop \/ Open
    <3>1. UNCHANGED workers
      BY <2>3 DEF IoStep, IoReceive, IoTimeout, IoWriteItem, IoWriteCounter,
                  IoFlush, Drop, Open
    <3> QED
      BY <1>0, <1>1, <3>1 DEF DoneInv
  <2>4. ~End
    BY <1>1 DEF End, FreshMemory
  <2> QED
    BY <2>1, <2>2, <2>3, <2>4 DEF Next
<1>2. ASSUME NEW d \in Callers, cpc'[d] = "clearDb"
      PROVE  cItem'[d].job \in discarded'
  <2>1. ASSUME NEW c \in Callers, CallerStep(c)
        PROVE  cItem'[d].job \in discarded'
    <3>1. CASE d # c
      <4>1. cpc'[d] = cpc[d] /\ cItem'[d] = cItem[d]
        BY <2>1, <3>1, CallerAlone DEF BaseInv
      <4> QED
        BY <1>0, <1>2, <4>1 DEF DoneInv
    <3>2. CASE d = c /\ ClearPop(c)
      BY <1>0, <3>2 DEF ClearPop
    <3>3. CASE d = c /\ ~ClearPop(c) /\ cpc[c] # "idle"
      BY <1>0, <1>2, <2>1, <3>3
         DEF CallerStep, PushBegin, Allocate, SendInsert, LoadCounter, SendCounter,
             Index, PushItem, RemoveUnindex, RemoveMark, ClearBegin,
             ClearDb, ClearReturn, GetBegin, GetPop, GetCount, GetEnd, GetLoad,
             GetSave, PendingBegin, PendingPop, PendingPush, Close, SetMode, Start,
             Goto, Return, CanCall
    <3>4. CASE d = c /\ ~ClearPop(c) /\ cpc[c] = "idle"
      BY <1>0, <1>2, <2>1, <3>4
         DEF CallerStep, PushBegin, Allocate, SendInsert, LoadCounter, SendCounter,
             Index, PushItem, RemoveUnindex, RemoveMark, ClearBegin,
             ClearDb, ClearReturn, GetBegin, GetPop, GetCount, GetEnd, GetLoad,
             GetSave, PendingBegin, PendingPop, PendingPush, Close, SetMode, Start,
             Goto, Return
    <3> QED
      BY <3>1, <3>2, <3>3, <3>4
  <2>2. ASSUME NEW w \in Workers, WorkerStep(w)
        PROVE  cItem'[d].job \in discarded'
    <3>1. UNCHANGED <<cpc, locals>>
      BY <2>2, WorkerFlow DEF BaseInv
    <3> QED
      BY <1>0, <1>2, <3>1 DEF DoneInv
  <2>3. CASE IoStep \/ Drop \/ Open
    <3>1. UNCHANGED <<cpc, locals>>
      BY <2>3 DEF IoStep, IoReceive, IoTimeout, IoWriteItem, IoWriteCounter,
                  IoFlush, Drop, Open
    <3> QED
      BY <1>0, <1>2, <3>1 DEF DoneInv
  <2>4. ~End
    BY <1>2 DEF End, FreshMemory
  <2> QED
    BY <2>1, <2>2, <2>3, <2>4 DEF Next
<1> QED
  BY <1>1, <1>2 DEF DoneInv

LEMMA SafeInit ==
  Init => SafeInv
<1> SUFFICES ASSUME Init PROVE SafeInv
  OBVIOUS
<1>1. Range(channel) = {}
  BY DEF Init, Range
<1>2. PhaseInv
  BY <1>1 DEF Init, PhaseInv
<1>3. CounterInv
  <2>1. FirstCounter \in FirstCounter .. FirstCounter + jobs
    BY BoundAssumption DEF Init
  <2>2. counter = FirstCounter /\ db.counter = FirstCounter /\ recoverable = {db}
    BY DEF Init
  <2> QED
    BY <1>1, <2>1, <2>2 DEF Init, CounterInv, CountPlaces
<1>4. IdInv
  <2>1. BaseInv /\ jobs = 0 /\ issued = {}
    BY BaseInit DEF Init
  <2>2. Around = {}
    <3>1. \A i \in Around : i.job \in 1 .. 0
      BY <2>1 DEF BaseInv, KnownInv
    <3> QED
      BY <3>1
  <2>3. FirstCounter + 1 .. FirstCounter + jobs = {}
    BY <2>1, BoundAssumption
  <2> QED
    BY <2>1, <2>2, <2>3 DEF IdInv
<1>5. DoneInv
  BY DEF Init, DoneInv
<1> QED
  BY <1>2, <1>3, <1>4, <1>5, BaseInit DEF SafeInv

LEMMA SafeStep ==
  SafeInv /\ [Next]_vars => SafeInv'
<1> SUFFICES ASSUME SafeInv, [Next]_vars PROVE SafeInv'
  OBVIOUS
<1>1. CASE Next
  <2>1. BaseInv'
    BY <1>1, BaseStep DEF SafeInv
  <2> QED
    BY <1>1, <2>1, PhaseStep, CounterStep, IdStep, DoneStep DEF SafeInv, BaseInv
<1>2. CASE UNCHANGED vars
  <2>1. BaseInv'
    BY <1>2, BaseStep DEF SafeInv
  <2> QED
    BY <1>2, <2>1 DEF vars, SafeInv, PhaseInv, CounterInv, IdInv, DoneInv, Around,
         Held, Worked, ToWrite, Stored, HandOf, BufOf, WorkOf
<1> QED
  BY <1>1, <1>2

-----------------------------------------------------------------------------
(* Work on the disk stays there.                                           *)

(* A version written keeps every stored item whose job is not done with. *)
LEMMA NewVersionKeeps ==
  ASSUME SafeInv, reissued = {}, NEW d, Written(d),
         NEW j \in JobsOf(db.items), j \notin finished \cup discarded
  PROVE  j \in JobsOf(d.items)
<1>0. Types /\ db \in recoverable
  BY DEF SafeInv, BaseInv, Types, TypeIo
<1>1. PICK i \in db.items : i.job = j
  BY DEF JobsOf
<1>2. \A k \in Around : k.id = FirstCounter + k.job /\ k.job \in Nat
  BY DEF SafeInv, IdInv, BaseInv, KnownInv, TypeHistory
<1>3. i \in Around
  BY <1>0, <1>1, AroundParts, StoredChange
<1>4. ASSUME NEW k \in Around, k.job # j
      PROVE  i.id # k.id
  BY <1>1, <1>2, <1>3, <1>4, BoundAssumption
<1>5. CASE d.items = db.items
  BY <1>5
<1>6. ASSUME NEW c \in Callers, ClearDb(c), d.items = Without(db.items, cItem[c].id)
      PROVE  j \in JobsOf(d.items)
  <2>1. cItem[c] \in Around /\ cItem[c].job \in discarded
    BY <1>6, AroundParts DEF ClearDb, HandOf, ItemPlaces, SafeInv, DoneInv
  <2>2. i.id # cItem[c].id
    BY <1>4, <2>1
  <2> QED
    BY <1>1, <1>6, <2>2 DEF Without, JobsOf
<1>7. ASSUME NEW w \in Workers, WorkerUnstore(w),
             d.items = Without(db.items, wItem[w].id)
      PROVE  j \in JobsOf(d.items)
  <2>1. wItem[w] \in Around /\ wItem[w].job \in finished \cup discarded
    BY <1>7, AroundParts DEF WorkerUnstore, WorkOf, WorkPlaces, SafeInv, DoneInv
  <2>2. i.id # wItem[w].id
    BY <1>4, <2>1
  <2> QED
    BY <1>1, <1>7, <2>2 DEF Without, JobsOf
<1>8. CASE /\ IoWriteItem
           /\ d.items = Without(db.items, Head(pending).id) \cup {Head(pending)}
  <2>1. pending # << >> /\ pending \in Seq(Items)
    BY <1>0, <1>8 DEF IoWriteItem, Types, TypeIo
  <2>2. Head(pending) \in Range(pending)
    BY <2>1, TailPart
  <2>3. Head(pending) \in Around
    BY <2>2, AroundParts DEF ToWrite
  <2>4. Head(pending).job = j \/ i.id # Head(pending).id
    BY <1>4, <2>3
  <2>5. i \in d.items \/ Head(pending).job = j
    BY <1>1, <1>8, <2>4 DEF Without
  <2> QED
    BY <1>1, <1>8, <2>5 DEF JobsOf
<1> QED
  BY <1>5, <1>6, <1>7, <1>8 DEF Written

(* Work that reached the disk is there after every crash until it is done  *)
(* with, whatever the callers, the workers and the I/O thread do in        *)
(* between, as long as no id is issued twice.                              *)
THEOREM WorkStaysOnDisk == Spec => DurableStays
<1> DEFINE A == \A j \in Owed :
                  OnDisk(j) => OnDisk(j)' \/ j \notin Owed' \/ reissued' # {}
<1>1. SafeInv /\ [Next]_vars => [A]_vars
  <2> SUFFICES ASSUME SafeInv, Next, NEW j \in Owed, OnDisk(j), reissued' = {}
               PROVE  OnDisk(j)'
    OBVIOUS
  <2>1. reissued = {}
    BY IdsChange
  <2>2. db \in recoverable /\ j \notin finished \cup discarded
    BY DEF SafeInv, BaseInv, Types, TypeIo, Owed
  <2>3. ASSUME NEW d \in recoverable' PROVE j \in JobsOf(d.items)
    <3>1. CASE d \in recoverable
      BY <3>1 DEF OnDisk
    <3>2. CASE d \notin recoverable
      <4>1. j \in JobsOf(db.items)
        BY <2>2 DEF OnDisk
      <4> QED
        BY <2>1, <2>2, <3>2, <4>1, NewVersion, NewVersionKeeps DEF SafeInv, BaseInv
    <3> QED
      BY <3>1, <3>2
  <2> QED
    BY <2>3 DEF OnDisk, JobsOf
<1> QED
  BY <1>1, SafeInit, SafeStep, PTL DEF Spec, DurableStays
=============================================================================
