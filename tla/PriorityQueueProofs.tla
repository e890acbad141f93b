------------------------- MODULE PriorityQueueProofs -------------------------
(***************************************************************************)
(* Safety of PriorityQueue for every number of callers, workers and items: *)
(* an item is in one place, the GUID index never misses a queued item that *)
(* a push returned, the database follows the queue, and the queue          *)
(* implements JobQueue.                                                    *)
(***************************************************************************)
EXTENDS PriorityQueue, SequenceLemmas

(* What an action leaves unchanged it names by these groups of variables.  *)
USE DEF memory, counts, sled, workers, locals, history

-----------------------------------------------------------------------------
(* Types.                                                                  *)

(* What the local variables of a call hold. *)
LocalsInv ==
  \A c \in Callers :
    /\ cpc[c] \in {"pushSend", "pushIndex"} => cLevel[c] \in 1 .. 100
    /\ cpc[c] = "removeSend" => Len(cItems[c]) = 1
    /\ cpc[c] \in {"idle", "flush"} => cItems[c] = << >>

TypeInv == TypeOK /\ LocalsInv

LEMMA GuidsType ==
  ASSUME NEW items \in SUBSET Items
  PROVE  GuidsOf(items) \subseteq Guids
BY DEF GuidsOf, Items

LEMMA IndexType ==
  ASSUME TypeMemory
  PROVE  /\ \A g \in Guids :
              /\ DOMAIN Unindexed(g) = DOMAIN index \ {g}
              /\ Unindexed(g) \in [DOMAIN Unindexed(g) -> 1 .. 100]
         /\ \A guids \in SUBSET Guids, l \in 1 .. 100 :
              /\ DOMAIN Inserted(guids, l) = DOMAIN index \cup guids
              /\ Inserted(guids, l) \in [DOMAIN Inserted(guids, l) -> 1 .. 100]
BY DEF TypeMemory, Unindexed, Inserted

LEMMA SendType ==
  ASSUME TypeIo, NEW m \in Messages, Send(m), UNCHANGED sled
  PROVE  TypeIo'
BY CapacityAssumption DEF TypeIo, Send

LEMMA ReturnType ==
  ASSUME TypeThreads, NEW c \in Callers, Return(c)
  PROVE  /\ cpc' \in [Callers -> {"idle", "pushSend", "pushIndex",
                                  "pushCount", "removeSend", "flush"}]
         /\ cItems' \in [Callers -> Seq(Items)] /\ cLeft' \in [Callers -> Nat]
         /\ cLevel' \in [Callers -> 0 .. 100] /\ cTime' \in [Callers -> Nat]
BY EmptyType DEF TypeThreads, Return, Goto

LEMMA BeginType ==
  ASSUME TypeInv, NEW c \in Callers, CallBegins(c)
  PROVE  TypeOK'
<1> USE DEF TypeInv, TypeOK
<1>1. CASE PushBegin(c)
  <2>1. TypeMemory' /\ TypeIo' /\ TypeHistory'
    BY <1>1 DEF PushBegin, TypeMemory, TypeIo, TypeHistory
  <2>2. PICK n \in Nat, l \in 1 .. 100, t \in Nat :
          /\ cLeft' = [cLeft EXCEPT ![c] = n]
          /\ cLevel' = [cLevel EXCEPT ![c] = l]
          /\ cTime' = [cTime EXCEPT ![c] = t]
    BY <1>1, SizeAssumption, LevelAssumption DEF PushBegin
  <2>3. TypeThreads'
    BY <1>1, <2>2 DEF PushBegin, TypeThreads, Goto
  <2> QED
    BY <2>1, <2>3
<1>2. CASE CallerGetNext(c)
  <2>1. PICK item \in Items :
          /\ item \in heap /\ item.guid \in Guids
          /\ heap' = heap \ {item} /\ index' = Unindexed(item.guid)
          /\ taken' = Append(taken, item.guid)
          /\ byCaller' = byCaller \cup {item.guid}
    BY <1>2 DEF CallerGetNext, GetNext, Tops, TypeMemory, Items
  <2>2. TypeMemory'
    BY <1>2, <2>1, IndexType DEF CallerGetNext, TypeMemory
  <2>3. TypeIo' /\ TypeThreads'
    BY <1>2 DEF CallerGetNext, TypeIo, TypeThreads
  <2>4. TypeHistory'
    BY <1>2, <2>1, SeqTypes DEF CallerGetNext, TypeHistory
  <2> QED
    BY <2>2, <2>3, <2>4
<1>3. CASE UpdatePriority(c)
  <2>1. PICK i \in Items, l \in 1 .. 100 :
          /\ i.guid \in Guids /\ [i EXCEPT !.level = l] \in Items
          /\ heap' = (heap \ {i}) \cup {[i EXCEPT !.level = l]}
          /\ index' = Inserted({i.guid}, l)
    BY <1>3, LevelAssumption DEF UpdatePriority, TypeMemory, Items
  <2>2. TypeMemory'
    <3>1. {i.guid} \in SUBSET Guids
      BY <2>1
    <3>2. /\ DOMAIN index' = DOMAIN index \cup {i.guid}
          /\ index' \in [DOMAIN index' -> 1 .. 100]
      BY <2>1, <3>1, IndexType
    <3> QED
      BY <1>3, <2>1, <3>2 DEF UpdatePriority, TypeMemory
  <2>3. TypeIo' /\ TypeThreads' /\ TypeHistory'
    BY <1>3 DEF UpdatePriority, TypeIo, TypeThreads, TypeHistory
  <2> QED
    BY <2>2, <2>3
<1>4. CASE RemoveFind(c)
  <2>1. PICK i \in Items :
          /\ i.guid \in Guids /\ heap' = heap \ {i}
          /\ cItems' = [cItems EXCEPT ![c] = <<i>>]
          /\ removed' = removed \cup {i.guid}
    BY <1>4 DEF RemoveFind, TypeMemory, Items
  <2>2. TypeMemory' /\ TypeIo' /\ TypeHistory'
    BY <1>4, <2>1 DEF RemoveFind, TypeMemory, TypeIo, TypeHistory
  <2>3. <<i>> \in Seq(Items)
    OBVIOUS
  <2>4. TypeThreads'
    BY <1>4, <2>1, <2>3 DEF RemoveFind, TypeThreads, Goto
  <2> QED
    BY <2>2, <2>4
<1>5. CASE FlushBegin(c)
  <2>1. TypeMemory' /\ TypeIo' /\ TypeHistory'
    BY <1>5 DEF FlushBegin, TypeMemory, TypeIo, TypeHistory
  <2>2. TypeThreads'
    BY <1>5 DEF FlushBegin, TypeThreads, Goto
  <2> QED
    BY <2>1, <2>2
<1>6. CASE Close(c)
  BY <1>6 DEF Close, TypeMemory, TypeIo, TypeThreads, TypeHistory
<1>7. CASE Start(c)
  <2>1. TypeMemory' /\ TypeIo' /\ TypeHistory'
    BY <1>7 DEF Start, TypeMemory, TypeIo, TypeHistory
  <2>2. TypeThreads'
    BY <1>7 DEF Start, TypeThreads
  <2> QED
    BY <2>1, <2>2
<1>8. CASE PeekNext(c)
  <2>1. shown' \subseteq Guids
    BY <1>8 DEF PeekNext, Tops, TypeMemory, TypeHistory, Items
  <2>2. TypeMemory' /\ TypeIo' /\ TypeThreads'
    BY <1>8 DEF PeekNext, TypeMemory, TypeIo, TypeThreads
  <2>3. TypeHistory'
    BY <1>8, <2>1 DEF PeekNext, TypeHistory
  <2> QED
    BY <2>2, <2>3
<1> QED
  BY <1>1, <1>2, <1>3, <1>4, <1>5, <1>6, <1>7, <1>8 DEF CallBegins

(* The items a call holds. *)
LEMMA HeldItems ==
  ASSUME TypeInv, NEW c \in Callers
  PROVE  /\ Range(cItems[c]) \subseteq Items
         /\ GuidsOf(Range(cItems[c])) \subseteq Guids
         /\ cpc[c] = "removeSend" =>
              /\ cItems[c][1].guid \in Guids
              /\ GuidsOf(Range(cItems[c])) = {cItems[c][1].guid}
<1>1. cItems[c] \in Seq(Items)
  BY DEF TypeInv, TypeOK, TypeThreads
<1>2. Range(cItems[c]) \subseteq Items
  BY <1>1, RangeType
<1>3. GuidsOf(Range(cItems[c])) \subseteq Guids
  BY <1>2, GuidsType
<1>4. ASSUME cpc[c] = "removeSend"
      PROVE  Range(cItems[c]) = {cItems[c][1]}
  BY <1>1, <1>4 DEF Range, TypeInv, LocalsInv
<1> QED
  BY <1>2, <1>3, <1>4 DEF GuidsOf, Items

LEMMA ContinueType ==
  ASSUME TypeInv, NEW c \in Callers, CallContinues(c)
  PROVE  TypeOK'
<1> USE DEF TypeInv, TypeOK
<1>1. CASE PushSend(c)
  <2>1. issued + 1 \in Guids
    BY DEF TypeMemory, Guids
  <2>2. Message("insert", issued + 1) \in Messages
    BY <2>1 DEF Message, Messages
  <2>3. Item(issued + 1, cLevel[c], cTime[c] + Len(cItems[c])) \in Items
    BY <1>1, <2>1 DEF PushSend, LocalsInv, TypeThreads, Item, Items
  <2>4. TypeMemory' /\ TypeHistory'
    BY <1>1 DEF PushSend, TypeMemory, TypeHistory
  <2>5. TypeIo'
    BY <1>1, <2>2, SendType DEF PushSend
  <2>6. Append(cItems[c], Item(issued + 1, cLevel[c], cTime[c] + Len(cItems[c])))
          \in Seq(Items)
    BY <2>3, SeqTypes DEF TypeThreads
  <2>7. TypeThreads'
    BY <1>1, <2>6 DEF PushSend, TypeThreads
  <2> QED
    BY <2>4, <2>5, <2>7
<1>2. CASE PushHeap(c)
  <2>1. TypeMemory'
    BY <1>2, HeldItems DEF PushHeap, TypeMemory
  <2>2. TypeIo' /\ TypeHistory'
    BY <1>2 DEF PushHeap, TypeIo, TypeHistory
  <2>3. TypeThreads'
    BY <1>2 DEF PushHeap, TypeThreads, Goto
  <2> QED
    BY <2>1, <2>2, <2>3
<1>3. CASE PushIndex(c)
  <2>1. cLevel[c] \in 1 .. 100 /\ GuidsOf(Range(cItems[c])) \in SUBSET Guids
    BY <1>3, HeldItems DEF PushIndex, LocalsInv
  <2>2. TypeMemory'
    <3>1. /\ DOMAIN index' = DOMAIN index \cup GuidsOf(Range(cItems[c]))
          /\ index' \in [DOMAIN index' -> 1 .. 100]
      BY <1>3, <2>1, IndexType DEF PushIndex
    <3> QED
      BY <1>3, <2>1, <3>1 DEF PushIndex, TypeMemory
  <2>3. TypeIo' /\ TypeHistory'
    BY <1>3 DEF PushIndex, TypeIo, TypeHistory
  <2>4. TypeThreads'
    BY <1>3 DEF PushIndex, TypeThreads, Goto
  <2> QED
    BY <2>2, <2>3, <2>4
<1>4. CASE PushCount(c)
  <2>1. Len(cItems[c]) \in Nat
    BY DEF TypeThreads
  <2>2. TypeMemory' /\ TypeIo'
    BY <1>4, <2>1 DEF PushCount, TypeMemory, TypeIo
  <2>3. TypeHistory'
    BY <1>4, HeldItems DEF PushCount, TypeHistory
  <2>4. TypeThreads'
    BY <1>4, ReturnType DEF PushCount, TypeThreads
  <2> QED
    BY <2>2, <2>3, <2>4
<1>5. CASE RemoveSend(c)
  <2>1. cItems[c][1].guid \in Guids
    BY <1>5, HeldItems DEF RemoveSend
  <2>2. Message("delete", cItems[c][1].guid) \in Messages
    BY <2>1 DEF Message, Messages
  <2>3. TypeMemory'
    BY <1>5, <2>1, IndexType DEF RemoveSend, TypeMemory
  <2>4. TypeIo' /\ TypeHistory'
    BY <1>5, <2>2, SendType DEF RemoveSend, TypeHistory
  <2>5. TypeThreads'
    BY <1>5, ReturnType DEF RemoveSend, TypeThreads
  <2> QED
    BY <2>3, <2>4, <2>5
<1>6. CASE FlushSend(c)
  <2>1. Message("flush", 0) \in Messages
    BY DEF Message, Messages
  <2>2. TypeMemory' /\ TypeHistory'
    BY <1>6 DEF FlushSend, TypeMemory, TypeHistory
  <2>3. TypeIo'
    BY <1>6, <2>1, SendType DEF FlushSend
  <2>4. TypeThreads'
    BY <1>6, ReturnType DEF FlushSend, TypeThreads
  <2> QED
    BY <2>2, <2>3, <2>4
<1> QED
  BY <1>1, <1>2, <1>3, <1>4, <1>5, <1>6 DEF CallContinues

LEMMA WorkerIoType ==
  ASSUME TypeInv, (\E w \in Workers : WorkerStep(w)) \/ IoApply \/ IoIdle
  PROVE  TypeOK'
<1> USE DEF TypeInv, TypeOK
<1>1. ASSUME NEW w \in Workers, WorkerNext(w) PROVE TypeOK'
  <2>1. TypeIo'
    BY <1>1 DEF WorkerNext, TypeIo
  <2>2. ASSUME NEW item \in Tops, GetNext(item),
               wGuid' = [wGuid EXCEPT ![w] = item.guid], WorkerGoto(w, "call")
        PROVE  TypeMemory' /\ TypeThreads' /\ TypeHistory'
    <3>1. /\ item.guid \in Guids
          /\ heap' = heap \ {item} /\ index' = Unindexed(item.guid)
          /\ taken' = Append(taken, item.guid)
      BY <2>2 DEF GetNext, Tops, TypeMemory, Items
    <3>2. TypeMemory'
      BY <1>1, <3>1, IndexType DEF WorkerNext, TypeMemory
    <3>3. TypeThreads'
      BY <1>1, <2>2, <3>1 DEF WorkerNext, TypeThreads, WorkerGoto
    <3>4. TypeHistory'
      BY <1>1, <3>1, SeqTypes DEF WorkerNext, TypeHistory
    <3> QED
      BY <3>2, <3>3, <3>4
  <2>3. ASSUME WorkerGoto(w, "empty"), UNCHANGED <<heap, index, taken, wGuid>>
        PROVE  TypeMemory' /\ TypeThreads' /\ TypeHistory'
    BY <1>1, <2>3
       DEF WorkerNext, TypeMemory, TypeThreads, TypeHistory, WorkerGoto
  <2> QED
    BY <1>1, <2>1, <2>2, <2>3 DEF WorkerNext
<1>2. ASSUME NEW w \in Workers, WorkerEmpty(w) \/ WorkerCount(w)
      PROVE  TypeOK'
  <2>1. TypeIo' /\ TypeHistory'
    BY <1>2 DEF WorkerEmpty, WorkerCount, TypeIo, TypeHistory
  <2>2. CASE WorkerEmpty(w)
    <3>1. TypeMemory' /\ TypeThreads'
      BY <2>2 DEF WorkerEmpty, TypeMemory, TypeThreads, WorkerGoto
    <3> QED
      BY <2>1, <3>1
  <2>3. CASE WorkerCount(w)
    <3>1. TypeMemory' /\ TypeThreads'
      BY <2>3 DEF WorkerCount, TypeMemory, TypeThreads, WorkerGoto
    <3> QED
      BY <2>1, <3>1
  <2> QED
    BY <1>2, <2>2, <2>3
<1>3. CASE IoApply
  <2>1. TypeMemory' /\ TypeThreads' /\ TypeHistory'
    BY <1>3 DEF IoApply, TypeMemory, TypeThreads, TypeHistory
  <2>2. /\ Head(channel) \in Messages /\ Tail(channel) \in Seq(Messages)
        /\ Len(Tail(channel)) <= Capacity
    BY <1>3, SeqTypes, CapacityAssumption DEF IoApply, TypeIo
  <2>3. Applied(disk, Head(channel)) \subseteq Guids
    BY <2>2 DEF TypeIo, Messages, Message, Applied
  <2>4. TypeIo'
    BY <1>3, <2>2, <2>3 DEF IoApply, TypeIo
  <2> QED
    BY <2>1, <2>4
<1>4. CASE IoIdle
  BY <1>4 DEF IoIdle, TypeMemory, TypeIo, TypeThreads, TypeHistory
<1> QED
  BY <1>1, <1>2, <1>3, <1>4 DEF WorkerStep

LEMMA InitType ==
  Init => TypeInv
<1> SUFFICES ASSUME Init PROVE TypeInv
  OBVIOUS
<1>1. DOMAIN index = {} /\ index \in [DOMAIN index -> 1 .. 100]
  BY DEF Init
<1>2. TypeMemory
  BY <1>1 DEF Init, TypeMemory
<1>3. TypeIo /\ TypeHistory
  BY CapacityAssumption DEF Init, TypeIo, TypeHistory
<1>4. TypeThreads
  BY EmptyType DEF Init, TypeThreads
<1> QED
  BY <1>2, <1>3, <1>4 DEF Init, TypeInv, TypeOK, LocalsInv

LEMMA LocalsStep ==
  ASSUME TypeInv, [Next]_vars
  PROVE  LocalsInv'
<1> USE DEF TypeInv
<1>1. ASSUME NEW c \in Callers, CallBegins(c) \/ CallContinues(c)
      PROVE  LocalsInv'
  <2> SUFFICES ASSUME NEW d \in Callers
               PROVE  /\ cpc'[d] \in {"pushSend", "pushIndex"} =>
                           cLevel'[d] \in 1 .. 100
                      /\ cpc'[d] = "removeSend" => Len(cItems'[d]) = 1
                      /\ cpc'[d] \in {"idle", "flush"} => cItems'[d] = << >>
    BY DEF LocalsInv
  <2> USE DEF LocalsInv, TypeOK, TypeThreads, Goto
  <2>1. CASE PushBegin(c)
    BY <2>1, LevelAssumption DEF PushBegin, CanCall
  <2>2. CASE RemoveFind(c)
    BY <2>2 DEF RemoveFind, CanCall
  <2>3. CASE FlushBegin(c)
    BY <2>3 DEF FlushBegin, CanCall
  <2>4. CASE CallerGetNext(c) \/ PeekNext(c) \/ UpdatePriority(c) \/ Close(c)
             \/ Start(c)
    BY <2>4 DEF CallerGetNext, PeekNext, UpdatePriority, Close, Start
  <2>5. CASE PushSend(c)
    BY <2>5 DEF PushSend
  <2>6. CASE PushHeap(c)
    BY <2>6 DEF PushHeap
  <2>7. CASE PushIndex(c)
    BY <2>7 DEF PushIndex
  <2>8. CASE PushCount(c) \/ RemoveSend(c) \/ FlushSend(c)
    BY <2>8 DEF PushCount, RemoveSend, FlushSend, Return
  <2> QED
    BY <1>1, <2>1, <2>2, <2>3, <2>4, <2>5, <2>6, <2>7, <2>8
       DEF CallBegins, CallContinues
<1>2. CASE (\E w \in Workers : WorkerStep(w)) \/ IoApply \/ IoIdle
           \/ UNCHANGED vars
  BY <1>2 DEF LocalsInv, WorkerStep, WorkerNext, WorkerEmpty, WorkerCount,
              IoApply, IoIdle, vars
<1> QED
  BY <1>1, <1>2 DEF Next

LEMMA TypeStep ==
  ASSUME TypeInv, [Next]_vars
  PROVE  TypeInv'
<1>1. ASSUME UNCHANGED vars PROVE TypeOK'
  <2>1. TypeMemory' = TypeMemory /\ TypeIo' = TypeIo
    BY <1>1 DEF TypeMemory, TypeIo, vars
  <2>2. TypeThreads' = TypeThreads /\ TypeHistory' = TypeHistory
    BY <1>1 DEF TypeThreads, TypeHistory, vars
  <2> QED
    BY <2>1, <2>2 DEF TypeInv, TypeOK
<1>2. ASSUME Next PROVE TypeOK'
  BY <1>2, BeginType, ContinueType, WorkerIoType DEF Next
<1> QED
  BY <1>1, <1>2, LocalsStep DEF TypeInv

(* The types of the whole queue, and that a caller at each place of a call *)
(* has the local variables it will use there.                              *)
THEOREM TypeCorrect == Spec => [](TypeOK /\ LocalsInv)
<1>1. Spec => []TypeInv
  BY InitType, TypeStep, PTL DEF Spec
<1> QED
  BY <1>1, PTL DEF TypeInv

-----------------------------------------------------------------------------
(* Where an item is.                                                       *)

(* GUIDs of the items a push has made and not returned yet, and the one a  *)
(* removal has taken out of the heap and not deleted yet.                  *)
Pushing(c) ==
  IF cpc[c] \in {"pushSend", "pushIndex", "pushCount"}
    THEN GuidsOf(Range(cItems[c])) ELSE {}
Unheaped(c) == IF cpc[c] = "pushSend" THEN Pushing(c) ELSE {}
Removing(c) ==
  IF cpc[c] = "removeSend" THEN GuidsOf(Range(cItems[c])) ELSE {}

(* A GUID stands for one item, which is in one place. *)
OneEach(items) == \A i, j \in items : i.guid = j.guid => i = j
PlacesApart ==
  /\ OneEach(heap)
  /\ GuidsOf(heap) \cap (Range(taken) \cup removed) = {}
  /\ Range(taken) \cap removed = {}
  /\ GuidsOf(heap) \cup Range(taken) \cup removed \cup returned
       \subseteq 1 .. issued

(* What callers hold of items, each holding others. *)
HandsApart ==
  /\ \A c \in Callers :
       /\ cpc[c] = "pushSend" => OneEach(Range(cItems[c]))
       /\ Unheaped(c) \cap (GuidsOf(heap) \cup Range(taken) \cup removed) = {}
       /\ Pushing(c) \cap returned = {} /\ Pushing(c) \subseteq 1 .. issued
       /\ Removing(c) \subseteq removed
  /\ \A c, d \in Callers :
       c # d => /\ Pushing(c) \cap Pushing(d) = {}
                /\ Removing(c) \cap Removing(d) = {}

(* A worker, or a caller, holds an item get_next returned to nobody else.  *)
HeldApart ==
  /\ byCaller \subseteq Range(taken)
  /\ \A w \in Workers :
       wpc[w] = "call" => wGuid[w] \in Range(taken) \ byCaller
  /\ \A v, w \in Workers :
       v # w /\ wpc[v] = "call" /\ wpc[w] = "call" => wGuid[v] # wGuid[w]

(* The index lacks only what a push under way is about to add. *)
IndexLag ==
  \A g \in GuidsOf(heap) :
    \/ g \in DOMAIN index
    \/ \E c \in Callers : cpc[c] = "pushIndex" /\ g \in Pushing(c)

PlaceInv == TypeInv /\ PlacesApart /\ HandsApart /\ HeldApart /\ IndexLag

(* A step of one call is not a step of another. *)
LEMMA OthersKeep ==
  ASSUME TypeInv, NEW c \in Callers, CallBegins(c) \/ CallContinues(c),
         NEW d \in Callers, d # c
  PROVE  /\ cpc'[d] = cpc[d] /\ cItems'[d] = cItems[d]
         /\ Pushing(d)' = Pushing(d) /\ Unheaped(d)' = Unheaped(d)
         /\ Removing(d)' = Removing(d)
<1>1. cpc'[d] = cpc[d] /\ cItems'[d] = cItems[d]
  <2> USE DEF TypeInv, TypeOK, TypeThreads, Goto
  <2>1. CASE CallBegins(c)
    BY <2>1 DEF CallBegins, PushBegin, RemoveFind, FlushBegin, CallerGetNext,
                PeekNext, UpdatePriority, Close, Start
  <2>2. CASE CallContinues(c)
    BY <2>2 DEF CallContinues, PushSend, PushHeap, PushIndex, PushCount,
                RemoveSend, FlushSend, Return
  <2> QED
    BY <2>1, <2>2
<1> QED
  BY <1>1 DEF Pushing, Unheaped, Removing

(* What each step of a call does to what the call holds. *)
LEMMA HandsOf ==
  ASSUME TypeInv, NEW c \in Callers
  PROVE  /\ PushBegin(c) => Pushing(c)' = {} /\ Removing(c)' = {}
         /\ \A i : RemoveFind(c) /\ cItems' = [cItems EXCEPT ![c] = <<i>>] =>
              /\ Pushing(c)' = {} /\ Removing(c)' = {i.guid}
              /\ Removing(c) = {}
         /\ FlushBegin(c) \/ FlushSend(c) \/ RemoveSend(c) \/ PushCount(c) =>
              Pushing(c)' = {} /\ Removing(c)' = {}
         /\ PushSend(c) =>
              /\ Pushing(c)' = Pushing(c) \cup {issued + 1}
              /\ Unheaped(c)' = Pushing(c)' /\ Unheaped(c) = Pushing(c)
              /\ Removing(c)' = {}
              /\ Range(cItems'[c]) =
                   Range(cItems[c]) \cup
                     {Item(issued + 1, cLevel[c], cTime[c] + Len(cItems[c]))}
         /\ PushHeap(c) =>
              /\ Pushing(c)' = Pushing(c) /\ Removing(c)' = {}
              /\ Pushing(c) = GuidsOf(Range(cItems[c]))
              /\ Unheaped(c) = Pushing(c)
         /\ PushIndex(c) =>
              /\ Pushing(c)' = Pushing(c) /\ Removing(c)' = {}
              /\ Pushing(c) = GuidsOf(Range(cItems[c]))
<1> USE DEF TypeInv, TypeOK, TypeThreads, Goto
<1>0. GuidsOf(Range(<< >>)) = {}
  BY DEF GuidsOf, Range
<1>1. ASSUME PushBegin(c) PROVE Pushing(c)' = {} /\ Removing(c)' = {}
  BY <1>0, <1>1 DEF PushBegin, CanCall, LocalsInv, Pushing, Removing
<1>2. ASSUME NEW i, RemoveFind(c), cItems' = [cItems EXCEPT ![c] = <<i>>]
      PROVE  Pushing(c)' = {} /\ Removing(c)' = {i.guid} /\ Removing(c) = {}
  <2>1. cpc[c] = "idle" /\ cpc'[c] = "removeSend" /\ cItems'[c] = <<i>>
    BY <1>2 DEF RemoveFind, CanCall
  <2>2. GuidsOf(Range(<<i>>)) = {i.guid}
    BY DEF GuidsOf, Range
  <2> QED
    BY <2>1, <2>2 DEF Pushing, Removing
<1>3. ASSUME FlushBegin(c) \/ FlushSend(c) \/ RemoveSend(c) \/ PushCount(c)
      PROVE  Pushing(c)' = {} /\ Removing(c)' = {}
  BY <1>3 DEF FlushBegin, FlushSend, RemoveSend, PushCount, Return, Pushing,
              Removing
<1>4. ASSUME PushSend(c)
      PROVE  /\ Pushing(c)' = Pushing(c) \cup {issued + 1}
             /\ Unheaped(c)' = Pushing(c)' /\ Unheaped(c) = Pushing(c)
             /\ Removing(c)' = {}
             /\ Range(cItems'[c]) =
                  Range(cItems[c]) \cup
                    {Item(issued + 1, cLevel[c], cTime[c] + Len(cItems[c]))}
  <2> DEFINE item == Item(issued + 1, cLevel[c], cTime[c] + Len(cItems[c]))
  <2>1. /\ cpc[c] = "pushSend" /\ cpc'[c] = "pushSend"
        /\ cItems'[c] = Append(cItems[c], item) /\ cItems[c] \in Seq(Items)
    BY <1>4 DEF PushSend
  <2>2. issued + 1 \in Guids
    BY DEF TypeMemory, Guids
  <2>3. item \in Items
    BY <1>4, <2>2 DEF PushSend, LocalsInv, Item, Items
  <2>4. Range(cItems'[c]) = Range(cItems[c]) \cup {item}
    BY <2>1, <2>3, AppendRange
  <2>5. \A items, i : GuidsOf(items \cup {i}) = GuidsOf(items) \cup {i.guid}
    BY DEF GuidsOf
  <2>6. item.guid = issued + 1
    BY DEF Item
  <2> HIDE DEF item
  <2>7. GuidsOf(Range(cItems'[c])) = GuidsOf(Range(cItems[c])) \cup {issued + 1}
    BY <2>4, <2>5, <2>6
  <2> QED
    BY <2>1, <2>4, <2>7 DEF item, Pushing, Unheaped, Removing
<1>5. ASSUME PushHeap(c) \/ PushIndex(c)
      PROVE  /\ Pushing(c)' = Pushing(c) /\ Removing(c)' = {}
             /\ Pushing(c) = GuidsOf(Range(cItems[c]))
  BY <1>5 DEF PushHeap, PushIndex, Pushing, Removing
<1>6. ASSUME PushHeap(c) PROVE Unheaped(c) = Pushing(c)
  BY <1>6 DEF PushHeap, Unheaped
<1> QED
  BY <1>1, <1>2, <1>3, <1>4, <1>5, <1>6

LEMMA GuidsOfSets ==
  /\ \A items, i : GuidsOf(items \cup {i}) = GuidsOf(items) \cup {i.guid}
  /\ \A s, t : GuidsOf(s \cup t) = GuidsOf(s) \cup GuidsOf(t)
  /\ \A items : \A i \in items : i.guid \in GuidsOf(items)
  /\ \A items : \A g \in GuidsOf(items) : \E i \in items : i.guid = g
BY DEF GuidsOf

LEMMA HeapLess ==
  ASSUME PlacesApart, NEW i \in heap
  PROVE  /\ i.guid \in GuidsOf(heap) /\ OneEach(heap \ {i})
         /\ GuidsOf(heap \ {i}) = GuidsOf(heap) \ {i.guid}
BY DEF PlacesApart, OneEach, GuidsOf

LEMMA HeapChanged ==
  ASSUME PlaceInv, NEW i \in heap, NEW l
  PROVE  /\ GuidsOf((heap \ {i}) \cup {[i EXCEPT !.level = l]}) = GuidsOf(heap)
         /\ OneEach((heap \ {i}) \cup {[i EXCEPT !.level = l]})
         /\ i.guid \in GuidsOf(heap)
<1> DEFINE new == [i EXCEPT !.level = l]
<1>1. i \in Items
  BY DEF PlaceInv, TypeInv, TypeOK, TypeMemory
<1>2. new.guid = i.guid
  BY <1>1 DEF Items
<1> HIDE DEF new
<1>3. /\ i.guid \in GuidsOf(heap) /\ OneEach(heap \ {i})
      /\ GuidsOf(heap \ {i}) = GuidsOf(heap) \ {i.guid}
  BY HeapLess DEF PlaceInv
<1>4. GuidsOf((heap \ {i}) \cup {new}) = GuidsOf(heap)
  <2>1. GuidsOf((heap \ {i}) \cup {new}) = GuidsOf(heap \ {i}) \cup {new.guid}
    BY GuidsOfSets
  <2> QED
    BY <2>1, <1>2, <1>3
<1>5. \A j \in heap \ {i} : j.guid \in GuidsOf(heap \ {i})
  BY GuidsOfSets
<1>6. OneEach((heap \ {i}) \cup {new})
  BY <1>2, <1>3, <1>5 DEF OneEach
<1> QED
  BY <1>3, <1>4, <1>6 DEF new

(* A step by which no call holds anything else, and nothing gets to where  *)
(* an item of a push under way must not be.                                *)
LEMMA HandsSame ==
  ASSUME PlaceInv, UNCHANGED <<cItems, returned, issued, removed>>,
         \A c \in Callers :
           cpc'[c] \in {"pushSend", "pushIndex", "pushCount", "removeSend"}
             \/ cpc[c] \in {"pushSend", "pushIndex", "pushCount", "removeSend"}
           => cpc'[c] = cpc[c],
         GuidsOf(heap') \cup Range(taken') = GuidsOf(heap) \cup Range(taken)
  PROVE  HandsApart'
<1>1. \A c \in Callers :
        /\ Pushing(c)' = Pushing(c) /\ Unheaped(c)' = Unheaped(c)
        /\ Removing(c)' = Removing(c)
        /\ cpc'[c] = "pushSend" => cpc[c] = "pushSend"
  BY DEF Pushing, Unheaped, Removing
<1> QED
  BY <1>1 DEF PlaceInv, HandsApart

(* A step of one call: what has to hold of what it holds.                  *)
LEMMA HandsFrame ==
  ASSUME PlaceInv, NEW c \in Callers, CallBegins(c) \/ CallContinues(c),
         cpc'[c] = "pushSend" => OneEach(Range(cItems'[c])),
         Unheaped(c)' \cap (GuidsOf(heap') \cup Range(taken') \cup removed') = {},
         Pushing(c)' \cap returned' = {}, Pushing(c)' \subseteq 1 .. issued',
         Removing(c)' \subseteq removed', removed \subseteq removed',
         1 .. issued \subseteq 1 .. issued',
         \A d \in Callers \ {c} :
           /\ Pushing(c)' \cap Pushing(d) = {}
           /\ Removing(c)' \cap Removing(d) = {}
           /\ Unheaped(d) \cap
                (GuidsOf(heap') \cup Range(taken') \cup removed') = {}
           /\ Pushing(d) \cap returned' = {}
  PROVE  HandsApart'
<1>1. \A d \in Callers \ {c} :
        /\ cpc'[d] = cpc[d] /\ cItems'[d] = cItems[d]
        /\ Pushing(d)' = Pushing(d) /\ Unheaped(d)' = Unheaped(d)
        /\ Removing(d)' = Removing(d)
  BY OthersKeep DEF PlaceInv
<1>2. ASSUME NEW d \in Callers
      PROVE  /\ cpc'[d] = "pushSend" => OneEach(Range(cItems'[d]))
             /\ Unheaped(d)' \cap
                  (GuidsOf(heap') \cup Range(taken') \cup removed') = {}
             /\ Pushing(d)' \cap returned' = {} /\ Pushing(d)' \subseteq 1 .. issued'
             /\ Removing(d)' \subseteq removed'
  <2>1. CASE d = c
    BY <2>1
  <2>2. CASE d # c
    BY <1>1, <2>2 DEF PlaceInv, HandsApart
  <2> QED
    BY <2>1, <2>2
<1>3. ASSUME NEW d \in Callers, NEW e \in Callers, d # e
      PROVE  Pushing(d)' \cap Pushing(e)' = {} /\ Removing(d)' \cap Removing(e)' = {}
  <2>1. CASE d = c
    BY <1>1, <1>3, <2>1
  <2>2. CASE e = c
    BY <1>1, <1>3, <2>2
  <2>3. CASE d # c /\ e # c
    BY <1>1, <1>3, <2>3 DEF PlaceInv, HandsApart
  <2> QED
    BY <2>1, <2>2, <2>3
<1>4. HandsApart' =
        (/\ \A d \in Callers :
              /\ cpc'[d] = "pushSend" => OneEach(Range(cItems'[d]))
              /\ Unheaped(d)' \cap
                   (GuidsOf(heap') \cup Range(taken') \cup removed') = {}
              /\ Pushing(d)' \cap returned' = {}
              /\ Pushing(d)' \subseteq 1 .. issued'
              /\ Removing(d)' \subseteq removed'
         /\ \A d, e \in Callers :
              d # e => /\ Pushing(d)' \cap Pushing(e)' = {}
                       /\ Removing(d)' \cap Removing(e)' = {})
  BY DEF HandsApart
<1> QED
  BY <1>2, <1>3, <1>4

LEMMA LagFrame ==
  ASSUME PlaceInv, GuidsOf(heap') \subseteq GuidsOf(heap),
         \A g \in GuidsOf(heap') \cap DOMAIN index : g \in DOMAIN index',
         \A c \in Callers : cpc[c] = "pushIndex" =>
           cpc'[c] = "pushIndex" /\ cItems'[c] = cItems[c]
  PROVE  IndexLag'
<1> SUFFICES ASSUME NEW g \in GuidsOf(heap'), g \notin DOMAIN index'
             PROVE  \E c \in Callers : cpc'[c] = "pushIndex" /\ g \in Pushing(c)'
  BY DEF IndexLag
<1>1. PICK c \in Callers : cpc[c] = "pushIndex" /\ g \in Pushing(c)
  BY DEF PlaceInv, IndexLag
<1> QED
  BY <1>1 DEF Pushing

(* An item get_next returns. *)
LEMMA TakenItem ==
  ASSUME PlaceInv, NEW item \in Tops, GetNext(item),
         UNCHANGED <<issued, removed, returned>>
  PROVE  /\ PlacesApart' /\ item.guid \in GuidsOf(heap) \ Range(taken)
         /\ GuidsOf(heap') = GuidsOf(heap) \ {item.guid}
         /\ Range(taken') = Range(taken) \cup {item.guid}
         /\ \A g \in GuidsOf(heap') \cap DOMAIN index : g \in DOMAIN index'
<1> USE DEF PlaceInv
<1>1. item \in heap /\ item.guid \in Guids
  BY DEF Tops, TypeInv, TypeOK, TypeMemory, Items
<1>2. /\ item.guid \in GuidsOf(heap) /\ OneEach(heap')
      /\ GuidsOf(heap') = GuidsOf(heap) \ {item.guid}
  BY <1>1, HeapLess DEF GetNext
<1>3. Range(taken') = Range(taken) \cup {item.guid}
  BY <1>1, AppendRange DEF GetNext, TypeInv, TypeOK, TypeHistory
<1>4. DOMAIN index' = DOMAIN index \ {item.guid}
  BY <1>1, IndexType DEF GetNext, TypeInv, TypeOK
<1>5. item.guid \notin Range(taken)
  BY <1>2 DEF PlacesApart
<1>6. PlacesApart'
  BY <1>2, <1>3 DEF PlacesApart
<1> QED
  BY <1>2, <1>3, <1>4, <1>5, <1>6

(* Every step of a call that is about an item, by what it moves.           *)
LEMMA PlacesBegin ==
  ASSUME PlaceInv, NEW c \in Callers, CallBegins(c)
  PROVE  PlacesApart' /\ HandsApart' /\ HeldApart' /\ IndexLag'
<1> USE DEF PlaceInv
<1>0. cpc[c] = "idle"
  BY DEF CallBegins, PushBegin, CallerGetNext, PeekNext, UpdatePriority,
         RemoveFind, FlushBegin, Close, Start, CanCall
<1>1. CASE PushBegin(c)
  <2>1. UNCHANGED <<heap, index, taken, byCaller, removed, returned, issued,
                    cItems, workers>>
    BY <1>1 DEF PushBegin
  <2>2. Pushing(c)' = {} /\ Removing(c)' = {} /\ Unheaped(c)' = {}
    BY <1>1, HandsOf DEF Unheaped
  <2>3. Range(cItems'[c]) = {}
    BY <1>0, <2>1 DEF TypeInv, LocalsInv, Range
  <2>4. OneEach(Range(cItems'[c]))
    BY <2>3 DEF OneEach
  <2>5. HandsApart'
    BY <2>1, <2>2, <2>4, HandsFrame DEF HandsApart
  <2>6. \A d \in Callers : cpc[d] = "pushIndex" => cpc'[d] = "pushIndex"
    BY <1>0, OthersKeep
  <2>7. IndexLag'
    BY <2>1, <2>6, LagFrame
  <2> QED
    BY <2>1, <2>5, <2>7 DEF PlacesApart, HeldApart
<1>2. CASE CallerGetNext(c)
  <2>1. PICK item \in Tops : GetNext(item) /\ byCaller' = byCaller \cup {item.guid}
    BY <1>2 DEF CallerGetNext
  <2>2. UNCHANGED <<cpc, cItems, removed, returned, issued, workers>>
    BY <1>2 DEF CallerGetNext
  <2>3. /\ PlacesApart' /\ item.guid \in GuidsOf(heap) \ Range(taken)
        /\ GuidsOf(heap') = GuidsOf(heap) \ {item.guid}
        /\ Range(taken') = Range(taken) \cup {item.guid}
        /\ \A g \in GuidsOf(heap') \cap DOMAIN index : g \in DOMAIN index'
    BY <2>1, <2>2, TakenItem
  <2>4. HandsApart'
    BY <2>2, <2>3, HandsSame
  <2>5. IndexLag'
    BY <2>2, <2>3, LagFrame
  <2>6. HeldApart'
    BY <2>1, <2>2, <2>3 DEF HeldApart
  <2> QED
    BY <2>3, <2>4, <2>5, <2>6
<1>3. CASE UpdatePriority(c)
  <2>1. PICK i \in heap, l \in 1 .. 100 :
          /\ heap' = (heap \ {i}) \cup {[i EXCEPT !.level = l]}
          /\ index' = Inserted({i.guid}, l)
    BY <1>3, LevelAssumption DEF UpdatePriority
  <2>2. UNCHANGED <<cpc, cItems, removed, returned, issued, workers, taken,
                    byCaller>>
    BY <1>3 DEF UpdatePriority
  <2>3. GuidsOf(heap') = GuidsOf(heap) /\ OneEach(heap')
    BY <2>1, HeapChanged
  <2>4. DOMAIN index \subseteq DOMAIN index'
    BY <2>1 DEF Inserted
  <2>5. HandsApart'
    BY <2>2, <2>3, HandsSame
  <2>6. IndexLag'
    BY <2>2, <2>3, <2>4, LagFrame
  <2> QED
    BY <2>2, <2>3, <2>5, <2>6 DEF PlacesApart, HeldApart
<1>4. CASE RemoveFind(c)
  <2>1. PICK i \in heap :
          /\ heap' = heap \ {i} /\ cItems' = [cItems EXCEPT ![c] = <<i>>]
          /\ removed' = removed \cup {i.guid}
    BY <1>4 DEF RemoveFind
  <2>2. UNCHANGED <<index, returned, issued, workers, taken, byCaller>>
    BY <1>4 DEF RemoveFind
  <2>3. /\ i.guid \in GuidsOf(heap) /\ OneEach(heap')
        /\ GuidsOf(heap') = GuidsOf(heap) \ {i.guid}
    BY <2>1, HeapLess
  <2>4. Pushing(c)' = {} /\ Unheaped(c)' = {} /\ Removing(c)' = {i.guid}
    BY <1>4, <2>1, HandsOf DEF Unheaped
  <2>5. i.guid \notin removed /\ i.guid \notin Range(taken)
    BY <2>3 DEF PlacesApart
  <2>6. PlacesApart'
    BY <2>1, <2>2, <2>3, <2>5 DEF PlacesApart
  <2>7. \A d \in Callers :
          Removing(d) \subseteq removed /\ Pushing(d) \cap returned = {}
            /\ Unheaped(d) \cap (GuidsOf(heap) \cup Range(taken) \cup removed) = {}
    BY DEF HandsApart
  <2>8. GuidsOf(heap') \cup Range(taken') \cup removed' =
          GuidsOf(heap) \cup Range(taken) \cup removed
    BY <2>1, <2>2, <2>3
  <2>9. cpc'[c] # "pushSend"
    BY <1>4 DEF RemoveFind, Goto, TypeInv, TypeOK, TypeThreads
  <2>10. /\ Removing(c)' \subseteq removed' /\ removed \subseteq removed'
         /\ \A d \in Callers : Removing(c)' \cap Removing(d) = {}
    BY <2>1, <2>4, <2>5, <2>7
  <2>11. HandsApart'
    BY <2>2, <2>4, <2>7, <2>8, <2>9, <2>10, HandsFrame
  <2>12. \A d \in Callers : cpc[d] = "pushIndex" =>
           cpc'[d] = "pushIndex" /\ cItems'[d] = cItems[d]
    BY <1>0, OthersKeep
  <2>13. IndexLag'
    BY <2>2, <2>3, <2>12, LagFrame
  <2> QED
    BY <2>2, <2>6, <2>11, <2>13 DEF HeldApart
<1>5. CASE PeekNext(c) \/ FlushBegin(c) \/ Close(c) \/ Start(c)
  <2>1. UNCHANGED <<heap, index, taken, byCaller, removed, returned, issued,
                    cItems, wGuid>>
    BY <1>5 DEF PeekNext, FlushBegin, Close, Start
  <2>2. \A d \in Callers : cpc'[d] = cpc[d] \/ (d = c /\ cpc'[d] = "flush")
    BY <1>5 DEF PeekNext, FlushBegin, Close, Start, Goto, TypeInv, TypeOK, TypeThreads
  <2>3. \A w \in Workers : wpc'[w] = "call" <=> wpc[w] = "call"
    BY <1>5 DEF PeekNext, FlushBegin, Close, Start, TypeInv, TypeOK, TypeThreads
  <2>4. HandsApart'
    BY <1>0, <2>1, <2>2, HandsSame
  <2>5. IndexLag'
    BY <1>0, <2>1, <2>2, LagFrame
  <2> QED
    BY <2>1, <2>3, <2>4, <2>5 DEF PlacesApart, HeldApart
<1> QED
  BY <1>1, <1>2, <1>3, <1>4, <1>5 DEF CallBegins

LEMMA PlacesContinue ==
  ASSUME PlaceInv, NEW c \in Callers, CallContinues(c)
  PROVE  PlacesApart' /\ HandsApart' /\ HeldApart' /\ IndexLag'
<1> USE DEF PlaceInv
<1>0. issued \in Nat /\ \A d \in Callers : Pushing(d) \subseteq 1 .. issued
  BY DEF TypeInv, TypeOK, TypeMemory, HandsApart
<1>1. CASE PushSend(c)
  <2> DEFINE new == Item(issued + 1, cLevel[c], cTime[c] + Len(cItems[c]))
  <2>1. UNCHANGED <<heap, index, taken, byCaller, removed, returned, cpc,
                    workers>>
        /\ issued' = issued + 1 /\ cpc[c] = "pushSend"
    BY <1>1 DEF PushSend
  <2>2. /\ Pushing(c)' = Pushing(c) \cup {issued + 1}
        /\ Unheaped(c)' = Pushing(c)' /\ Unheaped(c) = Pushing(c)
        /\ Removing(c)' = {}
        /\ Range(cItems'[c]) = Range(cItems[c]) \cup {new}
    BY <1>1, HandsOf
  <2>3. new.guid = issued + 1
    BY DEF Item
  <2> HIDE DEF new
  <2>4. issued + 1 \notin 1 .. issued /\ 1 .. issued' = (1 .. issued) \cup {issued + 1}
    BY <1>0, <2>1
  <2>5. issued + 1 \notin Pushing(c)
    BY <1>0, <2>4
  <2>6. \A i \in Range(cItems[c]) : i.guid \in Pushing(c)
    BY <2>1, GuidsOfSets DEF Pushing
  <2>7. OneEach(Range(cItems'[c]))
    <3>1. \A i \in Range(cItems[c]) : i.guid # new.guid
      BY <2>3, <2>5, <2>6
    <3>2. OneEach(Range(cItems[c]))
      BY <2>1 DEF HandsApart
    <3> QED
      BY <2>2, <3>1, <3>2 DEF OneEach
  <2>8. issued + 1 \notin GuidsOf(heap) \cup Range(taken) \cup removed \cup returned
    BY <2>4 DEF PlacesApart
  <2>9. \A d \in Callers : issued + 1 \notin Pushing(d)
    BY <1>0, <2>4
  <2>10. /\ Unheaped(c)' \cap (GuidsOf(heap') \cup Range(taken') \cup removed') = {}
         /\ Pushing(c)' \cap returned' = {} /\ Pushing(c)' \subseteq 1 .. issued'
         /\ 1 .. issued \subseteq 1 .. issued'
    BY <1>0, <2>1, <2>2, <2>4, <2>8 DEF HandsApart
  <2>11. \A d \in Callers \ {c} :
           /\ Pushing(c)' \cap Pushing(d) = {}
           /\ Unheaped(d) \cap
                (GuidsOf(heap') \cup Range(taken') \cup removed') = {}
           /\ Pushing(d) \cap returned' = {}
    BY <2>1, <2>2, <2>9 DEF HandsApart
  <2>12. HandsApart'
    BY <2>1, <2>2, <2>7, <2>10, <2>11, HandsFrame
  <2>13. \A d \in Callers : cpc[d] = "pushIndex" =>
           cpc'[d] = "pushIndex" /\ cItems'[d] = cItems[d]
    BY <2>1, OthersKeep
  <2>14. IndexLag'
    BY <2>1, <2>13, LagFrame
  <2>15. PlacesApart'
    BY <2>1, <2>4 DEF PlacesApart
  <2> QED
    BY <2>1, <2>12, <2>14, <2>15 DEF HeldApart
<1>2. CASE PushHeap(c)
  <2>1. UNCHANGED <<index, taken, byCaller, removed, returned, cItems, issued,
                    workers>>
        /\ heap' = heap \cup Range(cItems[c]) /\ cpc[c] = "pushSend"
    BY <1>2 DEF PushHeap
  <2>2. cpc'[c] = "pushIndex"
    BY <1>2 DEF PushHeap, Goto, TypeInv, TypeOK, TypeThreads
  <2>3. /\ Pushing(c)' = Pushing(c) /\ Removing(c)' = {} /\ Unheaped(c)' = {}
        /\ Pushing(c) = GuidsOf(Range(cItems[c])) /\ Unheaped(c) = Pushing(c)
    BY <1>2, <2>2, HandsOf DEF Unheaped
  <2>4. GuidsOf(heap') = GuidsOf(heap) \cup Pushing(c)
    BY <2>1, <2>3, GuidsOfSets
  <2>5. Pushing(c) \cap (GuidsOf(heap) \cup Range(taken) \cup removed) = {}
    BY <2>3 DEF HandsApart
  <2>6. OneEach(heap')
    <3>1. OneEach(heap) /\ OneEach(Range(cItems[c]))
      BY <2>1 DEF PlacesApart, HandsApart
    <3>2. \A i \in heap, j \in Range(cItems[c]) : i.guid # j.guid
      BY <2>3, <2>5, GuidsOfSets
    <3> QED
      BY <2>1, <3>1, <3>2 DEF OneEach
  <2>7. PlacesApart'
    BY <1>0, <2>1, <2>4, <2>5, <2>6 DEF PlacesApart
  <2>8. \A d \in Callers \ {c} :
          /\ Pushing(c)' \cap Pushing(d) = {}
          /\ Unheaped(d) \cap
               (GuidsOf(heap') \cup Range(taken') \cup removed') = {}
          /\ Pushing(d) \cap returned' = {}
    BY <2>1, <2>3, <2>4 DEF HandsApart, Unheaped
  <2>9. Pushing(c)' \cap returned' = {} /\ Pushing(c)' \subseteq 1 .. issued'
    BY <2>1, <2>3 DEF HandsApart
  <2>10. HandsApart'
    BY <2>1, <2>2, <2>3, <2>8, <2>9, HandsFrame
  <2>11. IndexLag'
    <3> SUFFICES ASSUME NEW g \in GuidsOf(heap'), g \notin DOMAIN index'
                 PROVE  \E d \in Callers : cpc'[d] = "pushIndex" /\ g \in Pushing(d)'
      BY DEF IndexLag
    <3>1. CASE g \in Pushing(c)
      BY <2>2, <2>3, <3>1
    <3>2. CASE g \notin Pushing(c)
      <4>1. PICK d \in Callers : cpc[d] = "pushIndex" /\ g \in Pushing(d)
        BY <2>1, <2>4, <3>2 DEF IndexLag
      <4>2. d # c
        BY <2>1, <4>1
      <4> QED
        BY <4>1, <4>2, OthersKeep
    <3> QED
      BY <3>1, <3>2
  <2> QED
    BY <2>1, <2>7, <2>10, <2>11 DEF HeldApart
<1>3. CASE PushIndex(c)
  <2>1. UNCHANGED <<heap, taken, byCaller, removed, returned, cItems, issued,
                    workers>>
        /\ cpc[c] = "pushIndex"
    BY <1>3 DEF PushIndex
  <2>2. cpc'[c] = "pushCount"
    BY <1>3 DEF PushIndex, Goto, TypeInv, TypeOK, TypeThreads
  <2>3. /\ Pushing(c)' = Pushing(c) /\ Removing(c)' = {} /\ Unheaped(c)' = {}
        /\ Pushing(c) = GuidsOf(Range(cItems[c]))
    BY <1>3, <2>2, HandsOf DEF Unheaped
  <2>4. DOMAIN index' = DOMAIN index \cup Pushing(c)
    BY <1>3, <2>3 DEF PushIndex, Inserted
  <2>5. HandsApart'
    BY <2>1, <2>2, <2>3, HandsFrame DEF HandsApart
  <2>6. IndexLag'
    <3> SUFFICES ASSUME NEW g \in GuidsOf(heap'), g \notin DOMAIN index'
                 PROVE  \E d \in Callers : cpc'[d] = "pushIndex" /\ g \in Pushing(d)'
      BY DEF IndexLag
    <3>1. PICK d \in Callers : cpc[d] = "pushIndex" /\ g \in Pushing(d)
      BY <2>1, <2>4 DEF IndexLag
    <3>2. d # c
      BY <2>4, <3>1
    <3> QED
      BY <3>1, <3>2, OthersKeep
  <2> QED
    BY <2>1, <2>5, <2>6 DEF PlacesApart, HeldApart
<1>4. CASE PushCount(c)
  <2>1. UNCHANGED <<heap, index, taken, byCaller, removed, issued, workers>>
        /\ returned' = returned \cup GuidsOf(Range(cItems[c]))
        /\ cpc[c] = "pushCount"
    BY <1>4 DEF PushCount
  <2>2. cpc'[c] = "idle"
    BY <1>4 DEF PushCount, Return, Goto, TypeInv, TypeOK, TypeThreads
  <2>3. /\ Pushing(c)' = {} /\ Removing(c)' = {} /\ Unheaped(c)' = {}
        /\ Pushing(c) = GuidsOf(Range(cItems[c]))
    BY <1>4, <2>1, HandsOf DEF Unheaped, Pushing
  <2>4. PlacesApart'
    BY <1>0, <2>1, <2>3 DEF PlacesApart
  <2>5. HandsApart'
    BY <2>1, <2>2, <2>3, HandsFrame DEF HandsApart
  <2>6. \A d \in Callers : cpc[d] = "pushIndex" =>
           cpc'[d] = "pushIndex" /\ cItems'[d] = cItems[d]
    BY <2>1, OthersKeep
  <2>7. IndexLag'
    BY <2>1, <2>6, LagFrame
  <2> QED
    BY <2>1, <2>4, <2>5, <2>7 DEF HeldApart
<1>5. CASE RemoveSend(c) \/ FlushSend(c)
  <2>1. UNCHANGED <<heap, taken, byCaller, removed, returned, issued, workers>>
        /\ cpc[c] \in {"removeSend", "flush"}
    BY <1>5 DEF RemoveSend, FlushSend
  <2>2. cpc'[c] = "idle"
    BY <1>5 DEF RemoveSend, FlushSend, Return, Goto, TypeInv, TypeOK, TypeThreads
  <2>3. Pushing(c)' = {} /\ Removing(c)' = {} /\ Unheaped(c)' = {}
    BY <1>5, HandsOf DEF Unheaped
  <2>4. \A g \in GuidsOf(heap') \cap DOMAIN index : g \in DOMAIN index'
    <3>1. CASE FlushSend(c)
      BY <3>1 DEF FlushSend
    <3>2. CASE RemoveSend(c)
      <4>1. cItems[c][1].guid \in Removing(c)
        BY <3>2, HeldItems DEF RemoveSend, Removing
      <4>2. cItems[c][1].guid \notin GuidsOf(heap)
        BY <4>1 DEF HandsApart, PlacesApart
      <4> QED
        BY <2>1, <3>2, <4>2 DEF RemoveSend, Unindexed
    <3> QED
      BY <1>5, <3>1, <3>2
  <2>5. HandsApart'
    BY <2>1, <2>2, <2>3, HandsFrame DEF HandsApart
  <2>6. \A d \in Callers : cpc[d] = "pushIndex" =>
           cpc'[d] = "pushIndex" /\ cItems'[d] = cItems[d]
    BY <2>1, OthersKeep
  <2>7. IndexLag'
    BY <2>1, <2>4, <2>6, LagFrame
  <2> QED
    BY <2>1, <2>5, <2>7 DEF PlacesApart, HeldApart
<1> QED
  BY <1>1, <1>2, <1>3, <1>4, <1>5 DEF CallContinues

LEMMA PlacesWorkerIo ==
  ASSUME PlaceInv, (\E w \in Workers : WorkerStep(w)) \/ IoApply \/ IoIdle
  PROVE  PlacesApart' /\ HandsApart' /\ HeldApart' /\ IndexLag'
<1> USE DEF PlaceInv
<1>0. UNCHANGED <<cpc, cItems, removed, returned, issued, byCaller>>
  BY DEF WorkerStep, WorkerNext, WorkerEmpty, WorkerCount, IoApply, IoIdle
<1>1. ASSUME NEW w \in Workers, NEW item \in Tops, WorkerNext(w), GetNext(item),
             wGuid' = [wGuid EXCEPT ![w] = item.guid], WorkerGoto(w, "call")
      PROVE  PlacesApart' /\ HandsApart' /\ HeldApart' /\ IndexLag'
  <2>1. /\ PlacesApart' /\ item.guid \in GuidsOf(heap) \ Range(taken)
        /\ GuidsOf(heap') = GuidsOf(heap) \ {item.guid}
        /\ Range(taken') = Range(taken) \cup {item.guid}
        /\ \A g \in GuidsOf(heap') \cap DOMAIN index : g \in DOMAIN index'
    BY <1>0, <1>1, TakenItem
  <2>2. HandsApart'
    BY <1>0, <2>1, HandsSame
  <2>3. IndexLag'
    BY <1>0, <2>1, LagFrame
  <2>4. \A v \in Workers : v # w => wpc'[v] = wpc[v] /\ wGuid'[v] = wGuid[v]
    BY <1>1 DEF WorkerGoto, TypeInv, TypeOK, TypeThreads
  <2>5. wGuid'[w] = item.guid
    BY <1>1 DEF TypeInv, TypeOK, TypeThreads
  <2>6. HeldApart'
    BY <1>0, <2>1, <2>4, <2>5 DEF HeldApart
  <2> QED
    BY <2>1, <2>2, <2>3, <2>6
<1>2. ASSUME UNCHANGED <<heap, index, taken>>,
             \A w \in Workers : wpc'[w] = "call" =>
               wpc[w] = "call" /\ wGuid'[w] = wGuid[w]
      PROVE  PlacesApart' /\ HandsApart' /\ HeldApart' /\ IndexLag'
  <2>1. HandsApart'
    BY <1>0, <1>2, HandsSame
  <2>2. IndexLag'
    BY <1>0, <1>2, LagFrame
  <2> QED
    BY <1>0, <1>2, <2>1, <2>2 DEF PlacesApart, HeldApart
<1>3. CASE IoApply \/ IoIdle
  BY <1>2, <1>3 DEF IoApply, IoIdle
<1>4. ASSUME NEW w \in Workers, WorkerEmpty(w) \/ WorkerCount(w)
      PROVE  PlacesApart' /\ HandsApart' /\ HeldApart' /\ IndexLag'
  <2>1. \A v \in Workers : wpc'[v] = "call" =>
          wpc[v] = "call" /\ wGuid'[v] = wGuid[v]
    BY <1>4 DEF WorkerEmpty, WorkerCount, WorkerGoto, TypeInv, TypeOK,
                TypeThreads
  <2> QED
    BY <1>2, <1>4, <2>1 DEF WorkerEmpty, WorkerCount
<1>5. ASSUME NEW w \in Workers, WorkerNext(w), WorkerGoto(w, "empty"),
             UNCHANGED <<heap, index, taken, wGuid>>
      PROVE  PlacesApart' /\ HandsApart' /\ HeldApart' /\ IndexLag'
  BY <1>2, <1>5 DEF WorkerGoto, TypeInv, TypeOK, TypeThreads
<1> QED
  BY <1>1, <1>3, <1>4, <1>5 DEF WorkerStep, WorkerNext

LEMMA PlaceStep ==
  ASSUME PlaceInv, [Next]_vars
  PROVE  PlaceInv'
<1>1. TypeInv'
  BY TypeStep DEF PlaceInv
<1>2. ASSUME UNCHANGED vars
      PROVE  PlacesApart' /\ HandsApart' /\ HeldApart' /\ IndexLag'
  <2>1. \A c : Pushing(c)' = Pushing(c) /\ Unheaped(c)' = Unheaped(c)
                 /\ Removing(c)' = Removing(c)
    BY <1>2 DEF vars, Pushing, Unheaped, Removing
  <2> QED
    BY <1>2, <2>1
       DEF vars, PlaceInv, PlacesApart, HandsApart, HeldApart, IndexLag
<1>3. ASSUME Next PROVE PlacesApart' /\ HandsApart' /\ HeldApart' /\ IndexLag'
  BY <1>3, PlacesBegin, PlacesContinue, PlacesWorkerIo DEF Next
<1> QED
  BY <1>1, <1>2, <1>3 DEF PlaceInv

LEMMA PlaceInit ==
  Init => PlaceInv
<1> SUFFICES ASSUME Init PROVE PlaceInv
  OBVIOUS
<1>1. TypeInv
  BY InitType
<1>2. Range(<< >>) = {} /\ GuidsOf({}) = {}
  BY DEF Range, GuidsOf
<1>3. \A c \in Callers : Pushing(c) = {} /\ Unheaped(c) = {} /\ Removing(c) = {}
  BY DEF Init, Pushing, Unheaped, Removing
<1>4. PlacesApart
  BY <1>2 DEF Init, PlacesApart, OneEach
<1>5. HandsApart
  BY <1>3 DEF Init, HandsApart
<1> QED
  BY <1>1, <1>2, <1>4, <1>5 DEF Init, PlaceInv, HeldApart, IndexLag

(* get_priority finds every queued item that a push returned: an item gets *)
(* on the heap before it is indexed, but its push returns only afterwards, *)
(* and nothing takes the entry of a queued item away.                      *)
THEOREM IndexCoversQueued == Spec => []IndexCovers
<1>1. PlaceInv => IndexCovers
  <2> SUFFICES ASSUME PlaceInv, NEW i \in heap, i.guid \in returned
               PROVE  i.guid \in DOMAIN index
    BY DEF IndexCovers
  <2>1. i.guid \in GuidsOf(heap)
    BY GuidsOfSets
  <2>2. \A c \in Callers : i.guid \notin Pushing(c)
    BY DEF PlaceInv, HandsApart
  <2> QED
    BY <2>1, <2>2 DEF PlaceInv, IndexLag
<1>2. Spec => []PlaceInv
  BY PlaceInit, PlaceStep, PTL DEF Spec
<1> QED
  BY <1>1, <1>2, PTL

-----------------------------------------------------------------------------
(* The database behind the channel.                                        *)

(* WillHold of any contents and messages. *)
Holds(stored, s, g) ==
  \/ \E k \in DOMAIN s :
       /\ s[k] = Message("insert", g)
       /\ \A j \in DOMAIN s : j > k => s[j] # Message("delete", g)
  \/ g \in stored /\ \A j \in DOMAIN s : s[j] # Message("delete", g)

LEMMA HoldsAppend ==
  ASSUME NEW stored, NEW s \in Seq(Messages), NEW m \in Messages, NEW g \in Guids
  PROVE  Holds(stored, Append(s, m), g) <=>
           \/ m = Message("insert", g)
           \/ m # Message("delete", g) /\ Holds(stored, s, g)
<1> DEFINE t == Append(s, m)
<1>1. /\ Len(s) \in Nat /\ DOMAIN s = 1 .. Len(s)
      /\ DOMAIN t = 1 .. (Len(s) + 1) /\ t[Len(s) + 1] = m
      /\ \A k \in 1 .. Len(s) : t[k] = s[k]
  OBVIOUS
<1>2. Message("insert", g) # Message("delete", g)
  BY DEF Message
<1> HIDE DEF t
<1>3. ASSUME m = Message("insert", g) PROVE Holds(stored, t, g)
  <2>1. Len(s) + 1 \in DOMAIN t /\ \A j \in DOMAIN t : ~(j > Len(s) + 1)
    BY <1>1
  <2> QED
    BY <1>1, <1>3, <2>1 DEF Holds
<1>4. ASSUME m = Message("delete", g) PROVE ~Holds(stored, t, g)
  <2>1. Len(s) + 1 \in DOMAIN t
        /\ \A k \in DOMAIN t : k = Len(s) + 1 \/ Len(s) + 1 > k
    BY <1>1
  <2> QED
    BY <1>1, <1>2, <1>4, <2>1 DEF Holds
<1>5. ASSUME m # Message("delete", g), Holds(stored, s, g)
      PROVE  Holds(stored, t, g)
  <2>1. CASE \E k \in DOMAIN s :
               /\ s[k] = Message("insert", g)
               /\ \A j \in DOMAIN s : j > k => s[j] # Message("delete", g)
    <3>1. PICK k \in DOMAIN s :
            /\ s[k] = Message("insert", g)
            /\ \A j \in DOMAIN s : j > k => s[j] # Message("delete", g)
      BY <2>1
    <3>2. k \in DOMAIN t /\ t[k] = Message("insert", g)
      BY <1>1, <3>1
    <3>3. ASSUME NEW j \in DOMAIN t, j > k PROVE t[j] # Message("delete", g)
      BY <1>1, <1>5, <3>1, <3>3
    <3> QED
      BY <3>2, <3>3 DEF Holds
  <2>2. CASE g \in stored /\ \A j \in DOMAIN s : s[j] # Message("delete", g)
    <3>1. ASSUME NEW j \in DOMAIN t PROVE t[j] # Message("delete", g)
      BY <1>1, <1>5, <2>2
    <3> QED
      BY <2>2, <3>1 DEF Holds
  <2> QED
    BY <1>5, <2>1, <2>2 DEF Holds
<1>6. ASSUME m # Message("insert", g), Holds(stored, t, g)
      PROVE  Holds(stored, s, g)
  <2>1. CASE \E k \in DOMAIN t :
               /\ t[k] = Message("insert", g)
               /\ \A j \in DOMAIN t : j > k => t[j] # Message("delete", g)
    <3>1. PICK k \in DOMAIN t :
            /\ t[k] = Message("insert", g)
            /\ \A j \in DOMAIN t : j > k => t[j] # Message("delete", g)
      BY <2>1
    <3>2. k \in DOMAIN s /\ s[k] = Message("insert", g)
      BY <1>1, <1>6, <3>1
    <3>3. ASSUME NEW j \in DOMAIN s, j > k PROVE s[j] # Message("delete", g)
      BY <1>1, <3>1, <3>3
    <3> QED
      BY <3>2, <3>3 DEF Holds
  <2>2. CASE g \in stored /\ \A j \in DOMAIN t : t[j] # Message("delete", g)
    BY <1>1, <2>2 DEF Holds
  <2> QED
    BY <1>6, <2>1, <2>2 DEF Holds
<1> QED
  BY <1>3, <1>4, <1>5, <1>6 DEF t

(* Applying the first message changes nothing of what will be held. *)
LEMMA HoldsTail ==
  ASSUME NEW stored, NEW s \in Seq(Messages), s # << >>, NEW g \in Guids
  PROVE  Holds(Applied(stored, Head(s)), Tail(s), g) <=> Holds(stored, s, g)
<1> DEFINE t == Tail(s)
           kept == Applied(stored, Head(s))
<1>1. /\ Len(s) \in Nat \ {0} /\ DOMAIN s = 1 .. Len(s)
      /\ DOMAIN t = 1 .. (Len(s) - 1)
      /\ \A k \in 1 .. (Len(s) - 1) : t[k] = s[k + 1]
      /\ Head(s) = s[1] /\ s[1] \in Messages
  OBVIOUS
<1>2. /\ s[1] = Message("insert", g) => g \in kept
      /\ s[1] = Message("delete", g) => g \notin kept
      /\ s[1] # Message("insert", g) /\ s[1] # Message("delete", g) =>
           (g \in kept <=> g \in stored)
      /\ Message("insert", g) # Message("delete", g)
  BY <1>1 DEF Applied, Message, Messages
<1>3. \A k \in DOMAIN t : k + 1 \in DOMAIN s /\ s[k + 1] = t[k]
  BY <1>1
<1>4. \A k \in DOMAIN s : k = 1 \/ (k - 1 \in DOMAIN t /\ t[k - 1] = s[k])
  BY <1>1
<1>5. /\ \A k \in DOMAIN t, j \in DOMAIN s :
           j > k + 1 => j - 1 \in DOMAIN t /\ j - 1 > k
      /\ \A k \in DOMAIN s, j \in DOMAIN t : j > k - 1 => j + 1 > k
      /\ \A j \in DOMAIN t : j + 1 > 1
      /\ \A j \in DOMAIN s : j # 1 => j > 1
      /\ 1 \in DOMAIN s
  BY <1>1
<1> HIDE DEF t, kept
<1>6. ASSUME Holds(stored, s, g) PROVE Holds(kept, t, g)
  <2>1. ASSUME NEW k \in DOMAIN s, s[k] = Message("insert", g),
               \A j \in DOMAIN s : j > k => s[j] # Message("delete", g)
        PROVE  Holds(kept, t, g)
    <3>1. CASE k = 1
      <4>1. \A j \in DOMAIN t : t[j] # Message("delete", g)
        BY <1>3, <1>5, <2>1, <3>1
      <4> QED
        BY <1>2, <2>1, <3>1, <4>1 DEF Holds
    <3>2. CASE k # 1
      <4>1. k - 1 \in DOMAIN t /\ t[k - 1] = Message("insert", g)
        BY <1>4, <2>1, <3>2
      <4>2. \A j \in DOMAIN t : j > k - 1 => t[j] # Message("delete", g)
        BY <1>3, <1>5, <2>1
      <4> QED
        BY <4>1, <4>2 DEF Holds
    <3> QED
      BY <3>1, <3>2
  <2>2. ASSUME g \in stored, \A j \in DOMAIN s : s[j] # Message("delete", g)
        PROVE  Holds(kept, t, g)
    <3>1. g \in kept
      BY <1>2, <1>5, <2>2
    <3>2. \A j \in DOMAIN t : t[j] # Message("delete", g)
      BY <1>3, <2>2
    <3> QED
      BY <3>1, <3>2 DEF Holds
  <2> QED
    BY <1>6, <2>1, <2>2 DEF Holds
<1>7. ASSUME Holds(kept, t, g) PROVE Holds(stored, s, g)
  <2>1. ASSUME NEW k \in DOMAIN t, t[k] = Message("insert", g),
               \A j \in DOMAIN t : j > k => t[j] # Message("delete", g)
        PROVE  Holds(stored, s, g)
    <3>1. k + 1 \in DOMAIN s /\ s[k + 1] = Message("insert", g)
      BY <1>3, <2>1
    <3>2. ASSUME NEW j \in DOMAIN s, j > k + 1 PROVE s[j] # Message("delete", g)
      <4>1. j - 1 \in DOMAIN t /\ j - 1 > k /\ j # 1
        BY <1>1, <1>5, <3>2
      <4> QED
        BY <1>4, <2>1, <4>1
    <3> QED
      BY <3>1, <3>2 DEF Holds
  <2>2. ASSUME g \in kept, \A j \in DOMAIN t : t[j] # Message("delete", g)
        PROVE  Holds(stored, s, g)
    <3>1. \A j \in DOMAIN s : s[j] # Message("delete", g)
      BY <1>2, <1>4, <2>2
    <3>2. CASE s[1] = Message("insert", g)
      BY <1>5, <3>1, <3>2 DEF Holds
    <3>3. CASE s[1] # Message("insert", g)
      BY <1>2, <1>5, <2>2, <3>1, <3>3 DEF Holds
    <3> QED
      BY <3>2, <3>3
  <2> QED
    BY <1>7, <2>1, <2>2 DEF Holds
<1> QED
  BY <1>6, <1>7 DEF t, kept

LEMMA WillHoldIs ==
  /\ \A g : WillHold(g) <=> Holds(disk, channel, g)
  /\ \A g : WillHold(g)' <=> Holds(disk', channel', g)
BY DEF WillHold, Holds

LEMMA BeingRemovedIs ==
  /\ BeingRemoved = UNION {Removing(c) : c \in Callers}
  /\ BeingRemoved' = UNION {Removing(c)' : c \in Callers}
BY DEF BeingRemoved, Removing

DiskInv == PlaceInv /\ DiskFollows

LEMMA DiskSend ==
  ASSUME DiskInv, NEW m \in Messages, Send(m), UNCHANGED disk,
         m.guid \in 0 .. issued', issued <= issued', issued' \in Nat,
         \A g \in 1 .. issued' :
           /\ m = Message("insert", g) => g \notin removed' \ BeingRemoved'
           /\ m = Message("delete", g) => g \in removed' \ BeingRemoved'
           /\ m # Message("insert", g) /\ m # Message("delete", g) =>
                /\ g \in removed' \ BeingRemoved' <=> g \in removed \ BeingRemoved
                /\ g \in 1 .. issued
  PROVE  DiskFollows'
<1> USE DEF DiskInv, PlaceInv
<1>1. channel \in Seq(Messages) /\ channel' = Append(channel, m)
      /\ issued \in Nat
  BY DEF TypeInv, TypeOK, TypeIo, TypeMemory, Send
<1>2. {x.guid : x \in Range(channel')} =
        {x.guid : x \in Range(channel)} \cup {m.guid}
  <2>1. Range(channel') = Range(channel) \cup {m}
    BY <1>1, AppendRange
  <2> QED
    BY <2>1
<1>3. disk' \cup {x.guid : x \in Range(channel')} \subseteq 0 .. issued'
  <2>1. disk \cup {x.guid : x \in Range(channel)} \subseteq 0 .. issued
    BY DEF DiskFollows
  <2>2. 0 .. issued \subseteq 0 .. issued'
    BY <1>1
  <2> QED
    BY <1>2, <2>1, <2>2
<1>4. ASSUME NEW g \in 1 .. issued'
      PROVE  WillHold(g)' <=> g \notin removed' \ BeingRemoved'
  <2>1. g \in Guids
    BY DEF Guids
  <2>2. WillHold(g)' <=> \/ m = Message("insert", g)
                         \/ m # Message("delete", g) /\ WillHold(g)
    BY <1>1, <2>1, WillHoldIs, HoldsAppend
  <2>3. Message("insert", g) # Message("delete", g)
    BY DEF Message
  <2>4. CASE m = Message("insert", g) \/ m = Message("delete", g)
    BY <2>2, <2>3, <2>4
  <2>5. CASE m # Message("insert", g) /\ m # Message("delete", g)
    <3>1. g \in 1 .. issued
      BY <2>5
    <3>2. WillHold(g) <=> g \notin removed \ BeingRemoved
      BY <3>1 DEF DiskFollows
    <3> QED
      BY <2>2, <2>5, <3>2
  <2> QED
    BY <2>4, <2>5
<1>5. {g \in 1 .. issued' : WillHold(g)'} =
        (1 .. issued') \ (removed' \ BeingRemoved')
  BY <1>4
<1> QED
  BY <1>3, <1>5 DEF DiskFollows

LEMMA DiskStep ==
  ASSUME DiskInv, [Next]_vars
  PROVE  DiskInv'
<1> USE DEF DiskInv, PlaceInv
<1>0. PlaceInv'
  BY PlaceStep
<1>1. /\ issued \in Nat /\ \A c \in Callers : Removing(c) \subseteq removed
      /\ removed \subseteq 1 .. issued
  BY DEF TypeInv, TypeOK, TypeMemory, HandsApart, PlacesApart
<1>2. ASSUME UNCHANGED <<disk, channel, issued>>,
             removed' \ BeingRemoved' = removed \ BeingRemoved
      PROVE  DiskFollows'
  <2>1. \A g : WillHold(g)' <=> WillHold(g)
    BY <1>2, WillHoldIs
  <2> QED
    BY <1>2, <2>1 DEF DiskFollows
<1>3. ASSUME UNCHANGED <<disk, channel, issued, removed>>,
             \A c \in Callers : Removing(c)' = Removing(c)
      PROVE  DiskFollows'
  <2>1. BeingRemoved' = BeingRemoved
    BY <1>3, BeingRemovedIs
  <2> QED
    BY <1>2, <1>3, <2>1
<1>4. ASSUME NEW c \in Callers, PushSend(c) PROVE DiskFollows'
  <2>1. /\ issued' = issued + 1 /\ UNCHANGED <<disk, removed>>
        /\ cpc[c] = "pushSend" /\ Send(Message("insert", issued + 1))
    BY <1>4 DEF PushSend
  <2>2. Removing(c) = {} /\ Removing(c)' = {}
    BY <1>4, <2>1, HandsOf DEF Removing
  <2>3. \A d \in Callers : Removing(d)' = Removing(d)
    BY <1>4, <2>2, OthersKeep DEF CallContinues
  <2>4. BeingRemoved' = BeingRemoved
    BY <2>3, BeingRemovedIs
  <2> DEFINE m == Message("insert", issued + 1)
  <2>5. /\ m \in Messages /\ m.guid = issued + 1
        /\ \A g : m = Message("insert", g) <=> g = issued + 1
        /\ \A g : m # Message("delete", g)
    BY <1>1 DEF Message, Messages, Guids
  <2> HIDE DEF m
  <2>6. \A g \in 1 .. issued' :
          /\ g = issued + 1 => g \notin removed
          /\ g # issued + 1 => g \in 1 .. issued
    BY <1>1, <2>1
  <2>7. Send(m)
    BY <2>1 DEF m
  <2>8. m.guid \in 0 .. issued' /\ issued <= issued' /\ issued' \in Nat
    BY <1>1, <2>1, <2>5
  <2> QED
    BY <2>1, <2>4, <2>5, <2>6, <2>7, <2>8, DiskSend
<1>5. ASSUME NEW c \in Callers, RemoveFind(c) PROVE DiskFollows'
  <2>1. PICK i \in heap :
          /\ cItems' = [cItems EXCEPT ![c] = <<i>>]
          /\ removed' = removed \cup {i.guid}
    BY <1>5 DEF RemoveFind
  <2>2. i.guid \notin removed
    BY GuidsOfSets DEF PlacesApart
  <2>3. Removing(c)' = {i.guid} /\ Removing(c) = {}
    BY <1>5, <2>1, HandsOf
  <2>4. \A d \in Callers \ {c} : Removing(d)' = Removing(d)
    BY <1>5, OthersKeep DEF CallBegins
  <2>5. BeingRemoved' = BeingRemoved \cup {i.guid}
    BY <2>3, <2>4, BeingRemovedIs
  <2> QED
    BY <1>2, <1>5, <2>1, <2>2, <2>5 DEF RemoveFind
<1>6. ASSUME NEW c \in Callers, RemoveSend(c) PROVE DiskFollows'
  <2> DEFINE g == cItems[c][1].guid
  <2>1. /\ UNCHANGED <<disk, removed, issued>> /\ Send(Message("delete", g))
        /\ g \in Guids /\ Removing(c) = {g}
    BY <1>6, HeldItems DEF RemoveSend, Removing
  <2>2. Removing(c)' = {}
    BY <1>6, HandsOf
  <2>3. \A d \in Callers \ {c} :
          Removing(d)' = Removing(d) /\ Removing(d) \cap Removing(c) = {}
    BY <1>6, OthersKeep DEF CallContinues, HandsApart
  <2>4. g \in removed
    BY <1>1, <2>1
  <2> DEFINE m == Message("delete", g)
  <2>5. /\ m \in Messages /\ m.guid = g
        /\ \A h : m = Message("delete", h) <=> h = g
        /\ \A h : m # Message("insert", h)
    BY <2>1 DEF Message, Messages
  <2>6. Send(m)
    BY <2>1
  <2> HIDE DEF g, m
  <2>7. BeingRemoved' = BeingRemoved \ {g}
    BY <2>1, <2>2, <2>3, BeingRemovedIs
  <2>8. m.guid \in 0 .. issued' /\ issued <= issued' /\ issued' \in Nat
    BY <1>1, <2>1, <2>4, <2>5
  <2> QED
    BY <2>1, <2>4, <2>5, <2>6, <2>7, <2>8, DiskSend
<1>7. ASSUME NEW c \in Callers, FlushSend(c) PROVE DiskFollows'
  <2> DEFINE m == Message("flush", 0)
  <2>1. UNCHANGED <<disk, removed, issued>> /\ Send(m) /\ cpc[c] = "flush"
    BY <1>7 DEF FlushSend
  <2>2. Removing(c) = {} /\ Removing(c)' = {}
    BY <1>7, <2>1, HandsOf DEF Removing
  <2>3. BeingRemoved' = BeingRemoved
    BY <1>7, <2>2, OthersKeep, BeingRemovedIs DEF CallContinues
  <2>4. /\ m \in Messages /\ m.guid = 0
        /\ \A h : m # Message("insert", h) /\ m # Message("delete", h)
    BY DEF Message, Messages
  <2> HIDE DEF m
  <2> QED
    BY <1>1, <2>1, <2>3, <2>4, DiskSend
<1>8. ASSUME IoApply PROVE DiskFollows'
  <2>1. /\ channel # << >> /\ channel' = Tail(channel)
        /\ disk' = Applied(disk, Head(channel))
        /\ UNCHANGED <<issued, removed, cpc, cItems>>
        /\ channel \in Seq(Messages)
    BY <1>8 DEF IoApply, TypeInv, TypeOK, TypeIo
  <2>2. \A g \in Guids : WillHold(g)' <=> WillHold(g)
    BY <2>1, WillHoldIs, HoldsTail
  <2>3. BeingRemoved' = BeingRemoved
    BY <2>1, BeingRemovedIs DEF Removing
  <2>4. Range(channel') \subseteq Range(channel) /\ Head(channel) \in Range(channel)
    <3>1. \A k \in DOMAIN Tail(channel) :
            k + 1 \in DOMAIN channel /\ Tail(channel)[k] = channel[k + 1]
      BY <2>1
    <3>2. 1 \in DOMAIN channel /\ Head(channel) = channel[1]
      BY <2>1
    <3> QED
      BY <2>1, <3>1, <3>2 DEF Range
  <2>5. disk' \subseteq disk \cup {Head(channel).guid}
    BY <2>1, SeqTypes DEF Applied, Messages, Message
  <2>6. disk' \cup {m.guid : m \in Range(channel')} \subseteq 0 .. issued'
    BY <2>1, <2>4, <2>5 DEF DiskFollows
  <2>7. {g \in 1 .. issued' : WillHold(g)'} = {g \in 1 .. issued : WillHold(g)}
    BY <2>1, <2>2 DEF Guids
  <2> QED
    BY <2>1, <2>3, <2>6, <2>7 DEF DiskFollows
<1>9. ASSUME NEW c \in Callers, CallBegins(c), ~RemoveFind(c)
      PROVE  DiskFollows'
  <2>1. UNCHANGED <<disk, channel, issued, removed>>
    BY <1>9 DEF CallBegins, PushBegin, CallerGetNext, PeekNext, UpdatePriority,
                FlushBegin, Close, Start
  <2>2. cpc[c] = "idle" /\ cpc'[c] # "removeSend"
    BY <1>9 DEF CallBegins, PushBegin, CallerGetNext, PeekNext, UpdatePriority,
                FlushBegin, Close, Start, CanCall, Goto, TypeInv, TypeOK,
                TypeThreads
  <2>3. \A d \in Callers : Removing(d)' = Removing(d)
    BY <1>9, <2>2, OthersKeep DEF Removing
  <2> QED
    BY <1>3, <2>1, <2>3
<1>10. ASSUME NEW c \in Callers, PushHeap(c) \/ PushIndex(c) \/ PushCount(c)
       PROVE  DiskFollows'
  <2>1. UNCHANGED <<disk, channel, issued, removed>>
        /\ cpc[c] \in {"pushSend", "pushIndex", "pushCount"}
    BY <1>10 DEF PushHeap, PushIndex, PushCount
  <2>2. Removing(c)' = {} /\ Removing(c) = {}
    BY <1>10, <2>1, HandsOf DEF Removing
  <2>3. \A d \in Callers : Removing(d)' = Removing(d)
    BY <1>10, <2>2, OthersKeep DEF CallContinues
  <2> QED
    BY <1>3, <2>1, <2>3
<1>11. ASSUME (\E w \in Workers : WorkerStep(w)) \/ IoIdle \/ UNCHANGED vars
       PROVE  DiskFollows'
  <2>1. UNCHANGED <<disk, channel, issued, removed, cpc, cItems>>
    BY <1>11 DEF WorkerStep, WorkerNext, WorkerEmpty, WorkerCount, IoIdle, vars
  <2>2. \A d \in Callers : Removing(d)' = Removing(d)
    BY <2>1 DEF Removing
  <2> QED
    BY <1>3, <2>1, <2>2
<1> QED
  BY <1>0, <1>4, <1>5, <1>6, <1>7, <1>8, <1>9, <1>10, <1>11
     DEF Next, CallContinues

LEMMA DiskInit ==
  Init => DiskInv
<1> SUFFICES ASSUME Init PROVE DiskInv
  OBVIOUS
<1>1. disk = {} /\ channel = << >> /\ issued = 0
  BY DEF Init
<1>2. DiskFollows
  BY <1>1 DEF DiskFollows, Range
<1> QED
  BY <1>2, PlaceInit DEF DiskInv

(* The database follows the queue: a removal's Delete never gets into the  *)
(* channel before the Insert it undoes, however callers' sends interleave, *)
(* so that what is stored once the channel is empty is what was pushed and *)
(* not removed.                                                            *)
THEOREM DatabaseFollows == Spec => []DiskFollows
<1>1. Spec => []DiskInv
  BY DiskInit, DiskStep, PTL DEF Spec
<1> QED
  BY <1>1, PTL DEF DiskInv

-----------------------------------------------------------------------------
(* The queue implements JobQueue.                                          *)

Waiting == GuidsOf(heap) \cup InHand
Running == Held \cup byCaller
Done == Range(taken) \ Running

JobStep == [Jobs!Next]_(Jobs!jobVars)

LEMMA SubmitStep ==
  ASSUME NEW i, Waiting' = Waiting \cup {i},
         i \notin Waiting \cup Running \cup Done \cup removed,
         UNCHANGED <<Running, Done, removed>>
  PROVE  JobStep
BY DEF JobStep, Jobs!Next, Jobs!Submit, Jobs!Known, Waiting, Running, Done

LEMMA BeginStep ==
  ASSUME NEW i \in Waiting, Waiting' = Waiting \ {i},
         Running' = Running \cup {i}, UNCHANGED <<Done, removed>>
  PROVE  JobStep
BY DEF JobStep, Jobs!Next, Jobs!Begin, Waiting, Running, Done

LEMMA FinishStep ==
  ASSUME NEW i \in Running, Running' = Running \ {i}, Done' = Done \cup {i},
         UNCHANGED <<Waiting, removed>>
  PROVE  JobStep
BY DEF JobStep, Jobs!Next, Jobs!Finish, Waiting, Running, Done

LEMMA DiscardStep ==
  ASSUME NEW i \in Waiting, Waiting' = Waiting \ {i},
         removed' = removed \cup {i}, UNCHANGED <<Running, Done>>
  PROVE  JobStep
BY DEF JobStep, Jobs!Next, Jobs!Discard, Waiting, Running, Done

LEMMA StutterStep ==
  ASSUME UNCHANGED <<Waiting, Running, Done, removed>>
  PROVE  JobStep
BY DEF JobStep, Jobs!jobVars, Waiting, Running, Done

LEMMA InHandIs ==
  /\ InHand = UNION {Unheaped(c) : c \in Callers}
  /\ InHand' = UNION {Unheaped(c)' : c \in Callers}
BY DEF InHand, Unheaped, Pushing

LEMMA HeldIs ==
  /\ \A g : g \in Held <=> \E w \in Workers : wpc[w] = "call" /\ wGuid[w] = g
  /\ \A g : g \in Held' <=> \E w \in Workers : wpc'[w] = "call" /\ wGuid'[w] = g
BY DEF Held

(* Nothing is waiting that was begun or removed, or that has no GUID yet.  *)
LEMMA WaitingApart ==
  ASSUME PlaceInv
  PROVE  /\ Waiting \cap (Range(taken) \cup removed) = {}
         /\ Running \subseteq Range(taken) /\ Held \cap byCaller = {}
         /\ InHand \cap GuidsOf(heap) = {}
         /\ Waiting \cup Running \cup Done \cup removed \subseteq 1 .. issued
<1> USE DEF PlaceInv
<1>1. ASSUME NEW g \in InHand
      PROVE  g \in 1 .. issued /\ g \notin GuidsOf(heap) \cup Range(taken) \cup removed
  <2>1. PICK c \in Callers : g \in Unheaped(c)
    BY InHandIs
  <2>2. Unheaped(c) \subseteq Pushing(c)
    BY DEF Unheaped
  <2> QED
    BY <2>1, <2>2 DEF HandsApart
<1>2. Held \subseteq Range(taken) \ byCaller
  BY HeldIs DEF HeldApart
<1>3. byCaller \subseteq Range(taken)
  BY DEF HeldApart
<1> QED
  BY <1>1, <1>2, <1>3 DEF Waiting, Running, Done, PlacesApart

(* An item get_next returns is begun by the caller or the worker it goes to.*)
LEMMA TakenJob ==
  ASSUME PlaceInv, NEW item \in Tops, GetNext(item),
         UNCHANGED <<issued, removed, returned, cpc, cItems>>,
         Running' = Running \cup {item.guid}
  PROVE  JobStep
<1>1. /\ item.guid \in GuidsOf(heap) \ Range(taken)
      /\ GuidsOf(heap') = GuidsOf(heap) \ {item.guid}
      /\ Range(taken') = Range(taken) \cup {item.guid}
  BY TakenItem
<1>2. InHand' = InHand
  BY DEF InHand
<1>3. item.guid \in Waiting /\ Waiting' = Waiting \ {item.guid}
  BY <1>1, <1>2, WaitingApart DEF Waiting
<1>4. Done' = Done
  BY <1>1 DEF Done
<1> QED
  BY <1>3, <1>4, BeginStep

LEMMA CallerJob ==
  ASSUME PlaceInv, NEW c \in Callers, CallBegins(c) \/ CallContinues(c)
  PROVE  JobStep
<1> USE DEF PlaceInv
<1>1. ASSUME ~CallerGetNext(c) PROVE Running' = Running /\ Done' = Done
  <2>1. UNCHANGED <<taken, byCaller, wGuid>>
    BY <1>1 DEF CallBegins, CallContinues, PushBegin, PeekNext, UpdatePriority,
                RemoveFind, FlushBegin, Close, Start, PushSend, PushHeap,
                PushIndex, PushCount, RemoveSend, FlushSend
  <2>2. \A w \in Workers : wpc'[w] = "call" <=> wpc[w] = "call"
    BY <1>1 DEF CallBegins, CallContinues, PushBegin, PeekNext, UpdatePriority,
                RemoveFind, FlushBegin, Close, Start, PushSend, PushHeap,
                PushIndex, PushCount, RemoveSend, FlushSend, TypeInv, TypeOK,
                TypeThreads
  <2>3. Held' = Held
    BY <2>1, <2>2, HeldIs
  <2> QED
    BY <2>1, <2>3 DEF Running, Done
<1>2. ASSUME GuidsOf(heap') = GuidsOf(heap), UNCHANGED removed,
             Unheaped(c)' = Unheaped(c), ~CallerGetNext(c)
      PROVE  JobStep
  <2>1. \A d \in Callers : Unheaped(d)' = Unheaped(d)
    BY <1>2, OthersKeep
  <2>2. Waiting' = Waiting
    BY <1>2, <2>1, InHandIs DEF Waiting
  <2> QED
    BY <1>1, <1>2, <2>2, StutterStep
<1>3. CASE CallerGetNext(c)
  <2>1. PICK item \in Tops : GetNext(item) /\ byCaller' = byCaller \cup {item.guid}
    BY <1>3 DEF CallerGetNext
  <2>2. UNCHANGED <<issued, removed, returned, cpc, cItems, wpc, wGuid>>
    BY <1>3 DEF CallerGetNext
  <2>3. Running' = Running \cup {item.guid}
    BY <2>1, <2>2 DEF Running, Held
  <2> QED
    BY <2>1, <2>2, <2>3, TakenJob
<1>4. CASE UpdatePriority(c)
  <2>1. PICK i \in heap, l \in 1 .. 100 :
          heap' = (heap \ {i}) \cup {[i EXCEPT !.level = l]}
    BY <1>4, LevelAssumption DEF UpdatePriority
  <2>2. UNCHANGED <<cpc, cItems, removed, taken>>
    BY <1>4 DEF UpdatePriority
  <2>3. Unheaped(c)' = Unheaped(c) /\ GuidsOf(heap') = GuidsOf(heap)
    BY <2>1, <2>2, HeapChanged DEF Unheaped, Pushing
  <2>4. taken \in Seq(Guids)
    BY DEF TypeInv, TypeOK, TypeHistory
  <2>5. \A item : Append(taken, item) # taken
    BY <2>4
  <2>6. ~CallerGetNext(c)
    BY <2>2, <2>5 DEF CallerGetNext, GetNext
  <2> QED
    BY <1>2, <2>2, <2>3, <2>6
<1>5. CASE RemoveFind(c)
  <2>1. PICK i \in heap :
          /\ heap' = heap \ {i} /\ cItems' = [cItems EXCEPT ![c] = <<i>>]
          /\ removed' = removed \cup {i.guid}
    BY <1>5 DEF RemoveFind
  <2>2. cpc[c] = "idle" /\ cpc'[c] = "removeSend"
    BY <1>5 DEF RemoveFind, CanCall, Goto, TypeInv, TypeOK, TypeThreads
  <2>3. ~CallerGetNext(c)
    BY <2>2 DEF CallerGetNext
  <2>4. Unheaped(c)' = {} /\ Unheaped(c) = {}
    BY <2>2 DEF Unheaped
  <2>5. InHand' = InHand
    BY <1>5, <2>4, OthersKeep, InHandIs
  <2>6. /\ i.guid \in GuidsOf(heap)
        /\ GuidsOf(heap') = GuidsOf(heap) \ {i.guid}
    BY <2>1, HeapLess
  <2>7. i.guid \in Waiting /\ Waiting' = Waiting \ {i.guid}
    BY <2>5, <2>6, WaitingApart DEF Waiting
  <2> QED
    BY <1>1, <2>1, <2>3, <2>7, DiscardStep
<1>6. CASE PushSend(c)
  <2>1. UNCHANGED <<heap, removed>> /\ cpc[c] = "pushSend" /\ issued \in Nat
    BY <1>6 DEF PushSend, TypeInv, TypeOK, TypeMemory
  <2>2. Unheaped(c)' = Unheaped(c) \cup {issued + 1}
    BY <1>6, HandsOf
  <2>3. InHand' = InHand \cup {issued + 1}
    BY <1>6, <2>2, OthersKeep, InHandIs
  <2>4. issued + 1 \notin Waiting \cup Running \cup Done \cup removed
    BY <2>1, WaitingApart
  <2>5. ~CallerGetNext(c)
    BY <2>1 DEF CallerGetNext, CanCall
  <2>6. Waiting' = Waiting \cup {issued + 1}
    BY <2>1, <2>3 DEF Waiting
  <2> QED
    BY <1>1, <2>1, <2>4, <2>5, <2>6, SubmitStep
<1>7. CASE PushHeap(c)
  <2>1. heap' = heap \cup Range(cItems[c]) /\ cpc[c] = "pushSend"
        /\ UNCHANGED removed
    BY <1>7 DEF PushHeap
  <2>2. cpc'[c] = "pushIndex"
    BY <1>7 DEF PushHeap, Goto, TypeInv, TypeOK, TypeThreads
  <2>3. Unheaped(c)' = {} /\ Unheaped(c) = GuidsOf(Range(cItems[c]))
    BY <1>7, <2>2, HandsOf DEF Unheaped
  <2>4. GuidsOf(heap') = GuidsOf(heap) \cup Unheaped(c)
    BY <2>1, <2>3, GuidsOfSets
  <2>5. InHand' \cup Unheaped(c) = InHand
    BY <1>7, <2>3, OthersKeep, InHandIs
  <2>6. Waiting' = Waiting
    BY <2>4, <2>5 DEF Waiting
  <2>7. ~CallerGetNext(c)
    BY <2>1 DEF CallerGetNext, CanCall
  <2> QED
    BY <1>1, <2>1, <2>6, <2>7, StutterStep
<1>8. CASE PushBegin(c) \/ PeekNext(c) \/ FlushBegin(c) \/ Close(c) \/ Start(c)
           \/ PushIndex(c) \/ PushCount(c) \/ RemoveSend(c) \/ FlushSend(c)
  <2>1. UNCHANGED <<heap, removed, taken>>
    BY <1>8 DEF PushBegin, PeekNext, FlushBegin, Close, Start, PushIndex, PushCount,
                RemoveSend, FlushSend
  <2>2. taken \in Seq(Guids)
    BY DEF TypeInv, TypeOK, TypeHistory
  <2>3. \A item : Append(taken, item) # taken
    BY <2>2
  <2>4. ~CallerGetNext(c)
    BY <2>1, <2>3 DEF CallerGetNext, GetNext
  <2>5. CASE PushBegin(c)
    <3>1. cpc[c] = "idle" /\ Pushing(c)' = {}
      BY <2>5, HandsOf DEF PushBegin, CanCall
    <3>2. Unheaped(c)' = Unheaped(c)
      BY <3>1 DEF Unheaped
    <3> QED
      BY <1>2, <2>1, <2>4, <3>2
  <2>6. CASE ~PushBegin(c)
    <3>1. cpc[c] # "pushSend" /\ cpc'[c] # "pushSend"
      BY <1>8, <2>6 DEF PeekNext, FlushBegin, Close, Start, PushIndex, PushCount,
           RemoveSend, FlushSend, CanCall, Return, Goto, TypeInv, TypeOK,
           TypeThreads
    <3>2. Unheaped(c)' = Unheaped(c)
      BY <3>1 DEF Unheaped
    <3> QED
      BY <1>2, <2>1, <2>4, <3>2
  <2> QED
    BY <2>5, <2>6
<1> QED
  BY <1>3, <1>4, <1>5, <1>6, <1>7, <1>8 DEF CallBegins, CallContinues

LEMMA WorkerIoJob ==
  ASSUME PlaceInv, (\E w \in Workers : WorkerStep(w)) \/ IoApply \/ IoIdle
  PROVE  JobStep
<1> USE DEF PlaceInv
<1>0. UNCHANGED <<cpc, cItems, removed, returned, issued, byCaller>>
  BY DEF WorkerStep, WorkerNext, WorkerEmpty, WorkerCount, IoApply, IoIdle
<1>1. ASSUME NEW w \in Workers, NEW item \in Tops, wpc[w] = "next", GetNext(item),
             wGuid' = [wGuid EXCEPT ![w] = item.guid], WorkerGoto(w, "call")
      PROVE  JobStep
  <2>1. /\ wpc'[w] = "call" /\ wGuid'[w] = item.guid
        /\ \A v \in Workers \ {w} : wpc'[v] = wpc[v] /\ wGuid'[v] = wGuid[v]
    BY <1>1 DEF WorkerGoto, TypeInv, TypeOK, TypeThreads
  <2>2. Held' = Held \cup {item.guid}
    BY <1>1, <2>1, HeldIs
  <2>3. Running' = Running \cup {item.guid}
    BY <1>0, <2>2 DEF Running
  <2> QED
    BY <1>0, <1>1, <2>3, TakenJob
<1>2. ASSUME NEW w \in Workers, WorkerCount(w) PROVE JobStep
  <2>1. /\ wpc[w] = "call" /\ wpc'[w] = "next" /\ UNCHANGED <<heap, taken>>
        /\ \A v \in Workers \ {w} : wpc'[v] = wpc[v] /\ wGuid'[v] = wGuid[v]
    BY <1>2 DEF WorkerCount, WorkerGoto, TypeInv, TypeOK, TypeThreads
  <2>2. wGuid[w] \in Range(taken) \ byCaller
    BY <2>1 DEF HeldApart
  <2>3. \A v \in Workers \ {w} : wpc[v] = "call" => wGuid[v] # wGuid[w]
    BY <2>1 DEF HeldApart
  <2>4. Held' = Held \ {wGuid[w]} /\ wGuid[w] \in Held
    BY <2>1, <2>3, HeldIs
  <2>5. wGuid[w] \in Running /\ Running' = Running \ {wGuid[w]}
    BY <1>0, <2>2, <2>4 DEF Running
  <2>6. Done' = Done \cup {wGuid[w]}
    BY <2>1, <2>2, <2>5 DEF Done
  <2>7. Waiting' = Waiting
    BY <1>0, <2>1 DEF Waiting, InHand
  <2> QED
    BY <1>0, <2>5, <2>6, <2>7, FinishStep
<1>3. ASSUME UNCHANGED <<heap, taken>>,
             \A v \in Workers :
               /\ wpc'[v] = "call" <=> wpc[v] = "call"
               /\ wGuid'[v] = wGuid[v]
      PROVE  JobStep
  <2>1. Held' = Held
    BY <1>3, HeldIs
  <2>2. Waiting' = Waiting /\ Running' = Running /\ Done' = Done
    BY <1>0, <1>3, <2>1 DEF Waiting, InHand, Running, Done
  <2> QED
    BY <1>0, <2>2, StutterStep
<1>4. CASE IoApply \/ IoIdle
  BY <1>3, <1>4 DEF IoApply, IoIdle
<1>5. ASSUME NEW w \in Workers, wpc[w] \in {"next", "empty"},
             UNCHANGED <<heap, taken, wGuid>>,
             \E place \in {"next", "empty", "exit"} : WorkerGoto(w, place)
      PROVE  JobStep
  <2>1. \A v \in Workers : wpc'[v] = "call" <=> wpc[v] = "call"
    BY <1>5 DEF WorkerGoto, TypeInv, TypeOK, TypeThreads
  <2> QED
    BY <1>3, <1>5, <2>1
<1>6. ASSUME NEW w \in Workers, WorkerEmpty(w) PROVE JobStep
  BY <1>5, <1>6 DEF WorkerEmpty
<1>7. ASSUME NEW w \in Workers, WorkerNext(w) PROVE JobStep
  BY <1>1, <1>5, <1>7 DEF WorkerNext
<1> QED
  BY <1>2, <1>4, <1>6, <1>7 DEF WorkerStep

(* The queue implements the promise of JobQueue, for any number of callers *)
(* and workers: an item is returned at most once, to one caller or worker, *)
(* and never after its removal.                                            *)
THEOREM Refines == Spec => ImplementsJobQueue
<1>1. Init => Jobs!Init
  <2> SUFFICES ASSUME Init PROVE Jobs!Init
    OBVIOUS
  <2>1. /\ heap = {} /\ taken = << >> /\ byCaller = {} /\ removed = {}
        /\ \A c \in Callers : cpc[c] = "idle"
        /\ \A w \in Workers : wpc[w] = "none"
    BY DEF Init
  <2>2. Held = {} /\ InHand = {} /\ GuidsOf(heap) = {} /\ Range(taken) = {}
    BY <2>1 DEF Held, InHand, GuidsOf, Range
  <2> QED
    BY <2>1, <2>2 DEF Jobs!Init
<1>2. PlaceInv /\ [Next]_vars => [Jobs!Next]_(Jobs!jobVars)
  <2> SUFFICES ASSUME PlaceInv, [Next]_vars PROVE JobStep
    BY DEF JobStep
  <2>1. CASE UNCHANGED vars
    <3>1. UNCHANGED <<Waiting, Running, Done, removed>>
      BY <2>1 DEF vars, Waiting, Running, Done, InHand, Held, GuidsOf
    <3> QED
      BY <3>1, StutterStep
  <2>2. CASE Next
    BY <2>2, CallerJob, WorkerIoJob DEF Next
  <2> QED
    BY <2>1, <2>2
<1> QED
  BY <1>1, <1>2, PlaceInit, PlaceStep, PTL DEF Spec, ImplementsJobQueue, Jobs!Spec
=============================================================================
