-------------------- MODULE PersistenceQueueOrderProofs --------------------
(***************************************************************************)
(* Safety of PersistenceQueue with one thread in its methods at a time,    *)
(* which is what the GIL grants: what a crash can lose, what an orderly    *)
(* end keeps, and which ids can be issued again.  Workers, the I/O thread  *)
(* and crashes interleave with that caller as they like.                   *)
(***************************************************************************)
EXTENDS PersistenceQueueProofs

USE DEF results, memory, flags, io, sled, workers, locals, process, ids,
        history

OneCaller == \A c, d \in Callers : c = d

-----------------------------------------------------------------------------
(* The way of an item to the database: from the caller that is about to    *)
(* send it, through the channel, to what the I/O thread has collected.     *)

SendPlaces == {"pushSend", "batchSend"}
SendOf(c) == IF cpc[c] \in SendPlaces THEN {cItem[c]} ELSE {}
ToSend == UNION {SendOf(c) : c \in Callers}
Unwritten == ToWrite \cup ToSend

LEMMA OneSends ==
  ASSUME OneCaller, NEW c \in Callers
  PROVE  ToSend = SendOf(c) /\ ToSend' = SendOf(c)'
<1>1. ToSend = SendOf(c)
  BY DEF OneCaller, ToSend
<1>2. ToSend' = SendOf(c)'
  BY DEF OneCaller, ToSend
<1> QED
  BY <1>1, <1>2

LEMMA ToSendAround ==
  ASSUME Types
  PROVE  ToSend \subseteq Around
<1>1. ASSUME NEW c \in Callers PROVE SendOf(c) \subseteq Around
  <2>1. SendOf(c) \subseteq HandOf(c)
    BY DEF SendOf, HandOf, SendPlaces, ItemPlaces
  <2> QED
    BY <2>1, AroundParts
<1> QED
  BY <1>1 DEF ToSend

(* What a step of the caller does to its item and the channel. *)
LEMMA CallerSend ==
  ASSUME OneCaller, Types, PhaseInv, NEW c \in Callers, CallerStep(c)
  PROVE  /\ UNCHANGED io /\ phase = "up"
         /\ \/ /\ Allocate(c) /\ ToSend = {} /\ ToSend' = {NewItem}
               /\ UNCHANGED channel
            \/ /\ SendInsert(c) /\ ToSend = {cItem[c]} /\ ToSend' = {}
               /\ channel' = Append(channel, Insert(cItem[c]))
            \/ /\ SendCounter(c) /\ ToSend = {} /\ ToSend' = {}
               /\ channel' = Append(channel, PersistCounter(cVal[c]))
            \/ /\ ~Allocate(c) /\ ToSend = {} /\ ToSend' = {}
               /\ UNCHANGED channel
<1>0. /\ cpc \in [Callers -> CallerPlaces] /\ cItem \in [Callers -> Items]
      /\ ToSend = SendOf(c) /\ ToSend' = SendOf(c)'
  BY OneSends DEF Types, TypeThreads
<1>1. UNCHANGED io /\ phase = "up"
  BY CallerSends
<1>2. CASE Allocate(c)
  <2>1. /\ cpc[c] \in {"pushAlloc", "batchAlloc"}
        /\ cpc[c] = "pushAlloc" => cpc'[c] = "pushSend"
        /\ cpc[c] = "batchAlloc" => cpc'[c] = "batchSend"
        /\ cItem'[c] = NewItem /\ UNCHANGED channel
    BY <1>0, <1>2 DEF Allocate, Goto, NewItem
  <2> QED
    BY <1>0, <1>1, <1>2, <2>1 DEF SendOf, SendPlaces
<1>3. CASE SendInsert(c)
  <2>1. /\ cpc[c] \in SendPlaces /\ cpc'[c] \notin SendPlaces
        /\ channel' = Append(channel, Insert(cItem[c]))
    BY <1>0, <1>3 DEF SendInsert, Goto, SendPlaces
  <2> QED
    BY <1>0, <1>1, <1>3, <2>1 DEF SendOf
<1>4. CASE SendCounter(c)
  <2>1. /\ cpc[c] \notin SendPlaces /\ cpc'[c] \notin SendPlaces
        /\ channel' = Append(channel, PersistCounter(cVal[c]))
    BY <1>0, <1>4 DEF SendCounter, Goto, SendPlaces
  <2> QED
    BY <1>0, <1>1, <1>4, <2>1 DEF SendOf
<1>5. CASE ~Allocate(c) /\ ~SendInsert(c) /\ ~SendCounter(c)
  <2>1. cpc[c] \notin SendPlaces
    BY <1>5
       DEF CallerStep, PushBegin, LoadCounter, Index, PushItem, RemoveUnindex,
           RemoveMark, ClearBegin, ClearPop, ClearDb, ClearReturn, GetBegin,
           GetPop, GetCount, GetEnd, GetLoad, GetSave, PendingBegin, PendingPop,
           PendingPush, Close, SetMode, Start, CanCall, SendPlaces
  <2>2. cpc'[c] \notin SendPlaces
    BY <1>0, <1>5, <2>1
       DEF CallerStep, PushBegin, LoadCounter, Index, PushItem, RemoveUnindex,
           RemoveMark, ClearBegin, ClearPop, ClearDb, ClearReturn, GetBegin,
           GetPop, GetCount, GetEnd, GetLoad, GetSave, PendingBegin, PendingPop,
           PendingPush, Close, SetMode, Start, Goto, Return, SendPlaces
  <2>3. UNCHANGED channel
    BY <1>5, CallerSends
  <2> QED
    BY <1>0, <1>1, <1>5, <2>1, <2>2, <2>3 DEF SendOf
<1> QED
  BY <1>2, <1>3, <1>4, <1>5

(* Only Allocate adds an item that is to be written, and only the I/O      *)
(* thread, by writing it, and the end of the process take one away.        *)
LEMMA UnwrittenStep ==
  ASSUME OneCaller, Types, PhaseInv, Next
  PROVE  /\ Unwritten' \subseteq
              Unwritten \cup (IF \E c \in Callers : Allocate(c) THEN {NewItem} ELSE {})
         /\ ~End => Unwritten \subseteq
                      Unwritten' \cup (IF IoWriteItem THEN {Head(pending)} ELSE {})
         /\ (\E c \in Callers : Allocate(c)) => NewItem \in Unwritten'
         /\ End => Unwritten' = {}
<1>0. channel \in Seq(Messages) /\ pending \in Seq(Items)
  BY DEF Types, TypeIo
<1>a. ASSUME \/ \E w \in Workers : WorkerStep(w)
             \/ IoStep \/ Drop \/ End \/ Open
      PROVE  ~\E c \in Callers : Allocate(c)
  <2>1. UNCHANGED jobs
    BY <1>a DEF WorkerStep, WorkerPop, WorkerEmpty, WorkerCheck, WorkerRun,
           WorkerPost, WorkerUnstore, IoStep, IoReceive, IoTimeout, IoWriteItem,
           IoWriteCounter, IoFlush, Drop, End, Open
  <2>2. \A c \in Callers : Allocate(c) => jobs' = jobs + 1 /\ counter' = counter + 1
    BY DEF Allocate
  <2>3. counter \in Nat
    BY DEF Types, TypeMemory
  <2>4. CASE Open
    <3>1. phase # "up"
      BY <2>4 DEF Open
    <3> QED
      BY <3>1, CallerSends DEF CallerStep
  <2>5. CASE ~Open
    <3>1. CASE End
      <4>1. phase' = "down" /\ phase # "down"
        BY <3>1 DEF End
      <4> QED
        BY <4>1 DEF Allocate
    <3>2. CASE ~End
      <4>1. UNCHANGED counter
        BY <1>a, <2>5, <3>2 DEF WorkerStep, WorkerPop, WorkerEmpty, WorkerCheck,
           WorkerRun, WorkerPost, WorkerUnstore, IoStep, IoReceive, IoTimeout,
           IoWriteItem, IoWriteCounter, IoFlush, Drop
      <4> QED
        BY <2>2, <2>3, <4>1
    <3> QED
      BY <3>1, <3>2
  <2> QED
    BY <2>4, <2>5
<1>9. End => Unwritten' = {}
  <2> SUFFICES ASSUME End PROVE Unwritten' = {}
    OBVIOUS
  <2>1. /\ pending' = << >> /\ channel' = << >>
        /\ \A c \in Callers : cpc'[c] = "idle"
    BY DEF End, FreshMemory
  <2>2. Range(<< >>) = {}
    BY DEF Range
  <2> QED
    BY <2>1, <2>2 DEF Unwritten, ToWrite, ToSend, SendOf, Inserts, SendPlaces
<1>1. ASSUME NEW c \in Callers, CallerStep(c)
      PROVE  /\ Unwritten' \subseteq
                  Unwritten \cup (IF Allocate(c) THEN {NewItem} ELSE {})
             /\ Unwritten \subseteq Unwritten'
             /\ Allocate(c) => NewItem \in Unwritten'
  <2>1. UNCHANGED pending
    BY <1>1, CallerSend
  <2>2. CASE Allocate(c) /\ ToSend = {} /\ ToSend' = {NewItem} /\ UNCHANGED channel
    BY <2>1, <2>2 DEF Unwritten, ToWrite
  <2>3. CASE /\ SendInsert(c) /\ ToSend = {cItem[c]} /\ ToSend' = {}
             /\ channel' = Append(channel, Insert(cItem[c]))
    <3>1. Insert(cItem[c]) \in Messages /\ Insert(cItem[c]).op = "insert"
          /\ Insert(cItem[c]).item = cItem[c]
      BY ItemTypes DEF Types, TypeThreads, Insert
    <3>2. Inserts(channel') = Inserts(channel) \cup {cItem[c]}
      BY <1>0, <2>3, <3>1, InsertsChange
    <3>3. ~Allocate(c)
      BY <2>3 DEF SendInsert, Allocate
    <3> QED
      BY <2>1, <2>3, <3>2, <3>3 DEF Unwritten, ToWrite
  <2>4. CASE /\ SendCounter(c) /\ ToSend = {} /\ ToSend' = {}
             /\ channel' = Append(channel, PersistCounter(cVal[c]))
    <3>1. PersistCounter(cVal[c]) \in Messages
          /\ PersistCounter(cVal[c]).op # "insert"
      BY ItemTypes DEF Types, TypeThreads, PersistCounter
    <3>2. Inserts(channel') = Inserts(channel)
      BY <1>0, <2>4, <3>1, InsertsChange
    <3>3. ~Allocate(c)
      BY <2>4 DEF SendCounter, Allocate
    <3> QED
      BY <2>1, <2>4, <3>2, <3>3 DEF Unwritten, ToWrite
  <2>5. CASE ~Allocate(c) /\ ToSend = {} /\ ToSend' = {} /\ UNCHANGED channel
    BY <2>1, <2>5 DEF Unwritten, ToWrite
  <2> QED
    BY <1>1, <2>2, <2>3, <2>4, <2>5, CallerSend
<1>2. ASSUME NEW w \in Workers, WorkerStep(w) PROVE Unwritten' = Unwritten
  BY <1>2, WorkerFlow DEF Unwritten, ToWrite, ToSend, SendOf
<1>3. CASE IoStep
  <2>1. ToSend' = ToSend
    <3>1. UNCHANGED <<cpc, locals>>
      BY <1>3, IoFlow
    <3> QED
      BY <3>1 DEF ToSend, SendOf
  <2>2. ToWrite' \subseteq ToWrite
    BY <1>3, IoFlow
  <2>3. ToWrite \subseteq ToWrite' \cup (IF IoWriteItem THEN {Head(pending)} ELSE {})
    <3>1. CASE IoReceive
      <4>1. channel # << >> /\ channel' = Tail(channel)
            /\ pending' = IF Head(channel).op = "insert"
                          THEN Append(pending, Head(channel).item) ELSE pending
        BY <3>1 DEF IoReceive
      <4>2. Range(channel) = Range(Tail(channel)) \cup {Head(channel)}
            /\ Head(channel).item \in Items
        BY <1>0, <4>1, TailPart, ItemTypes
      <4>3. Range(Append(pending, Head(channel).item)) =
              Range(pending) \cup {Head(channel).item}
        BY <1>0, <4>2, AppendRange
      <4>4. Inserts(channel) = Inserts(Tail(channel)) \cup
              (IF Head(channel).op = "insert" THEN {Head(channel).item} ELSE {})
        BY <4>2 DEF Inserts
      <4> QED
        BY <4>1, <4>3, <4>4 DEF ToWrite
    <3>2. CASE IoWriteItem
      <4>1. pending # << >> /\ pending' = Tail(pending) /\ UNCHANGED channel
        BY <3>2 DEF IoWriteItem
      <4>2. Range(pending) = Range(Tail(pending)) \cup {Head(pending)}
        BY <1>0, <4>1, TailPart
      <4> QED
        BY <3>2, <4>1, <4>2 DEF ToWrite
    <3>3. CASE IoTimeout \/ IoWriteCounter \/ IoFlush
      BY <3>3 DEF IoTimeout, IoWriteCounter, IoFlush, ToWrite
    <3> QED
      BY <1>3, <3>1, <3>2, <3>3 DEF IoStep
  <2> QED
    BY <1>3, <1>9, <1>a, <2>1, <2>2, <2>3 DEF Unwritten
<1>4. CASE Drop
  <2>1. UNCHANGED <<pending, cpc, locals>> /\ channel' = Append(channel, Shutdown)
    BY <1>4 DEF Drop
  <2>2. Shutdown \in Messages /\ Shutdown.op # "insert"
    BY ItemTypes DEF Shutdown
  <2>3. Inserts(channel') = Inserts(channel)
    BY <1>0, <2>1, <2>2, InsertsChange
  <2> QED
    BY <1>4, <1>9, <1>a, <2>1, <2>3 DEF Unwritten, ToWrite, ToSend, SendOf
<1>5. CASE End
  BY <1>5, <1>9, <1>a
<1>6. CASE Open
  <2>1. UNCHANGED <<pending, channel, cpc, locals>>
    BY <1>6 DEF Open
  <2> QED
    BY <1>6, <1>9, <1>a, <2>1 DEF Unwritten, ToWrite, ToSend, SendOf
<1>7. ASSUME NEW w \in Workers, WorkerStep(w) PROVE ~\E c \in Callers : Allocate(c)
  BY <1>7, <1>a
<1>8. ASSUME NEW c \in Callers, CallerStep(c)
      PROVE  (\E d \in Callers : Allocate(d)) <=> Allocate(c)
  BY DEF OneCaller
<1> QED
  BY <1>1, <1>2, <1>3, <1>4, <1>5, <1>6, <1>7, <1>8, <1>9 DEF Next

-----------------------------------------------------------------------------
(* The order of that way: items travel in the order of their jobs, and a   *)
(* counter value is sent before every item whose id it does not cover.     *)

Before(m, i) ==
  /\ m.op = "insert" => m.item.job < i.job
  /\ m.op = "counter" => m.val < FirstCounter + i.job

ChannelOrder ==
  \A k, l \in DOMAIN channel :
    k < l /\ channel[l].op = "insert" => Before(channel[k], channel[l].item)

SendOrder == \A i \in ToSend : \A m \in Range(channel) : Before(m, i)

InboxOrder ==
  \A i \in Inserts(channel) \cup ToSend :
    /\ counterVal < FirstCounter + i.job
    /\ \A p \in Range(pending) : p.job < i.job

PendingOrder ==
  \A k, l \in DOMAIN pending : k < l => pending[k].job < pending[l].job

OrderInv ==
  reissued = {} => ChannelOrder /\ SendOrder /\ InboxOrder /\ PendingOrder

(* What Allocate finds as long as no id was issued twice. *)
LEMMA AllocateFinds ==
  ASSUME SafeInv, NEW c \in Callers, Allocate(c), reissued' = {}
  PROVE  /\ phase = "up" /\ phase' = "up"
         /\ counter = FirstCounter + jobs /\ counter' = counter + 1
         /\ jobs' = jobs + 1 /\ reissued = {}
         /\ NewItem.job = jobs + 1 /\ NewItem.id = FirstCounter + jobs + 1
         /\ UNCHANGED <<db, recoverable, pending, counterVal, channel>>
<1>1. /\ reissued = {} /\ counter + 1 \notin issued
      /\ jobs' = jobs + 1 /\ counter' = counter + 1
      /\ UNCHANGED <<phase, db, recoverable, pending, counterVal, channel>>
  BY DEF Allocate
<1>2. phase = "up"
  BY CallerSends DEF CallerStep, SafeInv
<1>3. counter \in FirstCounter .. FirstCounter + jobs
      /\ FirstCounter \in Nat /\ jobs \in Nat
  BY <1>2, BoundAssumption DEF SafeInv, BaseInv, TypeHistory, CounterInv
<1>4. counter + 1 \notin FirstCounter + 1 .. FirstCounter + jobs
  BY <1>1 DEF SafeInv, IdInv
<1>5. counter = FirstCounter + jobs
  BY <1>3, <1>4
<1> QED
  BY <1>1, <1>2, <1>3, <1>5 DEF NewItem

(* Jobs of items are numbers up to the last push; so are counters. *)
LEMMA Bounds ==
  ASSUME SafeInv
  PROVE  /\ \A i \in Around : i.job \in 1 .. jobs
         /\ jobs \in Nat /\ FirstCounter \in Nat /\ counter \in Nat
         /\ counterVal \in Nat /\ counterVal <= counter
         /\ \A m \in Range(channel) : m.op = "counter" =>
              m.val \in Nat /\ m.val <= counter
<1>1. /\ \A i \in Around : i.job \in 1 .. jobs
      /\ jobs \in Nat /\ FirstCounter \in Nat /\ counter \in Nat
      /\ counterVal \in Nat
      /\ counterVal # 0 => counterVal \in FirstCounter .. counter
      /\ \A m \in Range(channel) :
           m.op = "counter" => m.val \in FirstCounter .. counter
  BY BoundAssumption DEF SafeInv, BaseInv, KnownInv, TypeHistory, Types,
     TypeMemory, TypeIo, CounterInv
<1> QED
  BY <1>1

LEMMA OrderIo ==
  ASSUME OneCaller, SafeInv, OrderInv, IoStep, reissued' = {}
  PROVE  ChannelOrder' /\ SendOrder' /\ InboxOrder' /\ PendingOrder'
<1>0. /\ channel \in Seq(Messages) /\ pending \in Seq(Items) /\ Types
      /\ reissued = {}
      /\ ChannelOrder /\ SendOrder /\ InboxOrder /\ PendingOrder
  <2>1. reissued' = reissued
    BY DEF IoStep, IoReceive, IoTimeout, IoWriteItem, IoWriteCounter, IoFlush
  <2> QED
    BY <2>1 DEF SafeInv, BaseInv, Types, TypeIo, OrderInv
<1>1. ToSend' = ToSend
  <2>1. UNCHANGED <<cpc, locals>>
    BY <1>0, IoFlow
  <2> QED
    BY <2>1 DEF ToSend, SendOf
<1>2. \A i \in Inserts(channel) \cup ToSend \cup Range(pending) :
        i.job \in 1 .. jobs /\ jobs \in Nat /\ FirstCounter \in Nat
  BY <1>0, Bounds, AroundParts, ToSendAround DEF ToWrite
<1>3. CASE IoReceive
  <2> DEFINE msg == Head(channel)
  <2>1. /\ channel # << >> /\ channel' = Tail(channel)
        /\ pending' = IF msg.op = "insert" THEN Append(pending, msg.item)
                                           ELSE pending
        /\ counterVal' = IF msg.op = "counter" THEN msg.val ELSE counterVal
    BY <1>3 DEF IoReceive
  <2>2. /\ Len(channel) \in Nat \ {0} /\ DOMAIN channel = 1 .. Len(channel)
        /\ DOMAIN Tail(channel) = 1 .. (Len(channel) - 1)
        /\ \A k \in 1 .. (Len(channel) - 1) : Tail(channel)[k] = channel[k + 1]
        /\ msg = channel[1] /\ msg \in Messages
    BY <1>0, <2>1, TailShape
  <2>3. Range(channel) = Range(Tail(channel)) \cup {msg} /\ msg.item \in Items
    BY <1>0, <2>1, <2>2, TailPart, ItemTypes
  <2> HIDE DEF msg
  <2>4. ChannelOrder'
    BY <1>0, <2>1, <2>2 DEF ChannelOrder
  <2>5. SendOrder'
    BY <1>0, <1>1, <2>1, <2>3 DEF SendOrder
  <2>6. \A i \in Inserts(Tail(channel)) \cup ToSend : Before(msg, i)
    <3>1. ASSUME NEW i \in Inserts(Tail(channel)) PROVE Before(msg, i)
      <4>1. PICK k \in 1 .. (Len(channel) - 1) :
              Tail(channel)[k].op = "insert" /\ Tail(channel)[k].item = i
        BY <2>2 DEF Inserts, Range
      <4>2. k + 1 \in DOMAIN channel /\ 1 \in DOMAIN channel /\ 1 < k + 1
            /\ channel[k + 1].op = "insert" /\ channel[k + 1].item = i
        BY <2>2, <4>1
      <4> QED
        BY <1>0, <2>2, <4>2 DEF ChannelOrder
    <3>2. ASSUME NEW i \in ToSend PROVE Before(msg, i)
      BY <1>0, <2>3 DEF SendOrder
    <3> QED
      BY <3>1, <3>2
  <2>7. InboxOrder'
    <3> SUFFICES ASSUME NEW i \in Inserts(Tail(channel)) \cup ToSend
                 PROVE  /\ counterVal' < FirstCounter + i.job
                        /\ \A p \in Range(pending') : p.job < i.job
      BY <1>1, <2>1 DEF InboxOrder
    <3>1. i \in Inserts(channel) \cup ToSend
      BY <2>3 DEF Inserts
    <3>2. Before(msg, i)
      BY <2>6
    <3>3. Range(Append(pending, msg.item)) = Range(pending) \cup {msg.item}
      BY <1>0, <2>3, AppendRange
    <3>4. counterVal < FirstCounter + i.job /\ \A p \in Range(pending) : p.job < i.job
      BY <1>0, <3>1 DEF InboxOrder
    <3> QED
      BY <2>1, <3>2, <3>3, <3>4 DEF Before
  <2>8. PendingOrder'
    <3>1. CASE msg.op = "insert"
      <4>1. msg.item \in Inserts(channel)
        BY <2>3, <3>1 DEF Inserts
      <4>2. \A p \in Range(pending) : p.job < msg.item.job
        BY <1>0, <4>1 DEF InboxOrder
      <4>3. pending' = Append(pending, msg.item)
        BY <2>1, <3>1
      <4>4. /\ Len(pending) \in Nat /\ DOMAIN pending = 1 .. Len(pending)
            /\ DOMAIN pending' = 1 .. (Len(pending) + 1)
            /\ \A k \in 1 .. Len(pending) : pending'[k] = pending[k]
            /\ pending'[Len(pending) + 1] = msg.item
        BY <1>0, <2>3, <4>3, AppendShape
      <4>5. \A k \in 1 .. Len(pending) : pending[k] \in Range(pending)
        BY <4>4 DEF Range
      <4> QED
        BY <1>0, <4>2, <4>4, <4>5 DEF PendingOrder
    <3>2. CASE msg.op # "insert"
      BY <1>0, <2>1, <3>2 DEF PendingOrder
    <3> QED
      BY <3>1, <3>2
  <2> QED
    BY <2>4, <2>5, <2>7, <2>8
<1>4. CASE IoWriteItem
  <2>1. pending # << >> /\ pending' = Tail(pending) /\ UNCHANGED <<channel, counterVal>>
    BY <1>4 DEF IoWriteItem
  <2>2. /\ Len(pending) \in Nat \ {0} /\ DOMAIN pending = 1 .. Len(pending)
        /\ DOMAIN Tail(pending) = 1 .. (Len(pending) - 1)
        /\ \A k \in 1 .. (Len(pending) - 1) : Tail(pending)[k] = pending[k + 1]
    BY <1>0, <2>1, TailShape
  <2>3. Range(pending) = Range(Tail(pending)) \cup {Head(pending)}
    BY <1>0, <2>1, TailPart
  <2>4. PendingOrder'
    BY <1>0, <2>1, <2>2 DEF PendingOrder
  <2>5. InboxOrder'
    BY <1>0, <1>1, <2>1, <2>3 DEF InboxOrder
  <2> QED
    BY <1>0, <1>1, <2>1, <2>4, <2>5 DEF ChannelOrder, SendOrder
<1>5. CASE IoWriteCounter
  <2>1. counterVal' = 0 /\ UNCHANGED <<channel, pending>>
    BY <1>5 DEF IoWriteCounter
  <2>2. \A i \in Inserts(channel) \cup ToSend : 0 < FirstCounter + i.job
    BY <1>2
  <2>3. InboxOrder'
    BY <1>0, <1>1, <2>1, <2>2 DEF InboxOrder
  <2> QED
    BY <1>0, <1>1, <2>1, <2>3 DEF ChannelOrder, SendOrder, PendingOrder
<1>6. CASE IoTimeout \/ IoFlush
  <2>1. UNCHANGED <<channel, pending, counterVal>>
    BY <1>6 DEF IoTimeout, IoFlush
  <2> QED
    BY <1>0, <1>1, <2>1 DEF ChannelOrder, SendOrder, PendingOrder, InboxOrder
<1> QED
  BY <1>3, <1>4, <1>5, <1>6 DEF IoStep

LEMMA OrderCaller ==
  ASSUME OneCaller, SafeInv, OrderInv, NEW c \in Callers, CallerStep(c),
         reissued' = {}, Next
  PROVE  ChannelOrder' /\ SendOrder' /\ InboxOrder' /\ PendingOrder'
<1>0. /\ channel \in Seq(Messages) /\ pending \in Seq(Items) /\ Types /\ PhaseInv
      /\ reissued = {} /\ cItem[c] \in Items /\ cVal[c] \in Nat
      /\ ChannelOrder /\ SendOrder /\ InboxOrder /\ PendingOrder
  BY IdsChange DEF SafeInv, BaseInv, Types, TypeIo, TypeThreads, OrderInv
<1>1. UNCHANGED <<pending, counterVal>>
  BY <1>0, CallerSend
<1>2. PendingOrder'
  BY <1>0, <1>1 DEF PendingOrder
<1>3. CASE Allocate(c) /\ ToSend = {} /\ ToSend' = {NewItem} /\ UNCHANGED channel
  <2>1. /\ counter = FirstCounter + jobs /\ NewItem.job = jobs + 1
        /\ jobs \in Nat /\ FirstCounter \in Nat
        /\ \A i \in Around : i.job \in 1 .. jobs
        /\ counterVal \in Nat /\ counterVal <= counter
        /\ \A m \in Range(channel) : m.op = "counter" => m.val \in Nat /\ m.val <= counter
    BY <1>3, AllocateFinds, Bounds
  <2>2. \A m \in Range(channel) : m.op = "insert" => m.item \in Around
    BY AroundParts DEF ToWrite, Inserts
  <2>3. SendOrder'
    BY <1>3, <2>1, <2>2 DEF SendOrder, Before
  <2>4. \A p \in Range(pending) : p.job < NewItem.job
    BY <2>1, AroundParts DEF ToWrite
  <2>5. counterVal < FirstCounter + NewItem.job
    BY <2>1
  <2>6. InboxOrder'
    BY <1>0, <1>1, <1>3, <2>4, <2>5 DEF InboxOrder
  <2> QED
    BY <1>0, <1>2, <1>3, <2>3, <2>6 DEF ChannelOrder
<1>4. CASE /\ SendInsert(c) /\ ToSend = {cItem[c]} /\ ToSend' = {}
           /\ channel' = Append(channel, Insert(cItem[c]))
  <2>1. Insert(cItem[c]) \in Messages /\ Insert(cItem[c]).op = "insert"
        /\ Insert(cItem[c]).item = cItem[c]
    BY <1>0, ItemTypes DEF Insert
  <2>2. /\ Len(channel) \in Nat /\ DOMAIN channel = 1 .. Len(channel)
        /\ DOMAIN channel' = 1 .. (Len(channel) + 1)
        /\ \A k \in 1 .. Len(channel) : channel'[k] = channel[k]
        /\ channel'[Len(channel) + 1] = Insert(cItem[c])
    BY <1>0, <1>4, <2>1, AppendShape
  <2>3. \A k \in 1 .. Len(channel) : Before(channel[k], cItem[c])
    BY <1>0, <1>4, <2>2 DEF SendOrder, Range
  <2>4. ChannelOrder'
    BY <1>0, <2>1, <2>2, <2>3 DEF ChannelOrder
  <2>5. Inserts(channel') = Inserts(channel) \cup {cItem[c]}
    BY <1>0, <1>4, <2>1, InsertsChange
  <2>6. InboxOrder'
    BY <1>0, <1>1, <1>4, <2>5 DEF InboxOrder
  <2> QED
    BY <1>2, <1>4, <2>4, <2>6 DEF SendOrder
<1>5. CASE /\ SendCounter(c) /\ ToSend = {} /\ ToSend' = {}
           /\ channel' = Append(channel, PersistCounter(cVal[c]))
  <2>1. PersistCounter(cVal[c]) \in Messages
        /\ PersistCounter(cVal[c]).op # "insert"
    BY <1>0, ItemTypes DEF PersistCounter
  <2>2. /\ Len(channel) \in Nat /\ DOMAIN channel = 1 .. Len(channel)
        /\ DOMAIN channel' = 1 .. (Len(channel) + 1)
        /\ \A k \in 1 .. Len(channel) : channel'[k] = channel[k]
        /\ channel'[Len(channel) + 1] = PersistCounter(cVal[c])
    BY <1>0, <1>5, <2>1, AppendShape
  <2>3. ChannelOrder'
    BY <1>0, <2>1, <2>2 DEF ChannelOrder
  <2>4. Inserts(channel') = Inserts(channel)
    BY <1>0, <1>5, <2>1, InsertsChange
  <2>5. InboxOrder'
    BY <1>0, <1>1, <1>5, <2>4 DEF InboxOrder
  <2> QED
    BY <1>2, <1>5, <2>3, <2>5 DEF SendOrder
<1>6. CASE ~Allocate(c) /\ ToSend = {} /\ ToSend' = {} /\ UNCHANGED channel
  BY <1>0, <1>1, <1>2, <1>6 DEF ChannelOrder, SendOrder, InboxOrder
<1> QED
  BY <1>0, <1>3, <1>4, <1>5, <1>6, CallerSend

LEMMA OrderStep ==
  ASSUME OneCaller, SafeInv, OrderInv, Next
  PROVE  OrderInv'
<1> SUFFICES ASSUME reissued' = {}
             PROVE  ChannelOrder' /\ SendOrder' /\ InboxOrder' /\ PendingOrder'
  BY DEF OrderInv
<1>0. /\ channel \in Seq(Messages) /\ pending \in Seq(Items) /\ Types /\ PhaseInv
      /\ ChannelOrder /\ SendOrder /\ InboxOrder /\ PendingOrder
  BY IdsChange DEF SafeInv, BaseInv, Types, TypeIo, OrderInv
<1>1. ASSUME NEW w \in Workers, WorkerStep(w)
      PROVE  ChannelOrder' /\ SendOrder' /\ InboxOrder' /\ PendingOrder'
  <2>1. UNCHANGED <<pending, counterVal, channel, cpc, cItem>>
    BY <1>0, <1>1, WorkerLeaves
  <2> QED
    BY <1>0, <2>1 DEF ChannelOrder, SendOrder, InboxOrder, PendingOrder, ToSend,
                      SendOf
<1>2. CASE Open
  <2>1. UNCHANGED <<pending, counterVal, channel, cpc, cItem>>
    BY <1>2 DEF Open
  <2> QED
    BY <1>0, <2>1 DEF ChannelOrder, SendOrder, InboxOrder, PendingOrder, ToSend,
                      SendOf
<1>3. CASE End
  <2>1. /\ pending' = << >> /\ channel' = << >>
        /\ \A c \in Callers : cpc'[c] = "idle"
    BY <1>3 DEF End, FreshMemory
  <2>2. Range(<< >>) = {} /\ DOMAIN << >> = {}
    BY DEF Range
  <2>3. ToSend' = {} /\ Inserts(channel') = {}
    BY <2>1, <2>2 DEF ToSend, SendOf, SendPlaces, Inserts
  <2> QED
    BY <2>1, <2>2, <2>3 DEF ChannelOrder, SendOrder, InboxOrder, PendingOrder
<1>4. CASE Drop
  <2>1. /\ UNCHANGED <<pending, counterVal, cpc, cItem>>
        /\ channel' = Append(channel, Shutdown)
        /\ \A c \in Callers : cpc[c] = "idle"
    BY <1>4 DEF Drop
  <2>2. Shutdown \in Messages /\ Shutdown.op # "insert"
    BY ItemTypes DEF Shutdown
  <2>3. /\ Len(channel) \in Nat /\ DOMAIN channel = 1 .. Len(channel)
        /\ DOMAIN channel' = 1 .. (Len(channel) + 1)
        /\ \A k \in 1 .. Len(channel) : channel'[k] = channel[k]
        /\ channel'[Len(channel) + 1] = Shutdown
    BY <1>0, <2>1, <2>2, AppendShape
  <2>4. ChannelOrder'
    BY <1>0, <2>2, <2>3 DEF ChannelOrder
  <2>5. ToSend = {} /\ ToSend' = {}
    BY <2>1 DEF ToSend, SendOf, SendPlaces
  <2>6. Inserts(channel') = Inserts(channel)
    BY <1>0, <2>1, <2>2, InsertsChange
  <2> QED
    BY <1>0, <2>1, <2>4, <2>5, <2>6 DEF SendOrder, InboxOrder, PendingOrder
<1> QED
  BY <1>1, <1>2, <1>3, <1>4, OrderCaller, OrderIo DEF Next

-----------------------------------------------------------------------------
(* What the database holds of the work that is due: jobs pushed, whether   *)
(* accepted by now or not, and not done with.                              *)

Due == (1 .. jobs) \ (finished \cup discarded)

(* The counter that the next id is issued from, in this life or the next.  *)
Base == IF phase = "down" THEN db.counter ELSE counter

(* Work that is due is on the disk or on its way, or it was lost, with the *)
(* counter, so that the next push gets an id that it had.                  *)
PlacedInv ==
  reissued = {} =>
    \A j \in Due : \/ j \in JobsOf(db.items) \/ j \in JobsOf(Unwritten)
                   \/ Base < FirstCounter + j

(* What is on its way is work of this life. *)
BehindInv ==
  reissued = {} => \A i \in Unwritten : FirstCounter + i.job <= Base

(* A version of the database has all due work that its counter covers, and *)
(* all that is older than any due work it has.                             *)
CoverInv ==
  reissued = {} =>
    \A d \in recoverable : \A j \in Due :
      FirstCounter + j <= d.counter => j \in JobsOf(d.items)
PrefixInv ==
  reissued = {} =>
    \A d \in recoverable : \A j, k \in Due :
      j < k /\ k \in JobsOf(d.items) => j \in JobsOf(d.items)

DurableInv ==
  SafeInv /\ OrderInv /\ PlacedInv /\ BehindInv /\ CoverInv /\ PrefixInv

LEMMA DueStep ==
  ASSUME SafeInv, Next
  PROVE  /\ Due' \subseteq
              Due \cup (IF \E c \in Callers : Allocate(c) THEN {jobs + 1} ELSE {})
         /\ Due \subseteq 1 .. jobs /\ jobs \in Nat /\ FirstCounter \in Nat
         /\ \A j \in Due : j \in Nat /\ j \notin finished \cup discarded
<1>1. jobs \in Nat /\ finished \subseteq finished' /\ discarded \subseteq discarded'
      /\ FirstCounter \in Nat
  BY DoneGrows, BoundAssumption DEF SafeInv, BaseInv, TypeHistory
<1>2. \/ jobs' = jobs
      \/ jobs' = jobs + 1 /\ \E c \in Callers : Allocate(c)
  BY IdsChange
<1>3. CASE jobs' = jobs
  BY <1>1, <1>3 DEF Due
<1>4. CASE jobs' = jobs + 1 /\ \E c \in Callers : Allocate(c)
  <2>1. 1 .. (jobs + 1) = (1 .. jobs) \cup {jobs + 1}
    BY <1>1
  <2> QED
    BY <1>1, <1>4, <2>1 DEF Due
<1> QED
  BY <1>1, <1>2, <1>3, <1>4 DEF Due

(* The base moves only when an id is issued and when the process ends. *)
LEMMA BaseChange ==
  ASSUME SafeInv, Next
  PROVE  /\ End => Base' = db'.counter
         /\ \A c \in Callers : Allocate(c) => Base = counter /\ Base' = counter + 1
         /\ ~End /\ ~(\E c \in Callers : Allocate(c)) => Base' = Base
<1>0. Types /\ PhaseInv
  BY DEF SafeInv, BaseInv
<1>1. ASSUME End PROVE Base' = db'.counter
  BY <1>1 DEF End, Base
<1>2. ASSUME NEW c \in Callers, CallerStep(c)
      PROVE  /\ Base = counter /\ Base' = counter'
             /\ Allocate(c) \/ counter' = counter
             /\ Allocate(c) => counter' = counter + 1
  <2>1. phase = "up" /\ phase' = phase
    BY <1>0, <1>2, CallerSends
  <2>2. /\ Allocate(c) \/ counter' = counter
        /\ Allocate(c) => counter' = counter + 1
    BY <1>2
       DEF CallerStep, PushBegin, Allocate, SendInsert, LoadCounter, SendCounter,
           Index, PushItem, RemoveUnindex, RemoveMark, ClearBegin, ClearPop,
           ClearDb, ClearReturn, GetBegin, GetPop, GetCount, GetEnd, GetLoad,
           GetSave, PendingBegin, PendingPop, PendingPush, Close, SetMode, Start
  <2> QED
    BY <2>1, <2>2 DEF Base
<1>3. ASSUME NEW w \in Workers, WorkerStep(w) PROVE Base' = Base
  BY <1>0, <1>3, WorkerLeaves DEF Base
<1>4. ASSUME IoStep PROVE Base' = Base
  <2>1. phase # "down"
    BY <1>0, <1>4 DEF PhaseInv, IoStep, IoReceive, IoTimeout, IoWriteItem,
                IoWriteCounter, IoFlush
  <2>2. UNCHANGED counter /\ phase' \in {phase, "dropped"}
    BY <1>4 DEF IoStep, IoReceive, IoTimeout, IoWriteItem, IoWriteCounter, IoFlush
  <2> QED
    BY <2>1, <2>2 DEF Base
<1>5. ASSUME Drop \/ Open PROVE Base' = Base
  BY <1>5 DEF Drop, Open, Base
<1>6. ASSUME NEW c \in Callers, Allocate(c)
      PROVE  Base = counter /\ Base' = counter + 1
  BY <1>2, <1>6 DEF CallerStep
<1> QED
  BY <1>1, <1>2, <1>3, <1>4, <1>5, <1>6 DEF Next

LEMMA BehindStep ==
  ASSUME OneCaller, DurableInv, Next
  PROVE  BehindInv'
<1> SUFFICES ASSUME reissued' = {}, NEW i \in Unwritten'
             PROVE  FirstCounter + i.job <= Base'
  BY DEF BehindInv
<1>0. /\ SafeInv /\ Types /\ PhaseInv /\ FirstCounter \in Nat /\ jobs \in Nat
      /\ \A k \in Unwritten : FirstCounter + k.job <= Base
  BY IdsChange, BoundAssumption
     DEF DurableInv, SafeInv, BaseInv, TypeHistory, BehindInv
<1>1. ASSUME NEW c \in Callers, Allocate(c)
      PROVE  FirstCounter + i.job <= Base'
  <2>1. /\ Base = FirstCounter + jobs /\ Base' = FirstCounter + jobs + 1
        /\ NewItem.job = jobs + 1
    BY <1>0, <1>1, AllocateFinds, BaseChange
  <2>2. i \in Unwritten \/ i = NewItem
    BY <1>0, UnwrittenStep
  <2>3. CASE i = NewItem
    BY <1>0, <2>1, <2>3
  <2>4. CASE i \in Unwritten
    <3>1. i.job \in Nat
      BY <1>0, <2>4, Bounds, AroundParts, ToSendAround DEF Unwritten
    <3> QED
      BY <1>0, <2>1, <2>4, <3>1
  <2> QED
    BY <2>2, <2>3, <2>4
<1>2. CASE End
  BY <1>0, <1>2, UnwrittenStep
<1>3. CASE ~End /\ ~\E c \in Callers : Allocate(c)
  BY <1>0, <1>3, UnwrittenStep, BaseChange
<1> QED
  BY <1>1, <1>2, <1>3

LEMMA PlacedStep ==
  ASSUME OneCaller, DurableInv, Next
  PROVE  PlacedInv'
<1> SUFFICES ASSUME reissued' = {}, NEW j \in Due'
             PROVE  \/ j \in JobsOf(db'.items) \/ j \in JobsOf(Unwritten')
                    \/ Base' < FirstCounter + j
  BY DEF PlacedInv, JobsOf
<1>0. /\ SafeInv /\ Types /\ PhaseInv /\ reissued = {}
      /\ FirstCounter \in Nat /\ jobs \in Nat
      /\ \A k \in Due : \/ k \in JobsOf(db.items) \/ k \in JobsOf(Unwritten)
                        \/ Base < FirstCounter + k
      /\ \A d \in recoverable : \A k \in Due :
           FirstCounter + k <= d.counter => k \in JobsOf(d.items)
  BY IdsChange, BoundAssumption
     DEF DurableInv, SafeInv, BaseInv, TypeHistory, PlacedInv, CoverInv
<1>1. ASSUME NEW c \in Callers, Allocate(c)
      PROVE  \/ j \in JobsOf(db'.items) \/ j \in JobsOf(Unwritten')
             \/ Base' < FirstCounter + j
  <2>1. /\ Base = FirstCounter + jobs /\ db' = db /\ NewItem.job = jobs + 1
        /\ jobs' = jobs + 1
    BY <1>0, <1>1, AllocateFinds, BaseChange
  <2>2. NewItem \in Unwritten' /\ Unwritten \subseteq Unwritten'
    <3>1. ~End /\ ~IoWriteItem
      BY <1>0, <2>1 DEF End, IoWriteItem
    <3> QED
      BY <1>0, <1>1, <3>1, UnwrittenStep
  <2>3. CASE j = jobs + 1
    BY <2>1, <2>2, <2>3 DEF JobsOf
  <2>4. CASE j \in Due
    <3>1. j \in 1 .. jobs
      BY <1>0, <2>4 DEF Due
    <3>2. ~(Base < FirstCounter + j)
      BY <1>0, <2>1, <3>1
    <3> QED
      BY <1>0, <2>1, <2>2, <2>4, <3>2 DEF JobsOf
  <2> QED
    BY <1>0, <2>3, <2>4, DueStep
<1>2. CASE ~\E c \in Callers : Allocate(c)
  <2>1. j \in Due /\ j \in 1 .. jobs /\ j \notin finished \cup discarded
    BY <1>0, <1>2, DueStep
  <2>2. CASE End
    <3>1. db' \in recoverable /\ Base' = db'.counter
      BY <1>0, <2>2, BaseChange DEF End
    <3>2. db'.counter \in Nat
      BY <3>1 DEF SafeInv, BaseInv, Types, TypeIo, Contents, DurableInv
    <3> QED
      BY <1>0, <2>1, <3>1, <3>2
  <2>3. CASE ~End
    <3>1. Base' = Base
      BY <1>0, <1>2, <2>3, BaseChange
    <3>2. CASE j \in JobsOf(db.items)
      <4>1. UNCHANGED db \/ Written(db')
        BY <1>0, <2>3, DbChange
      <4>2. Written(db') => j \in JobsOf(db'.items)
        BY <1>0, <2>1, <3>2, NewVersionKeeps
      <4> QED
        BY <3>2, <4>1, <4>2 DEF JobsOf
    <3>3. CASE j \in JobsOf(Unwritten)
      <4>1. PICK i \in Unwritten : i.job = j
        BY <3>3 DEF JobsOf
      <4>2. i \in Unwritten' \/ (IoWriteItem /\ i = Head(pending))
        BY <1>0, <2>3, UnwrittenStep
      <4>3. IoWriteItem => Head(pending) \in db'.items
        <5>1. ASSUME IoWriteItem
              PROVE  db'.items = Without(db.items, Head(pending).id) \cup {Head(pending)}
          BY <1>0, <5>1, StoredChange DEF IoWriteItem, Write
        <5> QED
          BY <5>1
      <4> QED
        BY <4>1, <4>2, <4>3 DEF JobsOf
    <3> QED
      BY <1>0, <2>1, <3>1, <3>2, <3>3
  <2> QED
    BY <2>2, <2>3
<1> QED
  BY <1>1, <1>2

LEMMA CoverStep ==
  ASSUME OneCaller, DurableInv, Next
  PROVE  CoverInv'
<1> SUFFICES ASSUME reissued' = {}, NEW d \in recoverable', NEW j \in Due',
                    FirstCounter + j <= d.counter
             PROVE  j \in JobsOf(d.items)
  BY DEF CoverInv, JobsOf
<1>0. /\ SafeInv /\ Types /\ PhaseInv /\ reissued = {} /\ db \in recoverable
      /\ FirstCounter \in Nat /\ jobs \in Nat
      /\ \A e \in recoverable : \A k \in Due :
           FirstCounter + k <= e.counter => k \in JobsOf(e.items)
  BY IdsChange, BoundAssumption
     DEF DurableInv, SafeInv, BaseInv, TypeHistory, CoverInv, Types, TypeIo
<1>1. CASE d \in recoverable
  <2>1. CASE j \in Due
    BY <1>0, <1>1, <2>1
  <2>2. CASE j = jobs + 1
    <3>1. d.counter \in FirstCounter .. FirstCounter + jobs
      BY <1>0, <1>1 DEF SafeInv, CounterInv
    <3> QED
      BY <1>0, <2>2, <3>1
  <2> QED
    BY <1>0, <2>1, <2>2, DueStep
<1>2. CASE d \notin recoverable
  <2>1. d = db' /\ Written(d)
    BY <1>0, <1>2, NewVersion
  <2>2. ~\E c \in Callers : Allocate(c)
    BY <1>2 DEF Allocate
  <2>3. j \in Due /\ j \in 1 .. jobs /\ j \notin finished \cup discarded
    BY <1>0, <2>2, DueStep
  <2>4. ASSUME j \in JobsOf(db.items) PROVE j \in JobsOf(d.items)
    BY <1>0, <2>1, <2>3, <2>4, NewVersionKeeps
  <2>5. CASE d.counter = db.counter
    BY <1>0, <2>3, <2>4, <2>5
  <2>6. CASE IoWriteCounter /\ d.counter = counterVal
    <3>1. ioPc = "write" /\ pending = << >>
      BY <2>6 DEF IoWriteCounter
    <3>2. Base = counter
      BY <1>0, <3>1 DEF PhaseInv, Base
    <3>3. counterVal <= counter /\ counter \in Nat /\ counterVal \in Nat
      BY <1>0, Bounds
    <3>4. ~(Base < FirstCounter + j)
      BY <1>0, <2>3, <2>6, <3>2, <3>3
    <3>5. j \notin JobsOf(Unwritten)
      <4> SUFFICES ASSUME NEW i \in Unwritten, i.job = j PROVE FALSE
        BY DEF JobsOf
      <4>1. Range(pending) = {}
        BY <3>1 DEF Range
      <4>2. i \in Inserts(channel) \cup ToSend
        BY <4>1 DEF Unwritten, ToWrite
      <4>3. counterVal < FirstCounter + i.job
        BY <1>0, <4>2 DEF DurableInv, OrderInv, InboxOrder
      <4> QED
        BY <1>0, <2>3, <2>6, <3>3, <4>3
    <3>6. j \in JobsOf(db.items)
      BY <1>0, <2>3, <3>4, <3>5 DEF DurableInv, PlacedInv
    <3> QED
      BY <2>4, <3>6
  <2> QED
    BY <2>1, <2>5, <2>6 DEF Written
<1> QED
  BY <1>1, <1>2

LEMMA PrefixStep ==
  ASSUME OneCaller, DurableInv, Next
  PROVE  PrefixInv'
<1> SUFFICES ASSUME reissued' = {}, NEW d \in recoverable', NEW j \in Due',
                    NEW k \in Due', j < k, k \in JobsOf(d.items)
             PROVE  j \in JobsOf(d.items)
  BY DEF PrefixInv, JobsOf
<1>0. /\ SafeInv /\ Types /\ PhaseInv /\ reissued = {} /\ db \in recoverable
      /\ FirstCounter \in Nat /\ jobs \in Nat
      /\ \A e \in recoverable : \A m, n \in Due :
           m < n /\ n \in JobsOf(e.items) => m \in JobsOf(e.items)
  BY IdsChange, BoundAssumption
     DEF DurableInv, SafeInv, BaseInv, TypeHistory, PrefixInv, Types, TypeIo
<1>1. CASE d \in recoverable
  <2>1. k \in 1 .. jobs
    <3>1. PICK i \in d.items : i.job = k
      BY DEF JobsOf
    <3>2. i \in Around
      BY <1>1, <3>1, AroundParts DEF Stored
    <3> QED
      BY <1>0, <3>1, <3>2, Bounds
  <2>2. k \in Due /\ j \in Due
    <3>1. /\ k \in Due \/ k = jobs + 1
          /\ j \in Due \/ j = jobs + 1
      BY <1>0, DueStep
    <3> QED
      BY <1>0, <2>1, <3>1
  <2> QED
    BY <1>0, <1>1, <2>2
<1>2. CASE d \notin recoverable
  <2>1. d = db' /\ Written(d)
    BY <1>0, <1>2, NewVersion
  <2>2. ~\E c \in Callers : Allocate(c)
    BY <1>2 DEF Allocate
  <2>3. /\ j \in Due /\ j \in 1 .. jobs /\ j \notin finished \cup discarded
        /\ k \in Due /\ k \in 1 .. jobs
    BY <1>0, <2>2, DueStep
  <2>4. ASSUME j \in JobsOf(db.items) PROVE j \in JobsOf(d.items)
    BY <1>0, <2>1, <2>3, <2>4, NewVersionKeeps
  <2>5. CASE k \in JobsOf(db.items)
    BY <1>0, <2>3, <2>4, <2>5
  <2>6. CASE k \notin JobsOf(db.items)
    <3>1. /\ IoWriteItem
          /\ d.items = Without(db.items, Head(pending).id) \cup {Head(pending)}
      BY <2>1, <2>6 DEF Written, Without, JobsOf
    <3>2. k = Head(pending).job
      BY <2>6, <3>1 DEF Without, JobsOf
    <3>3. pending # << >> /\ pending \in Seq(Items)
      BY <1>0, <3>1 DEF IoWriteItem, Types, TypeIo
    <3>4. Head(pending) \in Range(pending) /\ Head(pending) \in Unwritten
      BY <3>3, TailPart DEF Unwritten, ToWrite
    <3>5. ~(Base < FirstCounter + j)
      <4>1. FirstCounter + k <= Base
        BY <1>0, <3>2, <3>4 DEF DurableInv, BehindInv
      <4>2. Base \in Nat
        BY <1>0 DEF Base, Types, TypeMemory, TypeIo, Contents
      <4> QED
        BY <1>0, <2>3, <4>1, <4>2
    <3>6. j \notin JobsOf(Unwritten)
      <4> SUFFICES ASSUME NEW i \in Unwritten, i.job = j PROVE FALSE
        BY DEF JobsOf
      <4>1. CASE i \in Inserts(channel) \cup ToSend
        <5>1. Head(pending).job < i.job
          BY <1>0, <3>4, <4>1 DEF DurableInv, OrderInv, InboxOrder
        <5> QED
          BY <2>3, <3>2, <5>1
      <4>2. CASE i \in Range(pending)
        <5>1. /\ Len(pending) \in Nat \ {0} /\ DOMAIN pending = 1 .. Len(pending)
              /\ Head(pending) = pending[1]
          BY <3>3, TailShape
        <5>2. PICK n \in 1 .. Len(pending) : i = pending[n]
          BY <4>2, <5>1 DEF Range
        <5>3. n = 1 \/ pending[1].job < pending[n].job
          BY <1>0, <5>1, <5>2 DEF DurableInv, OrderInv, PendingOrder
        <5> QED
          BY <2>3, <3>2, <5>1, <5>2, <5>3
      <4> QED
        BY <4>1, <4>2 DEF Unwritten, ToWrite
    <3>7. j \in JobsOf(db.items)
      BY <1>0, <2>3, <3>5, <3>6 DEF DurableInv, PlacedInv
    <3> QED
      BY <2>4, <3>7
  <2> QED
    BY <2>5, <2>6
<1> QED
  BY <1>1, <1>2

LEMMA DurableInit ==
  Init => DurableInv
<1> SUFFICES ASSUME Init PROVE DurableInv
  OBVIOUS
<1>1. SafeInv /\ jobs = 0 /\ pending = << >> /\ channel = << >>
      /\ recoverable = {db} /\ db.items = {}
  BY SafeInit DEF Init
<1>2. Range(<< >>) = {} /\ DOMAIN << >> = {}
  BY DEF Range
<1>3. ToSend = {}
  BY DEF ToSend, SendOf, SendPlaces, Init
<1>4. Unwritten = {} /\ Inserts(channel) = {} /\ Due = {}
  BY <1>1, <1>2, <1>3 DEF Unwritten, ToWrite, Inserts, Due
<1>5. OrderInv
  BY <1>1, <1>2, <1>3, <1>4
     DEF OrderInv, ChannelOrder, SendOrder, InboxOrder, PendingOrder
<1> QED
  BY <1>1, <1>4, <1>5 DEF DurableInv, PlacedInv, BehindInv, CoverInv, PrefixInv

LEMMA DurableStep ==
  ASSUME OneCaller
  PROVE  DurableInv /\ [Next]_vars => DurableInv'
<1> SUFFICES ASSUME DurableInv, [Next]_vars PROVE DurableInv'
  OBVIOUS
<1>1. SafeInv'
  BY SafeStep DEF DurableInv
<1>2. CASE Next
  BY <1>1, <1>2, OrderStep, PlacedStep, BehindStep, CoverStep, PrefixStep
     DEF DurableInv
<1>3. CASE UNCHANGED vars
  <2>1. /\ ToSend' = ToSend /\ Unwritten' = Unwritten /\ Due' = Due /\ Base' = Base
        /\ UNCHANGED <<channel, pending, counterVal, recoverable, db, reissued>>
    BY <1>3 DEF vars, ToSend, SendOf, Unwritten, ToWrite, Due, Base
  <2>2. OrderInv'
    BY <2>1 DEF DurableInv, OrderInv, ChannelOrder, SendOrder, InboxOrder,
                PendingOrder
  <2>3. PlacedInv' /\ BehindInv' /\ CoverInv' /\ PrefixInv'
    BY <2>1 DEF DurableInv, PlacedInv, BehindInv, CoverInv, PrefixInv
  <2> QED
    BY <1>1, <2>2, <2>3 DEF DurableInv
<1> QED
  BY <1>2, <1>3

(* With one caller at a time, what any crash would lose of the work that   *)
(* is owed is the most recent part of it.                                  *)
THEOREM LossIsRecent ==
  ASSUME OneCaller
  PROVE  Spec => []PrefixDurable
<1>1. DurableInv => PrefixDurable
  <2> SUFFICES ASSUME DurableInv PROVE PrefixDurable
    OBVIOUS
  <2>1. Owed \subseteq Due
    BY DEF Owed, Due, DurableInv, SafeInv, BaseInv, TypeHistory
  <2> QED
    BY <2>1 DEF DurableInv, PrefixInv, PrefixDurable
<1> QED
  BY <1>1, DurableInit, DurableStep, PTL DEF Spec

-----------------------------------------------------------------------------
(* Lives that end in order.                                                *)

UnsentPlaces == {"pushSend", "pushCount", "pushSendCount", "batchAlloc",
                 "batchSend", "batchCount", "batchSendCount"}
LastId == FirstCounter + jobs

(* The database will have the counter at n once the I/O thread has read    *)
(* its inbox and written what it collected.                                *)
WillCount(n) ==
  \/ \E k \in DOMAIN channel :
       /\ channel[k] = PersistCounter(n)
       /\ \A l \in DOMAIN channel : l > k => channel[l].op # "counter"
  \/ /\ \A m \in Range(channel) : m.op # "counter"
     /\ counterVal = n \/ (counterVal = 0 /\ db.counter = n)

OrderlyInv ==
  crashes = 0 =>
    /\ reissued = {}
    /\ phase # "down" => counter = LastId
    /\ phase # "down" /\ (\A c \in Callers : cpc[c] \notin UnsentPlaces) =>
         WillCount(LastId)
    /\ \A c \in Callers : cpc[c] \in CountPlaces => cVal[c] = LastId
    /\ phase \in {"dropped", "down"} =>
         \A d \in recoverable : d.counter = LastId

(* What a step of the caller does to the counter and its value. *)
LEMMA CallerCounts ==
  ASSUME OneCaller, Types, PhaseInv, NEW c \in Callers, CallerStep(c)
  PROVE  /\ UNCHANGED <<phase, crashes>>
         /\ ~Allocate(c) => UNCHANGED <<counter, ids>>
         /\ Allocate(c) => cpc'[c] \in UnsentPlaces \ CountPlaces
         /\ SendInsert(c) => cpc'[c] \in UnsentPlaces \ CountPlaces
         /\ cpc'[c] \in CountPlaces => LoadCounter(c) /\ cVal'[c] = counter
         /\ LoadCounter(c) => cpc'[c] \in UnsentPlaces
         /\ cpc[c] \in UnsentPlaces /\ cpc'[c] \notin UnsentPlaces => SendCounter(c)
<1>0. cpc \in [Callers -> CallerPlaces] /\ cVal \in [Callers -> Nat]
  BY DEF Types, TypeThreads
<1>1. UNCHANGED <<phase, crashes>> /\ (~Allocate(c) => UNCHANGED <<counter, ids>>)
  BY
     DEF CallerStep, PushBegin, Allocate, SendInsert, LoadCounter, SendCounter,
         Index, PushItem, RemoveUnindex, RemoveMark, ClearBegin, ClearPop,
         ClearDb, ClearReturn, GetBegin, GetPop, GetCount, GetEnd, GetLoad,
         GetSave, PendingBegin, PendingPop, PendingPush, Close, SetMode, Start
<1>2. CASE PushBegin(c) \/ Allocate(c) \/ SendInsert(c) \/ SendCounter(c)
             \/ Index(c)
  BY <1>0, <1>1, <1>2
     DEF PushBegin, Allocate, SendInsert, SendCounter, Index, Goto, CanCall,
         LoadCounter, UnsentPlaces, CountPlaces
<1>3. CASE LoadCounter(c)
  BY <1>0, <1>1, <1>3
     DEF LoadCounter, Allocate, SendInsert, Goto, UnsentPlaces, CountPlaces
<1>4. CASE ~(PushBegin(c) \/ Allocate(c) \/ SendInsert(c) \/ SendCounter(c)
               \/ Index(c) \/ LoadCounter(c))
  <2>1. cpc[c] \notin UnsentPlaces
    BY <1>4
       DEF CallerStep, PushItem, RemoveUnindex, RemoveMark, ClearBegin, ClearPop,
         ClearDb, ClearReturn, GetBegin, GetPop, GetCount, GetEnd, GetLoad,
         GetSave, PendingBegin, PendingPop, PendingPush, Close, SetMode, Start,
         CanCall, UnsentPlaces
  <2>2. cpc'[c] \notin UnsentPlaces
    BY <1>0, <1>4, <2>1
       DEF CallerStep, PushItem, RemoveUnindex, RemoveMark, ClearBegin, ClearPop,
         ClearDb, ClearReturn, GetBegin, GetPop, GetCount, GetEnd, GetLoad,
         GetSave, PendingBegin, PendingPop, PendingPush, Close, SetMode, Start,
         Goto, Return, UnsentPlaces
  <2> QED
    BY <1>1, <1>4, <2>1, <2>2 DEF UnsentPlaces, CountPlaces
<1> QED
  BY <1>2, <1>3, <1>4

(* The counter of the database changes only when the I/O thread writes it  *)
(* and when the process ends.                                              *)
LEMMA DbCounter ==
  ASSUME Types, Next, ~End, ~IoWriteCounter
  PROVE  /\ db'.counter = db.counter
         /\ \A d \in recoverable' : d \in recoverable \/ d.counter = db.counter
BY DbChange, NewVersion DEF Written

LEMMA WillCountIo ==
  ASSUME SafeInv, IoStep, Next, NEW n \in Nat, WillCount(n)
  PROVE  WillCount(n)'
<1>0. Types /\ channel \in Seq(Messages)
  BY DEF SafeInv, BaseInv, Types, TypeIo
<1>1. CASE IoReceive
  <2> DEFINE msg == Head(channel)
  <2>1. /\ channel # << >> /\ channel' = Tail(channel) /\ UNCHANGED db
        /\ counterVal' = IF msg.op = "counter" THEN msg.val ELSE counterVal
    BY <1>1 DEF IoReceive
  <2>2. /\ Len(channel) \in Nat \ {0} /\ DOMAIN channel = 1 .. Len(channel)
        /\ DOMAIN Tail(channel) = 1 .. (Len(channel) - 1)
        /\ \A k \in 1 .. (Len(channel) - 1) : Tail(channel)[k] = channel[k + 1]
        /\ msg = channel[1]
    BY <1>0, <2>1, TailShape
  <2>3. Range(channel) = Range(Tail(channel)) \cup {msg}
    BY <1>0, <2>1, TailPart
  <2> HIDE DEF msg
  <2>4. ASSUME NEW k \in DOMAIN channel, channel[k] = PersistCounter(n),
               \A l \in DOMAIN channel : l > k => channel[l].op # "counter"
        PROVE  WillCount(n)'
    <3>1. CASE k = 1
      <4>1. msg.op = "counter" /\ msg.val = n
        BY <2>2, <2>4, <3>1 DEF PersistCounter
      <4>2. \A m \in Range(Tail(channel)) : m.op # "counter"
        BY <2>2, <2>4, <3>1 DEF Range
      <4> QED
        BY <2>1, <4>1, <4>2 DEF WillCount
    <3>2. CASE k # 1
      <4>1. /\ k - 1 \in DOMAIN Tail(channel)
            /\ Tail(channel)[k - 1] = PersistCounter(n)
            /\ \A l \in DOMAIN Tail(channel) :
                 l > k - 1 => Tail(channel)[l].op # "counter"
        BY <2>2, <2>4, <3>2
      <4> QED
        BY <2>1, <4>1 DEF WillCount
    <3> QED
      BY <3>1, <3>2
  <2>5. CASE /\ \A m \in Range(channel) : m.op # "counter"
             /\ counterVal = n \/ (counterVal = 0 /\ db.counter = n)
    BY <2>1, <2>3, <2>5 DEF WillCount
  <2> QED
    BY <2>4, <2>5 DEF WillCount
<1>2. CASE IoWriteCounter
  <2>1. counterVal # 0 /\ counterVal' = 0 /\ UNCHANGED channel
    BY <1>2 DEF IoWriteCounter
  <2>2. db'.counter = counterVal
    <3>1. db' = [db EXCEPT !.counter = counterVal] /\ db \in Contents
      BY <1>0, <1>2 DEF IoWriteCounter, Write, Types, TypeIo
    <3> QED
      BY <3>1 DEF Contents
  <2> QED
    BY <2>1, <2>2 DEF WillCount
<1>3. CASE ~IoReceive /\ ~IoWriteCounter
  <2>1. UNCHANGED <<channel, counterVal>> /\ ~End
    BY <1>3 DEF IoStep, IoTimeout, IoWriteItem, IoFlush, End, FreshMemory
  <2>2. db'.counter = db.counter
    BY <1>0, <1>3, <2>1, DbCounter
  <2> QED
    BY <2>1, <2>2 DEF WillCount
<1> QED
  BY <1>1, <1>2, <1>3

LEMMA OrderlyCaller ==
  ASSUME OneCaller, SafeInv, OrderlyInv, Next, NEW c \in Callers, CallerStep(c),
         crashes' = 0
  PROVE  OrderlyInv'
<1>0. Types /\ PhaseInv /\ channel \in Seq(Messages) /\ cVal[c] \in Nat
      /\ jobs \in Nat /\ FirstCounter \in Nat
  BY BoundAssumption DEF SafeInv, BaseInv, Types, TypeIo, TypeThreads, TypeHistory
<1>1. /\ UNCHANGED <<phase, crashes>> /\ phase = "up"
      /\ ~Allocate(c) => UNCHANGED <<counter, ids>>
      /\ Allocate(c) => cpc'[c] \in UnsentPlaces \ CountPlaces
      /\ SendInsert(c) => cpc'[c] \in UnsentPlaces \ CountPlaces
      /\ cpc'[c] \in CountPlaces => LoadCounter(c) /\ cVal'[c] = counter
      /\ cpc[c] \in UnsentPlaces /\ cpc'[c] \notin UnsentPlaces => SendCounter(c)
  BY <1>0, CallerCounts, CallerSend
<1>2. /\ reissued = {} /\ counter = LastId /\ crashes = 0
      /\ (\A d \in Callers : cpc[d] \notin UnsentPlaces) => WillCount(LastId)
      /\ cpc[c] \in CountPlaces => cVal[c] = LastId
  BY <1>1 DEF OrderlyInv
<1>3. reissued' = {} /\ counter' = LastId'
  <2>1. CASE Allocate(c)
    <3>1. /\ reissued' = reissued \cup (issued \cap {counter + 1})
          /\ counter' = counter + 1 /\ jobs' = jobs + 1
      BY <2>1 DEF Allocate
    <3>2. counter + 1 \notin issued
      BY <1>0, <1>2 DEF SafeInv, IdInv, LastId
    <3> QED
      BY <1>0, <1>2, <3>1, <3>2 DEF LastId
  <2> QED
    BY <1>1, <1>2, <2>1 DEF LastId
<1>4. ASSUME \A d \in Callers : cpc'[d] \notin UnsentPlaces
      PROVE  WillCount(LastId)'
  <2>1. ~Allocate(c) /\ ~SendInsert(c) /\ LastId' = LastId
    BY <1>1, <1>4 DEF LastId
  <2>2. ~End /\ ~IoWriteCounter
    <3>1. ~End
      BY <1>1 DEF End
    <3>2. CASE IoWriteCounter
      <4>1. counterVal' = 0 /\ counterVal # 0
        BY <3>2 DEF IoWriteCounter
      <4> QED
        BY <1>0, <4>1, CallerSends
    <3> QED
      BY <3>1, <3>2
  <2>3. db'.counter = db.counter /\ UNCHANGED counterVal
    BY <1>0, <2>2, DbCounter, CallerSends
  <2>4. CASE SendCounter(c)
    <3>1. cpc[c] \in CountPlaces /\ channel' = Append(channel, PersistCounter(cVal[c]))
      BY <2>4 DEF SendCounter, CountPlaces
    <3>2. PersistCounter(cVal[c]) \in Messages
      BY <1>0, ItemTypes
    <3>3. /\ Len(channel) \in Nat /\ DOMAIN channel' = 1 .. (Len(channel) + 1)
          /\ channel'[Len(channel) + 1] = PersistCounter(LastId)
      BY <1>0, <1>2, <3>1, <3>2, AppendShape
    <3>4. Len(channel) + 1 \in DOMAIN channel'
          /\ \A l \in DOMAIN channel' : ~(l > Len(channel) + 1)
      BY <3>3
    <3> QED
      BY <2>1, <3>3, <3>4 DEF WillCount
  <2>5. CASE ~SendCounter(c)
    <3>1. cpc[c] \notin UnsentPlaces
      BY <1>1, <1>4, <2>5
    <3>2. WillCount(LastId)
      BY <1>2, <3>1 DEF OneCaller
    <3>3. UNCHANGED channel
      BY <1>0, <2>1, <2>5, CallerSends
    <3> QED
      BY <2>1, <2>3, <3>2, <3>3 DEF WillCount
  <2> QED
    BY <2>4, <2>5
<1>5. ASSUME NEW d \in Callers, cpc'[d] \in CountPlaces
      PROVE  cVal'[d] = LastId'
  <2>1. d = c
    BY DEF OneCaller
  <2>2. ~Allocate(c) /\ cVal'[c] = counter
    BY <1>1, <1>5, <2>1
  <2> QED
    BY <1>1, <1>2, <2>1, <2>2 DEF LastId
<1> QED
  BY <1>1, <1>3, <1>4, <1>5 DEF OrderlyInv

LEMMA OrderlyStep ==
  ASSUME OneCaller, SafeInv, OrderlyInv, Next
  PROVE  OrderlyInv'
<1> SUFFICES ASSUME crashes' = 0 PROVE OrderlyInv'
  BY DEF OrderlyInv
<1>0. /\ Types /\ PhaseInv /\ db \in recoverable /\ channel \in Seq(Messages)
      /\ jobs \in Nat /\ FirstCounter \in Nat /\ crashes \in Nat
      /\ phase \in {"up", "dropping", "dropped", "down"}
      /\ LastId \in Nat
  BY BoundAssumption, LifeAssumption
     DEF SafeInv, BaseInv, Types, TypeIo, TypeThreads, TypeHistory, LastId
<1>1. ASSUME NEW w \in Workers, WorkerStep(w) PROVE OrderlyInv'
  <2>1. UNCHANGED <<phase, io, channel, cpc, locals, counter>>
    BY <1>0, <1>1, WorkerLeaves
  <2>2. UNCHANGED <<crashes, ids>>
    BY <1>1 DEF WorkerStep, WorkerPop, WorkerEmpty, WorkerCheck, WorkerRun,
                WorkerPost, WorkerUnstore
  <2>3. ~End /\ ~IoWriteCounter
    <3>1. End => phase' = "down" /\ phase # "down"
      BY DEF End
    <3>2. IoWriteCounter => counterVal' # counterVal
      BY DEF IoWriteCounter
    <3> QED
      BY <2>1, <3>1, <3>2
  <2>4. /\ db'.counter = db.counter
        /\ \A d \in recoverable' : d \in recoverable \/ d.counter = db.counter
    BY <1>0, <2>3, DbCounter
  <2>5. LastId' = LastId /\ (WillCount(LastId) => WillCount(LastId)')
    BY <2>1, <2>2, <2>4 DEF LastId, WillCount
  <2> QED
    BY <1>0, <2>1, <2>2, <2>4, <2>5 DEF OrderlyInv
<1>2. CASE IoStep
  <2>1. UNCHANGED <<cpc, locals, counter, ids, crashes>>
        /\ (phase' = phase \/ (IoFlush /\ ioStop /\ phase' = "dropped"))
    BY <1>2 DEF IoStep, IoReceive, IoTimeout, IoWriteItem, IoWriteCounter, IoFlush
  <2>2. phase # "down"
    BY <1>0, <1>2 DEF PhaseInv, IoStep, IoReceive, IoTimeout, IoWriteItem,
                IoWriteCounter, IoFlush
  <2>3. LastId' = LastId /\ (WillCount(LastId) => WillCount(LastId)')
    BY <1>0, <1>2, <2>1, WillCountIo DEF LastId
  <2>4. ASSUME phase' \in {"dropped", "down"}, NEW d \in recoverable'
        PROVE  d.counter = LastId
    <3>1. phase # "dropped"
      BY <1>0, <1>2 DEF PhaseInv, IoStep, IoReceive, IoTimeout, IoWriteItem,
                  IoWriteCounter, IoFlush
    <3>2. IoFlush /\ ioStop
      BY <2>1, <2>2, <2>4, <3>1
    <3>3. ioPc = "write" /\ counterVal = 0 /\ recoverable' = {db}
      BY <3>2 DEF IoFlush
    <3>4. phase = "dropping" /\ channel = << >> /\ \A c \in Callers : cpc[c] = "idle"
      BY <1>0, <2>2, <3>1, <3>2 DEF PhaseInv
    <3>5. WillCount(LastId)
      BY <2>1, <2>2, <3>4 DEF OrderlyInv, UnsentPlaces
    <3>6. DOMAIN channel = {}
      BY <3>4
    <3>7. db.counter = LastId
      <4>1. db.counter \in FirstCounter .. FirstCounter + jobs
        BY <1>0 DEF SafeInv, CounterInv
      <4>2. counterVal = LastId \/ db.counter = LastId
        BY <3>5, <3>6 DEF WillCount
      <4> QED
        BY <1>0, <3>3, <4>1, <4>2 DEF LastId
    <3> QED
      BY <3>3, <3>7
  <2> QED
    BY <2>1, <2>2, <2>3, <2>4 DEF OrderlyInv
<1>3. CASE Drop
  <2>1. /\ phase = "up" /\ phase' = "dropping" /\ channel' = Append(channel, Shutdown)
        /\ UNCHANGED <<cpc, cVal, counter, ids, crashes, counterVal, db>>
    BY <1>3 DEF Drop
  <2>2. Shutdown \in Messages /\ Shutdown.op # "counter"
    BY ItemTypes DEF Shutdown
  <2>3. /\ Len(channel) \in Nat /\ DOMAIN channel = 1 .. Len(channel)
        /\ DOMAIN channel' = 1 .. (Len(channel) + 1)
        /\ \A k \in 1 .. Len(channel) : channel'[k] = channel[k]
        /\ channel'[Len(channel) + 1] = Shutdown
    BY <1>0, <2>1, <2>2, AppendShape
  <2>4. Range(channel') = Range(channel) \cup {Shutdown}
    BY <1>0, <2>1, <2>2, AppendRange
  <2>5. LastId' = LastId
    BY <2>1 DEF LastId
  <2>6. WillCount(LastId) => WillCount(LastId)'
    BY <2>1, <2>2, <2>3, <2>4, <2>5 DEF WillCount
  <2> QED
    BY <2>1, <2>5, <2>6 DEF OrderlyInv
<1>4. CASE End
  <2>1. phase = "dropped" /\ phase' = "down" /\ crashes = 0 /\ jobs' = jobs
        /\ reissued' = reissued /\ recoverable' \subseteq recoverable
        /\ \A c \in Callers : cpc'[c] = "idle"
    BY <1>0, <1>4 DEF End, FreshMemory
  <2>2. LastId' = LastId
    BY <2>1 DEF LastId
  <2> QED
    BY <2>1, <2>2 DEF OrderlyInv, CountPlaces
<1>5. CASE Open
  <2>1. /\ phase = "down" /\ phase' = "up" /\ counter' = db.counter
        /\ UNCHANGED <<cpc, cVal, ids, crashes, counterVal, channel, sled>>
    BY <1>5 DEF Open
  <2>2. channel = << >> /\ counterVal = 0
    BY <1>0, <2>1 DEF PhaseInv
  <2>3. db.counter = LastId /\ LastId' = LastId
    BY <1>0, <2>1 DEF OrderlyInv, LastId
  <2>4. Range(channel) = {}
    BY <2>2 DEF Range
  <2>5. WillCount(LastId)'
    BY <2>1, <2>2, <2>3, <2>4 DEF WillCount
  <2> QED
    BY <2>1, <2>3, <2>5 DEF OrderlyInv
<1> QED
  BY <1>1, <1>2, <1>3, <1>4, <1>5, OrderlyCaller DEF Next

LEMMA OrderlyInit ==
  Init => OrderlyInv
<1> SUFFICES ASSUME Init PROVE OrderlyInv
  OBVIOUS
<1>1. /\ channel = << >> /\ counterVal = 0 /\ db.counter = FirstCounter
      /\ counter = FirstCounter /\ jobs = 0 /\ reissued = {} /\ phase = "up"
      /\ \A c \in Callers : cpc[c] = "idle"
  BY DEF Init
<1>2. LastId = FirstCounter
  BY <1>1, BoundAssumption DEF LastId
<1>3. Range(channel) = {}
  BY <1>1 DEF Range
<1>4. WillCount(LastId)
  BY <1>1, <1>2, <1>3 DEF WillCount
<1> QED
  BY <1>1, <1>2, <1>4 DEF OrderlyInv, CountPlaces

LEMMA OrderlyAlways ==
  ASSUME OneCaller
  PROVE  DurableInv /\ OrderlyInv /\ [Next]_vars => DurableInv' /\ OrderlyInv'
<1> SUFFICES ASSUME DurableInv, OrderlyInv, [Next]_vars
             PROVE  DurableInv' /\ OrderlyInv'
  OBVIOUS
<1>1. DurableInv'
  BY DurableStep
<1>2. CASE Next
  BY <1>1, <1>2, OrderlyStep DEF DurableInv
<1>3. CASE UNCHANGED vars
  <2>1. LastId' = LastId /\ (WillCount(LastId) => WillCount(LastId)')
        /\ UNCHANGED <<reissued, crashes, phase, counter, cpc, cVal, recoverable>>
    BY <1>3 DEF vars, LastId, WillCount
  <2> QED
    BY <1>1, <2>1 DEF OrderlyInv
<1> QED
  BY <1>2, <1>3

(* With one caller at a time, as long as every life ends in order, every   *)
(* id is issued once: the counter that the last flush leaves in the        *)
(* database covers all of them.                                            *)
THEOREM IdsUniqueInOrder ==
  ASSUME OneCaller
  PROVE  Spec => []IdsNeverReissuedInOrder
<1>1. OrderlyInv => IdsNeverReissuedInOrder
  BY DEF OrderlyInv, IdsNeverReissuedInOrder
<1> QED
  BY <1>1, DurableInit, OrderlyInit, OrderlyAlways, PTL DEF Spec

(* With one caller at a time, dropping the queue loses nothing: when drop  *)
(* has returned, all work that is owed is in every version of the database *)
(* that may be found later, wherever the workers are.                      *)
THEOREM DropKeepsOwed ==
  ASSUME OneCaller
  PROVE  Spec => []ShutdownKeepsOwed
<1>1. DurableInv /\ OrderlyInv => ShutdownKeepsOwed
  <2> SUFFICES ASSUME DurableInv, OrderlyInv, phase = "dropped", crashes = 0,
                      NEW d \in recoverable, NEW j \in Owed
               PROVE  j \in JobsOf(d.items)
    BY DEF ShutdownKeepsOwed
  <2>1. j \in Due /\ j \in 1 .. jobs /\ jobs \in Nat /\ FirstCounter \in Nat
    BY BoundAssumption DEF Owed, Due, DurableInv, SafeInv, BaseInv, TypeHistory
  <2>2. d.counter = FirstCounter + jobs /\ reissued = {}
    BY DEF OrderlyInv, LastId
  <2>3. FirstCounter + j <= d.counter
    BY <2>1, <2>2
  <2> QED
    BY <2>1, <2>2, <2>3 DEF DurableInv, CoverInv
<1> QED
  BY <1>1, DurableInit, OrderlyInit, OrderlyAlways, PTL DEF Spec

-----------------------------------------------------------------------------
(* Results handed out, and the count of them in the database.              *)

ReadPlaces == {"get", "getBlocking", "getLoad"}

(* The results a call of a getter is going to return are covered by the    *)
(* count in memory as soon as it has counted them, and by the value it is  *)
(* about to write.                                                         *)
CallCounted(c) ==
  /\ cpc[c] \in ReadPlaces => returned + Len(cBuf[c]) <= removedCount
  /\ cpc[c] = "getCount" => returned + Len(cBuf[c]) <= removedCount + 1
  /\ cpc[c] = "getSave" =>
       returned + Len(cBuf[c]) <= cVal[c] /\ cVal[c] <= removedCount

CountedInv ==
  /\ returned <= db.removed
  /\ phase # "down" => returned <= removedCount
  /\ phase \in {"dropped", "down"} =>
       \A d \in recoverable : returned <= d.removed
  /\ \A c \in Callers : CallCounted(c)

LEMMA CountedCaller ==
  ASSUME SafeInv, CountedInv, NEW c \in Callers, CallerStep(c)
  PROVE  /\ CallCounted(c)' /\ removedCount' >= removedCount
         /\ ~GetSave(c) => UNCHANGED returned
         /\ GetSave(c) => returned' <= cVal[c] /\ returned' <= removedCount'
<1>0. /\ cpc \in [Callers -> CallerPlaces] /\ cVal \in [Callers -> Nat]
      /\ cBuf \in [Callers -> Seq(Items)] /\ cBuf[c] \in Seq(Items)
      /\ Len(cBuf[c]) \in Nat /\ cLeft \in [Callers -> Nat]
      /\ returned \in Nat /\ removedCount \in Nat
      /\ resultQueue \in Seq(Items)
  BY DEF SafeInv, BaseInv, Types, TypeMemory, TypeThreads, TypeHistory
<1>1. /\ CallCounted(c) /\ phase = "up" /\ returned <= removedCount
      /\ cpc[c] = "idle" => Len(cBuf[c]) = 0
  BY CallerSends DEF CountedInv, SafeInv, BaseInv, LocalsInv
<1>2. CASE GetPop(c)
  <2>1. /\ cpc[c] \in ReadPlaces /\ cpc'[c] = "getCount"
        /\ cBuf'[c] = Append(cBuf[c], Head(resultQueue)) /\ resultQueue # << >>
        /\ UNCHANGED <<returned, removedCount>> /\ ~GetSave(c)
    BY <1>0, <1>2 DEF GetPop, Goto, ReadPlaces, GetSave
  <2>2. Len(cBuf'[c]) = Len(cBuf[c]) + 1
    BY <1>0, <2>1
  <2> QED
    BY <1>0, <1>1, <2>1, <2>2 DEF CallCounted, ReadPlaces
<1>3. CASE GetCount(c)
  <2>1. /\ cpc[c] = "getCount" /\ cpc'[c] \in ReadPlaces /\ UNCHANGED <<cBuf, returned>>
        /\ removedCount' = removedCount + 1 /\ ~GetSave(c)
    BY <1>0, <1>3 DEF GetCount, Goto, ReadPlaces, GetSave
  <2> QED
    BY <1>0, <1>1, <2>1 DEF CallCounted, ReadPlaces
<1>4. CASE GetEnd(c)
  <2>1. /\ cpc[c] \in ReadPlaces /\ UNCHANGED <<removedCount, returned>> /\ ~GetSave(c)
        /\ \/ cpc'[c] = "getLoad" /\ UNCHANGED cBuf
           \/ cpc'[c] = "idle"
    BY <1>0, <1>4 DEF GetEnd, Goto, Return, ReadPlaces, GetSave
  <2> QED
    BY <1>0, <1>1, <2>1 DEF CallCounted, ReadPlaces
<1>5. CASE GetLoad(c)
  <2>1. /\ cpc[c] \in ReadPlaces /\ cpc'[c] = "getSave" /\ cVal'[c] = removedCount
        /\ UNCHANGED <<cBuf, returned, removedCount>> /\ ~GetSave(c)
    BY <1>0, <1>5 DEF GetLoad, Goto, ReadPlaces, GetSave
  <2> QED
    BY <1>0, <1>1, <2>1 DEF CallCounted, ReadPlaces
<1>6. CASE GetSave(c)
  <2>1. /\ cpc[c] = "getSave" /\ cpc'[c] = "idle" /\ UNCHANGED removedCount
        /\ returned' = returned + Len(cBuf[c])
    BY <1>0, <1>6 DEF GetSave, Goto, Return
  <2>2. cVal[c] \in Nat
    BY <1>0
  <2> QED
    BY <1>0, <1>1, <1>6, <2>1, <2>2 DEF CallCounted, ReadPlaces
<1>7. CASE GetBegin(c)
  <2>1. /\ cpc[c] = "idle" /\ cpc'[c] \in ReadPlaces
        /\ UNCHANGED <<cBuf, returned, removedCount>> /\ ~GetSave(c)
    BY <1>0, <1>7 DEF GetBegin, CanCall, Goto, ReadPlaces, GetSave
  <2> QED
    BY <1>0, <1>1, <2>1 DEF CallCounted, ReadPlaces
<1>8. CASE ~(GetBegin(c) \/ GetPop(c) \/ GetCount(c) \/ GetEnd(c) \/ GetLoad(c)
               \/ GetSave(c))
  <2>1. UNCHANGED returned /\ (UNCHANGED removedCount \/ removedCount' = removedCount + 1)
    BY <1>8
       DEF CallerStep, PushBegin, Allocate, SendInsert, LoadCounter, SendCounter,
           Index, PushItem, RemoveUnindex, RemoveMark, ClearBegin, ClearPop,
           ClearDb, ClearReturn, PendingBegin, PendingPop, PendingPush, Close,
           SetMode, Start
  <2>2. cpc'[c] \notin ReadPlaces \cup {"getCount", "getSave"}
    <3>1. CASE cpc[c] = "idle"
      BY <1>0, <1>8, <3>1
         DEF CallerStep, PushBegin, Allocate, SendInsert, LoadCounter,
           SendCounter, Index, PushItem, RemoveUnindex, RemoveMark, ClearBegin,
           ClearPop, ClearDb, ClearReturn, PendingBegin, PendingPop, PendingPush,
           Close, SetMode, Start, Goto, Return, ReadPlaces
    <3>2. CASE cpc[c] # "idle"
      BY <1>0, <1>8, <3>2
         DEF CallerStep, PushBegin, Allocate, SendInsert, LoadCounter,
           SendCounter, Index, PushItem, RemoveUnindex, RemoveMark, ClearBegin,
           ClearPop, ClearDb, ClearReturn, PendingBegin, PendingPop, PendingPush,
           Close, SetMode, Start, CanCall, Goto, Return, ReadPlaces
    <3> QED
      BY <3>1, <3>2
  <2> QED
    BY <1>0, <1>8, <2>1, <2>2 DEF CallCounted
<1> QED
  BY <1>2, <1>3, <1>4, <1>5, <1>6, <1>7, <1>8

(* Only a getter and the end of the process change the count in the        *)
(* database; every other version keeps the present one.                    *)
LEMMA DbRemoved ==
  ASSUME Types, Next, ~End, \A c \in Callers : ~GetSave(c)
  PROVE  /\ db'.removed = db.removed
         /\ \A d \in recoverable' : d \in recoverable \/ d.removed = db.removed
BY DbChange, NewVersion DEF Written

LEMMA CountedStep ==
  ASSUME OneCaller, SafeInv, CountedInv, Next
  PROVE  CountedInv'
<1>0. /\ Types /\ PhaseInv /\ db \in recoverable /\ recoverable \subseteq Contents
      /\ returned \in Nat /\ removedCount \in Nat /\ db.removed \in Nat
      /\ phase \in {"up", "dropping", "dropped", "down"}
  BY DEF SafeInv, BaseInv, Types, TypeMemory, TypeIo, TypeThreads, TypeHistory,
         Contents
<1>1. ASSUME NEW c \in Callers, CallerStep(c) PROVE CountedInv'
  <2>1. phase' = "up"
    BY <1>0, <1>1, CallerSends
  <2>2. \A d \in Callers : CallCounted(d)'
    BY <1>1, CountedCaller DEF OneCaller
  <2>3. ~End
    BY <2>1 DEF End
  <2>4. CASE GetSave(c)
    <3>1. db' = [db EXCEPT !.removed = cVal[c]] /\ db \in Contents
      BY <1>0, <2>4 DEF GetSave, Write
    <3>2. db'.removed = cVal[c]
      BY <3>1 DEF Contents
    <3>3. returned' <= cVal[c] /\ returned' <= removedCount'
      BY <1>1, <2>4, CountedCaller
    <3> QED
      BY <2>1, <2>2, <3>2, <3>3 DEF CountedInv
  <2>5. CASE ~GetSave(c)
    <3>1. returned' = returned /\ removedCount' >= removedCount
      BY <1>1, <2>5, CountedCaller
    <3>2. \A d \in Callers : ~GetSave(d)
      BY <2>5 DEF OneCaller
    <3>3. db'.removed = db.removed
      BY <1>0, <2>3, <3>2, DbRemoved
    <3>4. returned <= removedCount /\ removedCount' \in Nat
      <4>1. Types'
        BY TypesStep DEF SafeInv
      <4> QED
        BY <1>0, <1>1, <4>1, CallerSends DEF CountedInv, Types, TypeMemory
    <3>5. returned' <= removedCount'
      BY <1>0, <3>1, <3>4
    <3> QED
      BY <2>1, <2>2, <3>1, <3>3, <3>5 DEF CountedInv
  <2> QED
    BY <2>4, <2>5
<1>2. ASSUME \/ \E w \in Workers : WorkerStep(w)
             \/ IoStep \/ Drop
      PROVE  CountedInv'
  <2>1. /\ UNCHANGED <<cpc, locals, removedCount, returned>>
        /\ ~End /\ phase' # "down" /\ \A c \in Callers : ~GetSave(c)
    <3>1. ASSUME NEW w \in Workers, WorkerStep(w)
          PROVE  UNCHANGED <<cpc, locals, removedCount, returned, phase>>
                 /\ phase # "down"
      BY <1>0, <3>1
         DEF PhaseInv, WorkerStep, WorkerPop, WorkerEmpty, WorkerCheck, WorkerRun,
             WorkerPost, WorkerUnstore
    <3>2. IoStep => UNCHANGED <<cpc, locals, removedCount, returned>>
                    /\ phase # "down" /\ phase' # "down"
      BY <1>0 DEF PhaseInv, IoStep, IoReceive, IoTimeout, IoWriteItem, IoWriteCounter,
             IoFlush
    <3>3. Drop => UNCHANGED <<cpc, locals, removedCount, returned>>
                  /\ phase # "down" /\ phase' # "down"
      BY DEF Drop
    <3>4. UNCHANGED <<cpc, locals, removedCount, returned>> /\ phase' # "down"
      BY <1>2, <3>1, <3>2, <3>3
    <3>5. \A c \in Callers : GetSave(c) => cpc'[c] # cpc[c]
      <4>1. cpc \in [Callers -> CallerPlaces]
        BY <1>0 DEF Types, TypeThreads
      <4> QED
        BY <4>1 DEF GetSave, Return, Goto
    <3> QED
      BY <3>4, <3>5 DEF End
  <2>2. /\ db'.removed = db.removed
        /\ \A d \in recoverable' : d \in recoverable \/ d.removed = db.removed
    BY <1>0, <2>1, DbRemoved
  <2>3. \A c \in Callers : CallCounted(c)'
    BY <2>1 DEF CountedInv, CallCounted
  <2>4. phase # "down" /\ (phase' = "dropped" /\ phase # "dropped" => recoverable' = {db})
    <3>1. (\E w \in Workers : WorkerStep(w)) => phase # "down" /\ phase' = phase
      BY <1>0, WorkerLeaves
    <3>2. IoStep => /\ phase # "down"
                    /\ phase' = "dropped" /\ phase # "dropped" => recoverable' = {db}
      BY <1>0 DEF PhaseInv, IoStep, IoReceive, IoTimeout, IoWriteItem,
                  IoWriteCounter, IoFlush
    <3>3. Drop => phase # "down" /\ phase' # "dropped"
      BY DEF Drop
    <3> QED
      BY <1>2, <3>1, <3>2, <3>3
  <2>5. ASSUME phase' = "dropped", NEW d \in recoverable'
        PROVE  returned <= d.removed
    <3>1. CASE phase = "dropped"
      BY <2>2, <3>1 DEF CountedInv
    <3>2. CASE phase # "dropped"
      BY <2>4, <2>5, <3>2 DEF CountedInv
    <3> QED
      BY <3>1, <3>2
  <2> QED
    BY <2>1, <2>2, <2>3, <2>4, <2>5 DEF CountedInv
<1>3. CASE End
  <2>1. /\ phase' = "down" /\ returned' = db'.removed /\ recoverable' = {db'}
        /\ db' \in recoverable /\ \A c \in Callers : cpc'[c] = "idle"
    BY <1>3 DEF End, FreshMemory
  <2>2. db'.removed \in Nat
    BY <1>0, <2>1 DEF Contents
  <2> QED
    BY <2>1, <2>2 DEF CountedInv, CallCounted, ReadPlaces
<1>4. CASE Open
  <2>1. /\ phase' = "up" /\ removedCount' = db.removed
        /\ UNCHANGED <<cpc, returned, sled>> /\ phase = "down"
    BY <1>4 DEF Open
  <2>2. \A c \in Callers : cpc'[c] = "idle"
    BY <1>0, <2>1 DEF PhaseInv
  <2> QED
    BY <2>1, <2>2 DEF CountedInv, CallCounted, ReadPlaces
<1> QED
  BY <1>1, <1>2, <1>3, <1>4 DEF Next

(* With one caller at a time, the count of delivered results that drop     *)
(* leaves in the database covers every result a getter has returned in     *)
(* this life and those counted when it began.                              *)
THEOREM DeliveriesSaved ==
  ASSUME OneCaller
  PROVE  Spec => []DeliveredCounted
<1>1. Init => CountedInv
  <2> SUFFICES ASSUME Init PROVE CountedInv
    OBVIOUS
  <2>1. /\ returned = 0 /\ removedCount = 0 /\ recoverable = {db}
        /\ db = [items |-> {}, counter |-> FirstCounter, removed |-> 0]
        /\ \A c \in Callers : cpc[c] = "idle"
    BY DEF Init
  <2>2. db.removed = 0
    BY <2>1
  <2> QED
    BY <2>1, <2>2 DEF CountedInv, CallCounted, ReadPlaces
<1>2. SafeInv /\ CountedInv /\ [Next]_vars => SafeInv' /\ CountedInv'
  <2> SUFFICES ASSUME SafeInv, CountedInv, [Next]_vars
               PROVE  SafeInv' /\ CountedInv'
    OBVIOUS
  <2>1. SafeInv'
    BY SafeStep
  <2>2. CASE UNCHANGED vars
    <3>1. UNCHANGED <<returned, db, recoverable, phase, removedCount, cpc, cBuf, cVal>>
      BY <2>2 DEF vars
    <3>2. \A c \in Callers : CallCounted(c)'
      BY <3>1 DEF CountedInv, CallCounted
    <3>3. CountedInv'
      BY <3>1, <3>2 DEF CountedInv
    <3> QED
      BY <2>1, <3>3
  <2> QED
    BY <2>1, <2>2, CountedStep
<1>3. CountedInv => DeliveredCounted
  BY DEF CountedInv, DeliveredCounted
<1> QED
  BY <1>1, <1>2, <1>3, SafeInit, PTL DEF Spec

-----------------------------------------------------------------------------
(* The order of waiting items.                                             *)

(* Restart takes items in the byte order of their keys, which is the order *)
(* of their ids only among ids of equally many digits.                     *)
EqualDigits == FirstCounter + MaxJobs < 10 \/ FirstCounter >= 9

ByJob(s) == \A m, n \in DOMAIN s : m < n => s[m].job < s[n].job
Below(s, t) == \A i \in Range(s), k \in Range(t) : i.job < k.job

LEMMA ByJobChanges ==
  ASSUME NEW s \in Seq(Items), ByJob(s)
  PROVE  /\ \A i \in Items :
              (\A k \in Range(s) : k.job < i.job) => ByJob(Append(s, i))
         /\ s # << >> =>
              ByJob(Tail(s)) /\ \A k \in Range(Tail(s)) : Head(s).job < k.job
<1>1. ASSUME NEW i \in Items, \A k \in Range(s) : k.job < i.job
      PROVE  ByJob(Append(s, i))
  <2>1. /\ Len(s) \in Nat /\ DOMAIN s = 1 .. Len(s)
        /\ DOMAIN Append(s, i) = 1 .. (Len(s) + 1)
        /\ \A k \in 1 .. Len(s) : Append(s, i)[k] = s[k]
        /\ Append(s, i)[Len(s) + 1] = i
    BY AppendShape
  <2>2. ASSUME NEW m \in 1 .. (Len(s) + 1), NEW n \in 1 .. (Len(s) + 1), m < n
        PROVE  Append(s, i)[m].job < Append(s, i)[n].job
    <3>1. m \in 1 .. Len(s) /\ s[m] \in Range(s)
      BY <2>1, <2>2 DEF Range
    <3>2. CASE n = Len(s) + 1
      BY <1>1, <2>1, <3>1, <3>2
    <3>3. CASE n \in 1 .. Len(s)
      BY <2>1, <2>2, <3>1, <3>3 DEF ByJob
    <3> QED
      BY <2>1, <3>2, <3>3
  <2> QED
    BY <2>1, <2>2 DEF ByJob
<1>2. ASSUME s # << >>
      PROVE  ByJob(Tail(s)) /\ \A k \in Range(Tail(s)) : Head(s).job < k.job
  <2>1. /\ Len(s) \in Nat \ {0} /\ DOMAIN s = 1 .. Len(s)
        /\ DOMAIN Tail(s) = 1 .. (Len(s) - 1)
        /\ \A k \in 1 .. (Len(s) - 1) : Tail(s)[k] = s[k + 1]
        /\ Head(s) = s[1]
    BY <1>2, TailShape
  <2>2. \A k \in DOMAIN Tail(s) :
          k + 1 \in DOMAIN s /\ 1 < k + 1 /\ Tail(s)[k] = s[k + 1]
    BY <2>1
  <2>3. ASSUME NEW m \in DOMAIN Tail(s), NEW n \in DOMAIN Tail(s), m < n
        PROVE  Tail(s)[m].job < Tail(s)[n].job
    <3>1. m + 1 \in DOMAIN s /\ n + 1 \in DOMAIN s /\ m + 1 < n + 1
      BY <2>1, <2>3
    <3> QED
      BY <2>2, <3>1 DEF ByJob
  <2>4. ASSUME NEW m \in DOMAIN Tail(s) PROVE Head(s).job < Tail(s)[m].job
    <3>1. 1 \in DOMAIN s
      BY <2>1
    <3> QED
      BY <2>1, <2>2, <3>1 DEF ByJob
  <2> QED
    BY <2>3, <2>4 DEF ByJob, Range
<1> QED
  BY <1>1, <1>2

(* Where the caller's items stand: behind the queue, but for those that    *)
(* pending_items is taking out of it.                                      *)
LineOf(c) ==
  /\ cpc[c] \in BufPlaces => ByJob(cBuf[c])
  /\ cpc[c] = "pendPop" => Below(cBuf[c], itemQueue)
  /\ cpc[c] \in BufPlaces \ {"pendPop"} => Below(itemQueue, cBuf[c])
  /\ cpc[c] \in ItemPlaces \ {"clearDb"} =>
       \A i \in Range(itemQueue) : i.job < cItem[c].job
  /\ cpc[c] = "batchSend" => \A i \in Range(cBuf[c]) : i.job < cItem[c].job

FifoInv ==
  reissued = {} => ByJob(itemQueue) /\ \A c \in Callers : LineOf(c)

LEMMA FifoPush ==
  ASSUME SafeInv, ByJob(itemQueue), NEW c \in Callers, LineOf(c),
         reissued' = {}, Allocate(c) \/ SendInsert(c) \/ PushItem(c)
  PROVE  ByJob(itemQueue') /\ LineOf(c)'
<1>0. /\ cpc \in [Callers -> CallerPlaces] /\ cItem \in [Callers -> Items]
      /\ cBuf \in [Callers -> Seq(Items)] /\ cBuf[c] \in Seq(Items)
      /\ itemQueue \in Seq(Items) /\ cItem[c] \in Items
  BY DEF SafeInv, BaseInv, Types, TypeMemory, TypeThreads
<1>1. CASE Allocate(c)
  <2>1. /\ UNCHANGED <<itemQueue, cBuf>> /\ cItem'[c] = NewItem
        /\ \/ cpc'[c] = "pushSend"
           \/ cpc'[c] = "batchSend" /\ cpc[c] = "batchAlloc"
    BY <1>0, <1>1 DEF Allocate, Goto, NewItem
  <2>2. /\ \A i \in Range(itemQueue) : i \in Around
        /\ cpc[c] = "batchAlloc" => \A i \in Range(cBuf[c]) : i \in Around
    BY AroundParts DEF BufOf, BufPlaces
  <2>3. NewItem.job = jobs + 1
    BY <1>1, AllocateFinds
  <2>4. \A i \in Around : i.job < NewItem.job
    BY <2>3, Bounds
  <2> QED
    BY <2>1, <2>2, <2>4 DEF LineOf, ItemPlaces, BufPlaces
<1>2. CASE SendInsert(c)
  <2>1. /\ UNCHANGED <<itemQueue, cItem>>
        /\ \/ cpc[c] = "pushSend" /\ cpc'[c] = "pushCount"
           \/ /\ cpc[c] = "batchSend" /\ cpc'[c] = "batchAlloc"
              /\ cBuf'[c] = Append(cBuf[c], cItem[c])
    BY <1>0, <1>2 DEF SendInsert, Goto
  <2>2. CASE cpc[c] = "pushSend"
    BY <2>1, <2>2 DEF LineOf, ItemPlaces, BufPlaces
  <2>3. CASE cpc[c] = "batchSend"
    <3>1. Range(cBuf'[c]) = Range(cBuf[c]) \cup {cItem[c]}
      <4>1. cBuf'[c] = Append(cBuf[c], cItem[c])
        BY <2>1, <2>3
      <4> QED
        BY <1>0, <4>1, AppendRange
    <3>2. /\ ByJob(cBuf[c]) /\ Below(itemQueue, cBuf[c])
          /\ \A i \in Range(itemQueue) \cup Range(cBuf[c]) : i.job < cItem[c].job
      BY <2>3 DEF LineOf, ItemPlaces, BufPlaces
    <3>3. ByJob(cBuf'[c])
      BY <1>0, <2>1, <2>3, <3>2, ByJobChanges
    <3>4. Below(itemQueue, cBuf'[c])
      BY <3>1, <3>2 DEF Below
    <3> QED
      BY <2>1, <2>3, <3>3, <3>4 DEF LineOf, ItemPlaces, BufPlaces
  <2> QED
    BY <2>1, <2>2, <2>3
<1>3. CASE PushItem(c)
  <2>1. CASE cpc[c] = "pushItem"
    <3>1. itemQueue' = Append(itemQueue, cItem[c]) /\ cpc'[c] = "idle"
      BY <1>0, <1>3, <2>1 DEF PushItem, Return, Goto
    <3>2. ByJob(itemQueue')
      BY <1>0, <2>1, <3>1, ByJobChanges DEF LineOf, ItemPlaces
    <3> QED
      BY <3>1, <3>2 DEF LineOf, ItemPlaces, BufPlaces
  <2>2. CASE cpc[c] = "batchItem" /\ cBuf[c] = << >>
    <3>1. UNCHANGED itemQueue /\ cpc'[c] = "idle"
      BY <1>0, <1>3, <2>2 DEF PushItem, Return, Goto
    <3> QED
      BY <3>1 DEF LineOf, ItemPlaces, BufPlaces
  <2>3. CASE cpc[c] = "batchItem" /\ cBuf[c] # << >>
    <3>1. itemQueue' = Append(itemQueue, Head(cBuf[c])) /\ cpc'[c] = "batchItem"
          /\ cBuf'[c] = Tail(cBuf[c])
      BY <1>0, <1>3, <2>3 DEF PushItem
    <3>2. /\ Head(cBuf[c]) \in Items /\ Tail(cBuf[c]) \in Seq(Items)
          /\ Range(cBuf[c]) = Range(Tail(cBuf[c])) \cup {Head(cBuf[c])}
      BY <1>0, <2>3, TailPart, SeqTypes
    <3>3. Range(itemQueue') = Range(itemQueue) \cup {Head(cBuf[c])}
      BY <1>0, <3>1, <3>2, AppendRange
    <3>4. ByJob(cBuf[c]) /\ Below(itemQueue, cBuf[c])
      BY <2>3 DEF LineOf, BufPlaces
    <3>5. /\ ByJob(Tail(cBuf[c]))
          /\ \A k \in Range(Tail(cBuf[c])) : Head(cBuf[c]).job < k.job
      BY <1>0, <2>3, <3>4, ByJobChanges
    <3>6. ByJob(itemQueue')
      BY <1>0, <3>1, <3>2, <3>4, ByJobChanges DEF Below
    <3>7. Below(itemQueue', cBuf'[c])
      BY <3>1, <3>2, <3>3, <3>4, <3>5 DEF Below
    <3> QED
      BY <3>1, <3>5, <3>6, <3>7 DEF LineOf, ItemPlaces, BufPlaces
  <2> QED
    BY <1>3, <2>1, <2>2, <2>3 DEF PushItem
<1> QED
  BY <1>1, <1>2, <1>3

LEMMA FifoPending ==
  ASSUME SafeInv, ByJob(itemQueue), NEW c \in Callers, LineOf(c),
         PendingPop(c) \/ PendingPush(c)
  PROVE  ByJob(itemQueue') /\ LineOf(c)'
<1>0. /\ cpc \in [Callers -> CallerPlaces]
      /\ cBuf \in [Callers -> Seq(Items)] /\ cBuf[c] \in Seq(Items)
      /\ itemQueue \in Seq(Items)
  BY DEF SafeInv, BaseInv, Types, TypeMemory, TypeThreads
<1>1. CASE PendingPop(c) /\ itemQueue # << >>
  <2>1. /\ cpc[c] = "pendPop" /\ cpc'[c] = "pendPop" /\ itemQueue' = Tail(itemQueue)
        /\ cBuf'[c] = Append(cBuf[c], Head(itemQueue))
    BY <1>0, <1>1 DEF PendingPop
  <2>2. ByJob(cBuf[c]) /\ Below(cBuf[c], itemQueue)
    BY <2>1 DEF LineOf, BufPlaces
  <2>3. /\ Head(itemQueue) \in Items
        /\ Range(itemQueue) = Range(Tail(itemQueue)) \cup {Head(itemQueue)}
    BY <1>0, <1>1, TailPart
  <2>4. Range(cBuf'[c]) = Range(cBuf[c]) \cup {Head(itemQueue)}
    BY <1>0, <2>1, <2>3, AppendRange
  <2>5. /\ ByJob(Tail(itemQueue))
        /\ \A k \in Range(Tail(itemQueue)) : Head(itemQueue).job < k.job
    BY <1>0, <1>1, ByJobChanges
  <2>6. ByJob(cBuf'[c])
    BY <1>0, <2>1, <2>2, <2>3, ByJobChanges DEF Below
  <2>7. Below(cBuf'[c], itemQueue')
    BY <2>1, <2>2, <2>3, <2>4, <2>5 DEF Below
  <2> QED
    BY <2>1, <2>5, <2>6, <2>7 DEF LineOf, ItemPlaces, BufPlaces
<1>2. CASE PendingPop(c) /\ itemQueue = << >>
  <2>1. /\ cpc[c] = "pendPop" /\ cpc'[c] = "pendPush" /\ UNCHANGED <<itemQueue, cBuf>>
    BY <1>0, <1>2 DEF PendingPop, Goto
  <2>2. Range(itemQueue) = {}
    BY <1>2 DEF Range
  <2> QED
    BY <2>1, <2>2 DEF LineOf, Below, ItemPlaces, BufPlaces
<1>3. CASE PendingPush(c) /\ cBuf[c] = << >>
  <2>1. UNCHANGED itemQueue /\ cpc'[c] = "idle"
    BY <1>0, <1>3 DEF PendingPush, Return, Goto
  <2> QED
    BY <2>1 DEF LineOf, ItemPlaces, BufPlaces
<1>4. CASE PendingPush(c) /\ cBuf[c] # << >>
  <2>1. /\ itemQueue' = Append(itemQueue, Head(cBuf[c])) /\ cpc[c] = "pendPush"
        /\ cpc'[c] = "pendPush" /\ cBuf'[c] = Tail(cBuf[c])
    BY <1>0, <1>4 DEF PendingPush
  <2>2. /\ Head(cBuf[c]) \in Items /\ Tail(cBuf[c]) \in Seq(Items)
        /\ Range(cBuf[c]) = Range(Tail(cBuf[c])) \cup {Head(cBuf[c])}
    BY <1>0, <1>4, TailPart, SeqTypes
  <2>3. Range(itemQueue') = Range(itemQueue) \cup {Head(cBuf[c])}
    BY <1>0, <2>1, <2>2, AppendRange
  <2>4. ByJob(cBuf[c]) /\ Below(itemQueue, cBuf[c])
    BY <2>1 DEF LineOf, BufPlaces
  <2>5. /\ ByJob(Tail(cBuf[c]))
        /\ \A k \in Range(Tail(cBuf[c])) : Head(cBuf[c]).job < k.job
    BY <1>0, <1>4, <2>4, ByJobChanges
  <2>6. ByJob(itemQueue')
    BY <1>0, <2>1, <2>2, <2>4, ByJobChanges DEF Below
  <2>7. Below(itemQueue', cBuf'[c])
    BY <2>1, <2>2, <2>3, <2>4, <2>5 DEF Below
  <2> QED
    BY <2>1, <2>5, <2>6, <2>7 DEF LineOf, ItemPlaces, BufPlaces
<1> QED
  BY <1>1, <1>2, <1>3, <1>4

(* The other methods take items out at the front, or only move on. *)
LEMMA FifoOther ==
  ASSUME SafeInv, ByJob(itemQueue), NEW c \in Callers, LineOf(c), CallerStep(c),
         ~(Allocate(c) \/ SendInsert(c) \/ PushItem(c) \/ PendingPop(c)
             \/ PendingPush(c))
  PROVE  ByJob(itemQueue') /\ LineOf(c)'
<1>0. /\ cpc \in [Callers -> CallerPlaces] /\ cItem \in [Callers -> Items]
      /\ cBuf \in [Callers -> Seq(Items)] /\ itemQueue \in Seq(Items)
      /\ cpc[c] = "idle" => cBuf[c] = << >>
  BY DEF SafeInv, BaseInv, Types, TypeMemory, TypeThreads, LocalsInv
<1>1. CASE PushBegin(c) \/ PendingBegin(c)
  <2>1. /\ cpc[c] = "idle" /\ UNCHANGED <<itemQueue, cBuf>>
        /\ cpc'[c] \in {"pushAlloc", "batchAlloc", "pendPop"}
    BY <1>0, <1>1 DEF PushBegin, PendingBegin, CanCall, Goto
  <2>2. Range(<< >>) = {} /\ ByJob(<< >>)
    BY DEF Range, ByJob
  <2> QED
    BY <1>0, <2>1, <2>2 DEF LineOf, ItemPlaces, BufPlaces, Below
<1>2. CASE LoadCounter(c) \/ SendCounter(c) \/ Index(c)
  <2>1. /\ UNCHANGED <<itemQueue, cBuf, cItem>> /\ cpc'[c] # "batchSend"
        /\ \/ /\ cpc[c] \in ItemPlaces \ {"clearDb", "batchSend"}
              /\ cpc'[c] \in ItemPlaces \ {"clearDb", "batchSend"}
           \/ /\ cpc[c] \in BufPlaces \ {"pendPop", "batchSend"}
              /\ cpc'[c] \in BufPlaces \ {"pendPop", "batchSend"}
    BY <1>0, <1>2
       DEF LoadCounter, SendCounter, Index, Goto, ItemPlaces, BufPlaces
  <2> QED
    BY <2>1 DEF LineOf, ItemPlaces, BufPlaces
<1>3. CASE ClearPop(c)
  <2>1. itemQueue # << >> /\ itemQueue' = Tail(itemQueue) /\ cpc'[c] = "clearDb"
    BY <1>0, <1>3 DEF ClearPop, Goto
  <2>2. ByJob(itemQueue')
    BY <1>0, <2>1, ByJobChanges
  <2> QED
    BY <2>1, <2>2 DEF LineOf, ItemPlaces, BufPlaces
<1>4. CASE ~(PushBegin(c) \/ PendingBegin(c) \/ LoadCounter(c) \/ SendCounter(c)
               \/ Index(c) \/ ClearPop(c))
  <2>1. UNCHANGED itemQueue
    BY <1>4
       DEF CallerStep, RemoveUnindex, RemoveMark, ClearBegin, ClearDb,
           ClearReturn, GetBegin, GetPop, GetCount, GetEnd, GetLoad, GetSave,
           Close, SetMode, Start
  <2>2. cpc'[c] \notin BufPlaces \cup (ItemPlaces \ {"clearDb"})
    BY <1>0, <1>4
       DEF CallerStep, RemoveUnindex, RemoveMark, ClearBegin, ClearDb,
           ClearReturn, GetBegin, GetPop, GetCount, GetEnd, GetLoad, GetSave,
           Close, SetMode, Start, CanCall, Goto, Return, ItemPlaces, BufPlaces
  <2> QED
    BY <2>1, <2>2 DEF LineOf, ItemPlaces, BufPlaces
<1> QED
  BY <1>1, <1>2, <1>3, <1>4

LEMMA FifoOpen ==
  ASSUME EqualDigits, SafeInv, Open, reissued = {}
  PROVE  ByJob(itemQueue')
<1>1. PICK q \in [1 .. Cardinality(db.items) -> db.items] :
        /\ \A m, n \in DOMAIN q : m < n => KeyBefore(q[m].id, q[n].id)
        /\ itemQueue' = q
  BY DEF Open
<1>2. FirstCounter \in Nat /\ MaxJobs \in Nat /\ FirstCounter + MaxJobs < 100
      /\ jobs \in Nat /\ jobs <= MaxJobs
  BY BoundAssumption DEF SafeInv, BaseInv, TypeHistory
<1>3. \A i \in db.items : i.job \in 1 .. jobs /\ i.id = FirstCounter + i.job
  <2>1. db.items \subseteq Around
    BY StoredChange, AroundParts DEF SafeInv, BaseInv
  <2> QED
    BY <2>1, Bounds DEF SafeInv, IdInv
<1>4. ASSUME NEW m \in DOMAIN q, NEW n \in DOMAIN q, m < n
      PROVE  q[m].job < q[n].job
  <2>1. q[m] \in db.items /\ q[n] \in db.items
    BY <1>1
  <2> DEFINE i == q[m]
             k == q[n]
  <2>2. KeyBefore(i.id, k.id)
    BY <1>1, <1>4
  <2>3. /\ i.job \in 1 .. jobs /\ i.id = FirstCounter + i.job
        /\ k.job \in 1 .. jobs /\ k.id = FirstCounter + k.job
    BY <1>3, <2>1
  <2> HIDE DEF i, k
  <2>4. (i.id < 10 /\ k.id < 10) \/ (i.id >= 10 /\ k.id >= 10)
    BY <1>2, <2>3 DEF EqualDigits
  <2>5. i.id \in Nat /\ k.id \in Nat
    BY <1>2, <2>3
  <2>6. i.id < k.id
    BY <2>2, <2>4, <2>5 DEF KeyBefore
  <2>7. i.job < k.job
    BY <1>2, <2>3, <2>6
  <2> QED
    BY <2>7 DEF i, k
<1> QED
  BY <1>1, <1>4 DEF ByJob

LEMMA FifoStep ==
  ASSUME OneCaller, EqualDigits, SafeInv, FifoInv, Next
  PROVE  FifoInv'
<1> SUFFICES ASSUME reissued' = {}
             PROVE  ByJob(itemQueue') /\ \A c \in Callers : LineOf(c)'
  BY DEF FifoInv
<1>0. /\ reissued = {} /\ ByJob(itemQueue) /\ \A c \in Callers : LineOf(c)
      /\ PhaseInv /\ itemQueue \in Seq(Items)
  BY IdsChange DEF FifoInv, SafeInv, BaseInv, Types, TypeMemory
<1>1. ASSUME NEW c \in Callers, CallerStep(c)
      PROVE  ByJob(itemQueue') /\ \A d \in Callers : LineOf(d)'
  <2>1. ByJob(itemQueue') /\ LineOf(c)'
    BY <1>0, <1>1, FifoPush, FifoPending, FifoOther
  <2> QED
    BY <2>1 DEF OneCaller
<1>2. ASSUME UNCHANGED <<cpc, cItem, cBuf>>,
             \/ UNCHANGED itemQueue
             \/ itemQueue # << >> /\ itemQueue' = Tail(itemQueue)
      PROVE  ByJob(itemQueue') /\ \A c \in Callers : LineOf(c)'
  <2>1. CASE UNCHANGED itemQueue
    BY <1>0, <1>2, <2>1 DEF LineOf
  <2>2. CASE itemQueue # << >> /\ itemQueue' = Tail(itemQueue)
    <3>1. Range(itemQueue') \subseteq Range(itemQueue)
      BY <1>0, <2>2, TailPart
    <3>2. ByJob(itemQueue')
      BY <1>0, <2>2, ByJobChanges
    <3>3. \A s : /\ Below(itemQueue, s) => Below(itemQueue', s)
                 /\ Below(s, itemQueue) => Below(s, itemQueue')
      BY <3>1 DEF Below
    <3>4. ASSUME NEW c \in Callers PROVE LineOf(c)'
      BY <1>0, <1>2, <3>1, <3>3 DEF LineOf
    <3> QED
      BY <3>2, <3>4
  <2> QED
    BY <1>2, <2>1, <2>2
<1>3. ASSUME NEW w \in Workers, WorkerStep(w)
      PROVE  ByJob(itemQueue') /\ \A c \in Callers : LineOf(c)'
  <2>1. UNCHANGED <<cpc, cItem, cBuf>>
    BY <1>0, <1>3, WorkerLeaves
  <2>2. \/ UNCHANGED itemQueue
        \/ itemQueue # << >> /\ itemQueue' = Tail(itemQueue)
    BY <1>3 DEF WorkerStep, WorkerPop, WorkerEmpty, WorkerCheck, WorkerRun,
                WorkerPost, WorkerUnstore
  <2> QED
    BY <1>2, <2>1, <2>2
<1>4. CASE IoStep \/ Drop
  <2>1. UNCHANGED <<cpc, cItem, cBuf, itemQueue>>
    BY <1>4 DEF IoStep, IoReceive, IoTimeout, IoWriteItem, IoWriteCounter,
                IoFlush, Drop
  <2> QED
    BY <1>2, <2>1
<1>5. CASE End
  <2>1. itemQueue' = << >> /\ \A c \in Callers : cpc'[c] = "idle"
    BY <1>5 DEF End, FreshMemory
  <2> QED
    BY <2>1 DEF LineOf, ByJob, ItemPlaces, BufPlaces
<1>6. CASE Open
  <2>1. \A c \in Callers : cpc'[c] = "idle"
    BY <1>0, <1>6 DEF Open, PhaseInv
  <2>2. ByJob(itemQueue')
    BY <1>0, <1>6, FifoOpen
  <2> QED
    BY <2>1, <2>2 DEF LineOf, ItemPlaces, BufPlaces
<1> QED
  BY <1>1, <1>3, <1>4, <1>5, <1>6 DEF Next

(* With one caller at a time and ids of equally many digits, items wait in *)
(* the order they were pushed in, within and across batches, through       *)
(* pending_items and restarts, until a crash leads to an id issued twice.  *)
THEOREM WaitsInOrder ==
  ASSUME OneCaller, EqualDigits
  PROVE  Spec => []FifoKept
<1>1. Init => FifoInv
  BY DEF Init, FifoInv, LineOf, ByJob, ItemPlaces, BufPlaces
<1>2. SafeInv /\ FifoInv /\ [Next]_vars => SafeInv' /\ FifoInv'
  <2> SUFFICES ASSUME SafeInv, FifoInv, [Next]_vars
               PROVE  SafeInv' /\ FifoInv'
    OBVIOUS
  <2>1. SafeInv'
    BY SafeStep
  <2>2. CASE UNCHANGED vars
    <3>1. UNCHANGED <<itemQueue, cpc, cBuf, cItem, reissued>>
      BY <2>2 DEF vars
    <3>2. reissued = {} => \A c \in Callers : LineOf(c)'
      BY <3>1 DEF FifoInv, LineOf
    <3>3. FifoInv'
      BY <3>1, <3>2 DEF FifoInv
    <3> QED
      BY <2>1, <3>3
  <2> QED
    BY <2>1, <2>2, FifoStep
<1>3. FifoInv => FifoKept
  BY DEF FifoInv, ByJob, FifoKept
<1> QED
  BY <1>1, <1>2, <1>3, SafeInit, PTL DEF Spec
=============================================================================
