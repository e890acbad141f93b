------------------------ MODULE AsyncQueueCountProofs ------------------------
(***************************************************************************)
(* What AsyncQueue counts: results, removals and statistics agree with     *)
(* what happened, for every number of callers, cores and items.            *)
(*                                                                         *)
(* A count moves when a set gains or loses one element, so the inductive   *)
(* invariant says that the element is new: a GUID is in one call, in the   *)
(* index or among the removed ones, and an item has one result.            *)
(***************************************************************************)
EXTENDS AsyncQueueProofs

(* What an action leaves unchanged it names by these groups of variables.  *)
USE DEF queues, counters, tallies, settings, guids, workers, locals, callers,
        history

-----------------------------------------------------------------------------
(* GUIDs.                                                                  *)

(* Ids a call has issued and not indexed yet, and the one it has taken out *)
(* of the index and not marked as removed yet.                             *)
Unindexed(c) ==
  (IF cpc[c] \in {"pushIndex", "batchItem"} THEN {cId[c]} ELSE {})
    \cup (IF cpc[c] \in {"batchAlloc", "batchItem"} THEN Range(cBuf[c]) ELSE {})
Removing(c) == IF cpc[c] = "removeMark" THEN {cId[c]} ELSE {}
GuidsHeld(c) == Unindexed(c) \cup Removing(c)

(* A GUID is held by one call, indexed, or removed, and was issued.        *)
GuidsApart ==
  /\ \A c \in Callers : GuidsHeld(c) \cap (guidIndex \cup removedGuids) = {}
  /\ \A c, d \in Callers : c # d => GuidsHeld(c) \cap GuidsHeld(d) = {}
  /\ guidIndex \cap removedGuids = {}
  /\ guidIndex \cup removedGuids \subseteq 1 .. counter
  /\ \A c \in Callers : GuidsHeld(c) \subseteq 1 .. counter

(* How a step of one call moves GUIDs. *)
HeldKept(c) == \A d \in Callers \ {c} : GuidsHeld(d)' = GuidsHeld(d)

LeavesGuids(c) ==
  HeldKept(c) /\ GuidsHeld(c)' = GuidsHeld(c) /\ UNCHANGED <<guids, counter>>
Issues(c) ==
  /\ HeldKept(c) /\ GuidsHeld(c)' = GuidsHeld(c) \cup {counter + 1}
  /\ counter' = counter + 1 /\ UNCHANGED guids
Indexes(c) ==
  /\ HeldKept(c) /\ GuidsHeld(c)' = {}
  /\ guidIndex' = guidIndex \cup GuidsHeld(c)
  /\ UNCHANGED <<removedGuids, counter>>
Unindexes(c) ==
  /\ HeldKept(c) /\ GuidsHeld(c) = {} /\ GuidsHeld(c)' \subseteq guidIndex
  /\ guidIndex' = guidIndex \ GuidsHeld(c)'
  /\ UNCHANGED <<removedGuids, counter>>
Removes(c) ==
  /\ HeldKept(c) /\ GuidsHeld(c)' = {}
  /\ removedGuids' = removedGuids \cup GuidsHeld(c)
  /\ UNCHANGED <<guidIndex, counter>>

LEMMA GuidMoves ==
  ASSUME GuidsApart, counter \in Nat, NEW c \in Callers,
         \/ LeavesGuids(c) \/ Issues(c) \/ Indexes(c) \/ Unindexes(c)
         \/ Removes(c)
  PROVE  GuidsApart'
<1> USE DEF GuidsApart, HeldKept
<1>1. CASE LeavesGuids(c)
  BY <1>1 DEF LeavesGuids
<1>2. CASE Issues(c)
  <2>1. /\ 1 .. counter' = 1 .. counter \cup {counter + 1}
        /\ counter + 1 \notin 1 .. counter
    BY <1>2 DEF Issues
  <2> QED
    BY <1>2, <2>1 DEF Issues
<1>3. CASE Indexes(c)
  BY <1>3 DEF Indexes
<1>4. CASE Unindexes(c)
  BY <1>4 DEF Unindexes
<1>5. CASE Removes(c)
  BY <1>5 DEF Removes
<1> QED
  BY <1>1, <1>2, <1>3, <1>4, <1>5

LEMMA CallerHeld ==
  ASSUME TypeOK, NEW c \in Callers, CallBegins(c) \/ CallContinues(c)
  PROVE  HeldKept(c)
BY CallerLocals DEF HeldKept, GuidsHeld, Unindexed, Removing

LEMMA BeginGuids ==
  ASSUME TypeOK, BufInUse, NEW c \in Callers, CallBegins(c)
  PROVE  LeavesGuids(c) \/ Unindexes(c)
<1>1. HeldKept(c)
  BY CallerHeld
<1>2. /\ cpc \in [Callers -> CallerPlaces] /\ cId \in [Callers -> Nat]
      /\ cBuf \in [Callers -> Seq(Nat)]
  BY DEF TypeOK, TypeCallers
<1>3. cpc[c] = "idle" /\ cBuf[c] = << >> /\ GuidsHeld(c) = {}
  <2>1. cpc[c] = "idle"
    BY DEF CallBegins, PushBegin, BatchBegin, RemoveUnindex, GetBegin,
           GetBlockingBegin, ClearBegin, PendingBegin, Close, SetMode, Start,
           CanCall
  <2> QED
    BY <2>1 DEF BufInUse, GuidsHeld, Unindexed, Removing
<1>4. CASE RemoveUnindex(c)
  <2>1. PICK i \in guidIndex :
          guidIndex' = guidIndex \ {i} /\ cId' = [cId EXCEPT ![c] = i]
    BY <1>4 DEF RemoveUnindex
  <2>2. GuidsHeld(c)' = {i}
    BY <1>2, <1>4, <2>1
       DEF RemoveUnindex, Goto, GuidsHeld, Unindexed, Removing
  <2>3. UNCHANGED <<removedGuids, counter>>
    BY <1>4 DEF RemoveUnindex
  <2> QED
    BY <1>1, <1>3, <2>1, <2>2, <2>3 DEF Unindexes
<1>5. CASE ~RemoveUnindex(c)
  <2>1. /\ cpc'[c] \in {"idle", "pushAlloc", "batchAlloc", "get",
                         "getBlocking", "clear", "pendPop"}
        /\ cBuf'[c] = << >> /\ UNCHANGED <<guids, counter>>
    BY <1>2, <1>3, <1>5
       DEF CallBegins, PushBegin, BatchBegin, GetBegin, GetBlockingBegin,
           ClearBegin, PendingBegin, Close, SetMode, Start, Goto
  <2>2. GuidsHeld(c)' = {}
    BY <2>1 DEF GuidsHeld, Unindexed, Removing, Range
  <2> QED
    BY <1>1, <1>3, <2>1, <2>2 DEF LeavesGuids
<1> QED
  BY <1>4, <1>5

LEMMA ContinueGuids ==
  ASSUME TypeOK, NEW c \in Callers, CallContinues(c)
  PROVE  LeavesGuids(c) \/ Issues(c) \/ Indexes(c) \/ Removes(c)
<1>1. HeldKept(c)
  BY CallerHeld
<1>2. /\ cpc \in [Callers -> CallerPlaces] /\ cId \in [Callers -> Nat]
      /\ cBuf \in [Callers -> Seq(Nat)]
  BY DEF TypeOK, TypeCallers
<1> USE DEF GuidsHeld, Unindexed, Removing
<1>3. CASE PushAlloc(c) \/ BatchAlloc(c)
  <2>1. /\ counter' = counter + 1 /\ UNCHANGED guids
        /\ GuidsHeld(c)' = GuidsHeld(c) \cup {counter + 1}
    BY <1>2, <1>3 DEF PushAlloc, BatchAlloc, Goto
  <2> QED
    BY <1>1, <2>1 DEF Issues
<1>4. CASE PushIndex(c)
  <2>1. /\ guidIndex' = guidIndex \cup GuidsHeld(c) /\ GuidsHeld(c)' = {}
        /\ UNCHANGED <<removedGuids, counter>>
    BY <1>2, <1>4 DEF PushIndex, Goto
  <2> QED
    BY <1>1, <2>1 DEF Indexes
<1>5. CASE BatchIndex(c)
  <2>1. /\ guidIndex' = guidIndex \cup GuidsHeld(c) /\ GuidsHeld(c)' = {}
        /\ UNCHANGED <<removedGuids, counter>>
    BY <1>2, <1>5 DEF BatchIndex, Goto, Return
  <2> QED
    BY <1>1, <2>1 DEF Indexes
<1>6. CASE BatchItem(c)
  <2>1. Range(Append(cBuf[c], cId[c])) = Range(cBuf[c]) \cup {cId[c]}
    BY <1>2, AppendRange
  <2>2. GuidsHeld(c)' = GuidsHeld(c) /\ UNCHANGED <<guids, counter>>
    BY <1>2, <1>6, <2>1 DEF BatchItem, Goto
  <2> QED
    BY <1>1, <2>2 DEF LeavesGuids
<1>7. CASE RemoveMark(c)
  <2>1. /\ removedGuids' = removedGuids \cup GuidsHeld(c) /\ GuidsHeld(c)' = {}
        /\ UNCHANGED <<guidIndex, counter>>
    BY <1>2, <1>7 DEF RemoveMark, Goto, Return
  <2> QED
    BY <1>1, <2>1 DEF Removes
<1>8. ASSUME \/ PushItem(c) \/ GetPop(c) \/ GetReturn(c) \/ GetCount(c)
             \/ GetBlockingPop(c) \/ ClearPop(c) \/ ClearReturn(c)
             \/ PendingPop(c) \/ PendingPush(c)
      PROVE  LeavesGuids(c)
  <2> DEFINE silent == {"idle", "pushItem", "get", "getBlocking", "getCount",
                        "clear", "pendPop", "pendPush"}
  <2>1. cpc[c] \in silent /\ cpc'[c] \in silent /\ UNCHANGED <<guids, counter>>
    BY <1>2, <1>8
       DEF PushItem, GetPop, GetReturn, GetCount, GetBlockingPop, PopResult,
           ClearPop, ClearReturn, PendingPop, PendingPush, Goto, Return
  <2>2. GuidsHeld(c)' = GuidsHeld(c)
    BY <2>1
  <2> QED
    BY <1>1, <2>1, <2>2 DEF LeavesGuids
<1> QED
  BY <1>3, <1>4, <1>5, <1>6, <1>7, <1>8 DEF CallContinues

(* Workers read the removed set and write neither. *)
LEMMA WorkerGuids ==
  ASSUME NEW w \in Workers, WorkerStep(w)
  PROVE  UNCHANGED <<guids, counter, removedCount, delivered, callers>>
BY DEF WorkerStep, WorkerPop, WorkerEmpty, WorkerCheck, WorkerEnter,
       WorkerCall, WorkerReturn, WorkerPush, WorkerError, WorkerCount,
       WorkerLeave

LEMMA GuidStep ==
  ASSUME GuidsApart, TypeOK, BufInUse, [Next]_vars
  PROVE  GuidsApart'
<1>1. counter \in Nat
  BY DEF TypeOK, TypeScalars
<1>2. ASSUME NEW c \in Callers, CallBegins(c) \/ CallContinues(c)
      PROVE  GuidsApart'
  BY <1>1, <1>2, BeginGuids, ContinueGuids, GuidMoves
<1>3. CASE UNCHANGED <<guids, counter, callers>>
  BY <1>3 DEF GuidsApart, GuidsHeld, Unindexed, Removing
<1> QED
  BY <1>2, <1>3, WorkerGuids DEF Next, vars

-----------------------------------------------------------------------------
(* Results.                                                                *)

AtResult == {"running", "push"}
Unposted == UNION {InWork(w) : w \in At(AtResult)}
Posted == IF returnsResults THEN Range(ran) \ Unposted ELSE {}
Results == Range(resultQueue) \cup delivered
ResultIds == {r.id : r \in Results}
Failed == {r \in Results : r.error}

(* No two results in the queue are of one item, and none is of an item     *)
(* whose result a caller has.                                              *)
ResultsApart ==
  /\ IsInjective(resultQueue)
  /\ \A r, s \in Range(resultQueue) : r.id = s.id => r = s
  /\ \A r \in Range(resultQueue), d \in delivered : r.id # d.id

(* The kind of the pool is fixed before its first callback, and only a     *)
(* pool that returns results reaches the steps that produce them.          *)
KindFixed ==
  /\ ~workersStarted => ran = << >>
  /\ \A w \in Workers : wpc[w] \in {"push", "err"} => returnsResults

ResultInv ==
  /\ ResultIds = Posted
  /\ Len(resultQueue) + Cardinality(delivered) = Cardinality(Posted)
  /\ ResultsApart /\ KindFixed
  /\ IsFiniteSet(Posted) /\ IsFiniteSet(delivered) /\ IsFiniteSet(Failed)

(* A step that leaves results and runs as they are. *)
LEMMA ResultsLeft ==
  ASSUME ResultInv, KindFixed', UNCHANGED <<resultQueue, delivered, Posted>>
  PROVE  ResultInv'
BY DEF ResultInv, ResultsApart, ResultIds, Results, Failed

(* A result that goes from the queue to a caller. *)
LEMMA ResultTaken ==
  ASSUME ResultInv, KindFixed', TypeOK, Posted' = Posted,
         resultQueue # << >>, resultQueue' = Tail(resultQueue),
         delivered' = delivered \cup {Head(resultQueue)}
  PROVE  /\ ResultInv'
         /\ Results' = Results
         /\ Cardinality(delivered') = Cardinality(delivered) + 1
<1> DEFINE r == Head(resultQueue)
<1>1. resultQueue \in Seq([id : Nat, error : BOOLEAN])
  BY DEF TypeOK, TypeQueues
<1>2. /\ Range(resultQueue) = Range(Tail(resultQueue)) \cup {r}
      /\ r \notin Range(Tail(resultQueue)) /\ IsInjective(Tail(resultQueue))
  BY <1>1, TailRange DEF ResultInv, ResultsApart
<1>3. Len(resultQueue') = Len(resultQueue) - 1 /\ Len(resultQueue) \in Nat
  BY <1>1
<1>4. r \notin delivered
  BY <1>2 DEF ResultInv, ResultsApart
<1>5. /\ Cardinality(delivered \cup {r}) = Cardinality(delivered) + 1
      /\ IsFiniteSet(delivered \cup {r}) /\ Cardinality(delivered) \in Nat
  BY <1>4, FS_AddElement, FS_CardinalityType DEF ResultInv
<1>6. ResultsApart'
  BY <1>2 DEF ResultInv, ResultsApart
<1>7. Results' = Results
  BY <1>2 DEF Results
<1>8. ResultIds' = ResultIds /\ Failed' = Failed
  BY <1>7 DEF ResultIds, Failed
<1> HIDE DEF r
<1>9. Len(resultQueue') + Cardinality(delivered') = Cardinality(Posted')
  BY <1>3, <1>5 DEF ResultInv, r
<1> QED
  BY <1>5, <1>6, <1>7, <1>8, <1>9 DEF ResultInv, r

(* A result that a worker posts. *)
LEMMA ResultPosted ==
  ASSUME ResultInv, KindFixed', TypeOK,
         NEW i \in Nat, NEW e \in BOOLEAN, i \notin Posted,
         Posted' = Posted \cup {i}, delivered' = delivered,
         resultQueue' = Append(resultQueue, [id |-> i, error |-> e])
  PROVE  /\ ResultInv'
         /\ Cardinality(Failed') = Cardinality(Failed) + (IF e THEN 1 ELSE 0)
<1> DEFINE R == [id : Nat, error : BOOLEAN]
           r == [id |-> i, error |-> e]
<1>1. /\ resultQueue \in Seq(R) /\ r \in R /\ r.id = i /\ r.error = e
      /\ resultQueue' = Append(resultQueue, r)
  BY DEF TypeOK, TypeQueues
<1> HIDE DEF r, R
<1>2. \A s \in Results : s.id # i
  BY DEF ResultInv, ResultIds
<1>3. /\ Range(resultQueue') = Range(resultQueue) \cup {r}
      /\ IsInjective(resultQueue')
  <2>1. r \notin Range(resultQueue)
    BY <1>1, <1>2 DEF Results
  <2>2. /\ Range(Append(resultQueue, r)) = Range(resultQueue) \cup {r}
        /\ IsInjective(Append(resultQueue, r))
    BY <1>1, <2>1, AppendRange DEF ResultInv, ResultsApart
  <2> QED
    BY <1>1, <2>2
<1>4. ResultsApart'
  BY <1>1, <1>2, <1>3 DEF ResultInv, ResultsApart, Results
<1>5. Results' = Results \cup {r} /\ r \notin Results
  BY <1>1, <1>2, <1>3 DEF Results
<1>6. ResultIds' = Posted'
  BY <1>1, <1>5 DEF ResultInv, ResultIds
<1>7. /\ Cardinality(Posted \cup {i}) = Cardinality(Posted) + 1
      /\ IsFiniteSet(Posted \cup {i}) /\ Cardinality(Posted) \in Nat
  BY FS_AddElement, FS_CardinalityType DEF ResultInv
<1>8. Len(resultQueue') = Len(resultQueue) + 1 /\ Len(resultQueue) \in Nat
  BY <1>1 DEF r
<1>9. Cardinality(delivered) \in Nat
  BY FS_CardinalityType DEF ResultInv
<1>10. Len(resultQueue') + Cardinality(delivered') = Cardinality(Posted')
  BY <1>7, <1>8, <1>9 DEF ResultInv
<1>11. /\ IsFiniteSet(Failed')
       /\ Cardinality(Failed') = Cardinality(Failed) + (IF e THEN 1 ELSE 0)
  <2>1. IsFiniteSet(Failed) /\ Cardinality(Failed) \in Nat /\ r \notin Failed
    BY <1>5, FS_CardinalityType DEF ResultInv, Failed
  <2>2. CASE e
    <3>1. Failed' = Failed \cup {r}
      BY <1>1, <1>5, <2>2 DEF Failed
    <3> QED
      BY <2>1, <2>2, <3>1, FS_AddElement
  <2>3. CASE ~e
    <3>1. Failed' = Failed
      BY <1>1, <1>5, <2>3 DEF Failed
    <3> QED
      BY <2>1, <2>3, <3>1
  <2> QED
    BY <2>2, <2>3
<1> QED
  BY <1>4, <1>6, <1>7, <1>10, <1>11 DEF ResultInv

(* Items whose result is still to come, when one worker moved.             *)
LEMMA UnpostedIs ==
  /\ Unposted = {wItem[w] : w \in At(AtResult)}
  /\ Unposted' = {wItem'[w] : w \in At(AtResult)'}
<1>1. \A w \in At(AtResult) : InWork(w) = {wItem[w]}
  BY DEF At, AtResult, InWork, Committed
<1>2. \A w \in At(AtResult)' : InWork(w)' = {wItem'[w]}
  BY DEF At, AtResult, InWork, Committed
<1>3. Unposted' = UNION {InWork(w)' : w \in At(AtResult)'}
  BY DEF Unposted
<1> QED
  BY <1>1, <1>2, <1>3 DEF Unposted

(* The number of workers at given places, when one worker moved.           *)
LEMMA AtMove ==
  ASSUME TypeOK, NEW w \in Workers, NEW place, WorkerGoto(w, place),
         NEW places
  PROVE  /\ At(places)' = IF place \in places THEN At(places) \cup {w}
                                               ELSE At(places) \ {w}
         /\ wpc[w] \in places /\ place \in places
              => Cardinality(At(places)') = Cardinality(At(places))
         /\ wpc[w] \notin places /\ place \notin places
              => Cardinality(At(places)') = Cardinality(At(places))
         /\ wpc[w] \notin places /\ place \in places
              => Cardinality(At(places)') = Cardinality(At(places)) + 1
         /\ wpc[w] \in places /\ place \notin places
              => Cardinality(At(places)') = Cardinality(At(places)) - 1
<1>1. At(places)' = IF place \in places THEN At(places) \cup {w}
                                        ELSE At(places) \ {w}
  BY DEF At, WorkerGoto, TypeOK, TypeWorkers
<1>2. IsFiniteSet(At(places)) /\ Cardinality(At(places)) \in Nat
  BY AtFinite
<1>3. w \in At(places) <=> wpc[w] \in places
  BY DEF At
<1>4. CASE w \in At(places)
  <2>1. At(places) \cup {w} = At(places)
    BY <1>4
  <2>2. Cardinality(At(places) \ {w}) = Cardinality(At(places)) - 1
    BY <1>2, <1>4, FS_RemoveElement
  <2> QED
    BY <1>1, <1>3, <1>4, <2>1, <2>2
<1>5. CASE w \notin At(places)
  <2>1. At(places) \ {w} = At(places)
    BY <1>5
  <2>2. Cardinality(At(places) \cup {w}) = Cardinality(At(places)) + 1
    BY <1>2, <1>5, FS_AddElement
  <2> QED
    BY <1>1, <1>3, <1>5, <2>1, <2>2
<1> QED
  BY <1>4, <1>5

-----------------------------------------------------------------------------
(* The statistics of the workers.                                          *)

Uncounted == {"running", "push", "err", "count"}
ProcessedExact ==
  processedCount + Cardinality(At(Uncounted)) = Len(ran)
ErrorsExact == errorCount + Cardinality(At({"err"})) = Cardinality(Failed)

(* The item of a worker whose callback has begun, and of one whose has not.*)
LEMMA ItemOfWorker ==
  ASSUME ItemInv, NEW w \in Workers, wpc[w] \in Committed
  PROVE  /\ wpc[w] \in {"enter", "call"} => wItem[w] \notin Range(ran)
         /\ wpc[w] \notin {"enter", "call"} => wItem[w] \in Range(ran)
         /\ \A v \in At(AtResult) \ {w} : wItem[v] # wItem[w]
<1>1. InWork(w) = {wItem[w]}
  BY DEF InWork
<1>2. \A v \in At(AtResult) : v \in Workers /\ InWork(v) = {wItem[v]}
  BY DEF InWork, At, AtResult, Committed
<1> QED
  BY <1>1, <1>2
     DEF ItemInv, Apart, WorkApart, StartedRan, Unstarted, Committed

(* A step of a worker that neither begins a callback nor posts a result.   *)
LEMMA PostedLeft ==
  ASSUME TypeOK, NEW w \in Workers, NEW place, WorkerGoto(w, place),
         wpc[w] \in AtResult <=> place \in AtResult,
         wpc[w] \in AtResult => wItem'[w] = wItem[w],
         \A v \in Workers \ {w} : wItem'[v] = wItem[v],
         UNCHANGED <<ran, returnsResults>>
  PROVE  Posted' = Posted
<1>1. At(AtResult)' = At(AtResult)
  BY DEF At, AtResult, WorkerGoto, TypeOK, TypeWorkers
<1>2. \A v \in At(AtResult) : wItem'[v] = wItem[v]
  BY DEF At
<1>3. Unposted' = Unposted
  BY <1>1, <1>2, UnpostedIs
<1> QED
  BY <1>3 DEF Posted

LEMMA KindStep ==
  ASSUME KindFixed, TypeInv, [Next]_vars
  PROVE  KindFixed'
<1>0. wpc \in [Workers -> WorkerPlaces]
  BY DEF TypeInv, TypeOK, TypeWorkers
<1>1. ASSUME NEW c \in Callers, Start(c) PROVE KindFixed'
  <2>1. \A w \in Workers : wpc'[w] \in {"none", "pop"}
    BY <1>0, <1>1 DEF Start, TypeInv, PoolOnce
  <2>2. workersStarted'
    BY <1>1 DEF Start
  <2> QED
    BY <2>1, <2>2 DEF KindFixed
<1>2. ASSUME NEW c \in Callers, CallBegins(c) \/ CallContinues(c), ~Start(c)
      PROVE  KindFixed'
  <2>1. UNCHANGED <<workersStarted, ran, wpc, returnsResults>>
    BY <1>2
       DEF CallBegins, CallContinues, PushBegin, BatchBegin, RemoveUnindex,
           GetBegin, GetBlockingBegin, ClearBegin, PendingBegin, Close,
           SetMode, PushAlloc, PushIndex, PushItem, BatchAlloc, BatchItem,
           BatchIndex, RemoveMark, GetPop, GetReturn, GetCount,
           GetBlockingPop, PopResult, ClearPop, ClearReturn, PendingPop,
           PendingPush
  <2> QED
    BY <2>1 DEF KindFixed
<1>3. ASSUME NEW w \in Workers, WorkerStep(w) PROVE KindFixed'
  <2>1. wpc[w] # "none"
    BY <1>3 DEF WorkerStep, WorkerPop, WorkerEmpty, WorkerCheck, WorkerEnter,
                WorkerCall, WorkerReturn, WorkerPush, WorkerError,
                WorkerCount, WorkerLeave
  <2>2. UNCHANGED <<workersStarted, returnsResults>>
    BY <1>3 DEF WorkerStep, WorkerPop, WorkerEmpty, WorkerCheck, WorkerEnter,
                WorkerCall, WorkerReturn, WorkerPush, WorkerError,
                WorkerCount, WorkerLeave
  <2>3. workersStarted
    BY <2>1 DEF TypeInv, PoolOnce
  <2>4. \A v \in Workers \ {w} : wpc'[v] = wpc[v]
    BY <1>0, <1>3
       DEF WorkerStep, WorkerPop, WorkerEmpty, WorkerCheck, WorkerEnter,
           WorkerCall, WorkerReturn, WorkerPush, WorkerError, WorkerCount,
           WorkerLeave, WorkerGoto
  <2>5. wpc'[w] \in {"push", "err"} => returnsResults
    BY <1>0, <1>3
       DEF WorkerStep, WorkerPop, WorkerEmpty, WorkerCheck, WorkerEnter,
           WorkerCall, WorkerReturn, WorkerPush, WorkerError, WorkerCount,
           WorkerLeave, WorkerGoto, KindFixed
  <2> QED
    BY <2>2, <2>3, <2>4, <2>5 DEF KindFixed
<1>4. CASE UNCHANGED vars
  BY <1>4 DEF KindFixed, vars
<1> QED
  BY <1>1, <1>2, <1>3, <1>4 DEF Next

LEMMA WorkerCounts ==
  ASSUME SafeInv, ResultInv, KindFixed', ProcessedExact, ErrorsExact,
         NEW w \in Workers, WorkerStep(w)
  PROVE  ResultInv' /\ ProcessedExact' /\ ErrorsExact'
<1> USE DEF ProcessedExact, ErrorsExact
<1>1. ItemInv /\ TypeOK /\ KindFixed
  BY DEF SafeInv, TypeInv, ResultInv
<1>2. /\ wpc \in [Workers -> WorkerPlaces] /\ wItem \in [Workers -> Nat]
      /\ wErr \in [Workers -> BOOLEAN]
      /\ processedCount \in Nat /\ errorCount \in Nat /\ Len(ran) \in Nat
      /\ ran \in Seq(Nat)
  BY <1>1 DEF TypeOK, TypeWorkers, TypeScalars, TypeQueues
<1>3. /\ Cardinality(At(Uncounted)) \in Nat /\ Cardinality(At({"err"})) \in Nat
      /\ Cardinality(Failed) \in Nat
  BY AtFinite, FS_CardinalityType DEF ResultInv
<1>4. ASSUME NEW place, WorkerGoto(w, place)
      PROVE  /\ wpc[w] \in Uncounted /\ place \in Uncounted
                  => Cardinality(At(Uncounted)') = Cardinality(At(Uncounted))
             /\ wpc[w] \notin Uncounted /\ place \notin Uncounted
                  => Cardinality(At(Uncounted)') = Cardinality(At(Uncounted))
             /\ wpc[w] \notin Uncounted /\ place \in Uncounted
                  => Cardinality(At(Uncounted)') = Cardinality(At(Uncounted)) + 1
             /\ wpc[w] \in Uncounted /\ place \notin Uncounted
                  => Cardinality(At(Uncounted)') = Cardinality(At(Uncounted)) - 1
  BY <1>1, <1>4, AtMove DEF Uncounted
<1>5. ASSUME NEW place, WorkerGoto(w, place)
      PROVE  /\ wpc[w] # "err" /\ place # "err"
                  => Cardinality(At({"err"})') = Cardinality(At({"err"}))
             /\ wpc[w] # "err" /\ place = "err"
                  => Cardinality(At({"err"})') = Cardinality(At({"err"})) + 1
             /\ wpc[w] = "err" /\ place # "err"
                  => Cardinality(At({"err"})') = Cardinality(At({"err"})) - 1
  BY <1>1, <1>5, AtMove
<1>6. ASSUME UNCHANGED <<resultQueue, delivered, Posted>>
      PROVE  ResultInv' /\ Failed' = Failed
  BY <1>6, ResultsLeft DEF Failed, Results
<1>7. CASE WorkerCall(w)
  <2>1. /\ wpc[w] = "call" /\ WorkerGoto(w, "running")
        /\ ran' = Append(ran, wItem[w])
        /\ UNCHANGED <<resultQueue, delivered, returnsResults, wItem,
                       processedCount, errorCount>>
    BY <1>7 DEF WorkerCall
  <2>2. Range(ran') = Range(ran) \cup {wItem[w]} /\ Len(ran') = Len(ran) + 1
    BY <1>2, <2>1, AppendRange
  <2>3. Unposted' = Unposted \cup {wItem[w]}
    <3>1. At(AtResult)' = At(AtResult) \cup {w}
      BY <1>2, <2>1 DEF At, AtResult, WorkerGoto
    <3> QED
      BY <2>1, <3>1, UnpostedIs
  <2>4. wItem[w] \notin Range(ran)
    BY <1>1, <2>1, ItemOfWorker DEF Committed
  <2>5. Posted' = Posted
    BY <2>1, <2>2, <2>3, <2>4 DEF Posted
  <2>6. /\ Cardinality(At(Uncounted)') = Cardinality(At(Uncounted)) + 1
        /\ Cardinality(At({"err"})') = Cardinality(At({"err"}))
    BY <1>4, <1>5, <2>1 DEF Uncounted
  <2> QED
    BY <1>2, <1>3, <1>6, <2>1, <2>2, <2>5, <2>6
<1>8. CASE WorkerPush(w)
  <2>1. /\ wpc[w] = "push" /\ UNCHANGED <<delivered, ran, returnsResults, wItem,
                                          processedCount, errorCount>>
        /\ resultQueue' =
             Append(resultQueue, [id |-> wItem[w], error |-> wErr[w]])
        /\ WorkerGoto(w, IF wErr[w] THEN "err" ELSE "count")
    BY <1>8 DEF WorkerPush
  <2>2. At(AtResult)' = At(AtResult) \ {w} /\ w \in At(AtResult)
    BY <1>2, <2>1 DEF At, AtResult, WorkerGoto
  <2>3. /\ wItem[w] \in Range(ran)
        /\ \A v \in At(AtResult) \ {w} : wItem[v] # wItem[w]
    BY <1>1, <2>1, ItemOfWorker DEF Committed
  <2>4. Unposted' = Unposted \ {wItem[w]} /\ wItem[w] \in Unposted
    BY <2>1, <2>2, <2>3, UnpostedIs
  <2>5. Posted' = Posted \cup {wItem[w]} /\ wItem[w] \notin Posted
    BY <1>1, <2>1, <2>3, <2>4 DEF Posted, KindFixed
  <2>6. /\ ResultInv'
        /\ Cardinality(Failed') = Cardinality(Failed) + (IF wErr[w] THEN 1 ELSE 0)
    BY <1>1, <1>2, <2>1, <2>5, ResultPosted
  <2>7. CASE wErr[w]
    BY <1>2, <1>3, <1>4, <1>5, <2>1, <2>6, <2>7 DEF Uncounted
  <2>8. CASE ~wErr[w]
    <3>1. WorkerGoto(w, "count") /\ Cardinality(Failed') = Cardinality(Failed)
      BY <1>3, <2>1, <2>6, <2>8
    <3>2. /\ Cardinality(At(Uncounted)') = Cardinality(At(Uncounted))
          /\ Cardinality(At({"err"})') = Cardinality(At({"err"}))
      BY <1>4, <1>5, <2>1, <3>1 DEF Uncounted
    <3> QED
      BY <1>2, <1>3, <2>1, <2>6, <3>1, <3>2
  <2> QED
    BY <2>7, <2>8
<1>9. CASE WorkerReturn(w)
  <2>1. /\ wpc[w] = "running"
        /\ UNCHANGED <<resultQueue, delivered, ran, returnsResults, wItem,
                       processedCount, errorCount>>
    BY <1>9 DEF WorkerReturn
  <2>2. CASE returnsResults
    <3>1. WorkerGoto(w, "push")
      BY <1>9, <2>2 DEF WorkerReturn
    <3>2. Posted' = Posted
      BY <1>1, <2>1, <3>1, PostedLeft DEF AtResult
    <3> QED
      BY <1>2, <1>3, <1>4, <1>5, <1>6, <2>1, <3>1, <3>2 DEF Uncounted
  <2>3. CASE ~returnsResults
    <3>1. WorkerGoto(w, "count")
      BY <1>9, <2>3 DEF WorkerReturn
    <3>2. Posted' = Posted
      BY <2>1, <2>3 DEF Posted
    <3> QED
      BY <1>2, <1>3, <1>4, <1>5, <1>6, <2>1, <3>1, <3>2 DEF Uncounted
  <2> QED
    BY <2>2, <2>3
<1>10. CASE WorkerError(w)
  <2>1. /\ wpc[w] = "err" /\ WorkerGoto(w, "count")
        /\ errorCount' = errorCount + 1
        /\ UNCHANGED <<resultQueue, delivered, ran, returnsResults, wItem,
                       processedCount>>
    BY <1>10 DEF WorkerError
  <2>2. Posted' = Posted
    BY <1>1, <2>1, PostedLeft DEF AtResult
  <2>3. /\ Cardinality(At(Uncounted)') = Cardinality(At(Uncounted))
        /\ Cardinality(At({"err"})') = Cardinality(At({"err"})) - 1
    BY <1>4, <1>5, <2>1 DEF Uncounted
  <2> QED
    BY <1>2, <1>3, <1>6, <2>1, <2>2, <2>3
<1>11. CASE WorkerCount(w)
  <2>1. /\ wpc[w] = "count" /\ WorkerGoto(w, "leave")
        /\ processedCount' = processedCount + 1
        /\ UNCHANGED <<resultQueue, delivered, ran, returnsResults, wItem,
                       errorCount>>
    BY <1>11 DEF WorkerCount
  <2>2. Posted' = Posted
    BY <1>1, <2>1, PostedLeft DEF AtResult
  <2> QED
    BY <1>2, <1>3, <1>4, <1>5, <1>6, <2>1, <2>2 DEF Uncounted
<1>12. ASSUME \/ WorkerPop(w) \/ WorkerEmpty(w) \/ WorkerCheck(w)
              \/ WorkerEnter(w) \/ WorkerLeave(w)
       PROVE  ResultInv' /\ ProcessedExact' /\ ErrorsExact'
  <2> DEFINE quiet == {"pop", "empty", "check", "enter", "call", "leave", "exit"}
  <2>1. PICK place \in quiet : WorkerGoto(w, place)
    BY <1>12 DEF WorkerPop, WorkerEmpty, WorkerCheck, WorkerEnter, WorkerLeave
  <2>2. wpc[w] \in quiet
    BY <1>12 DEF WorkerPop, WorkerEmpty, WorkerCheck, WorkerEnter, WorkerLeave
  <2>3. /\ UNCHANGED <<resultQueue, delivered, ran, returnsResults,
                       processedCount, errorCount>>
        /\ \A v \in Workers \ {w} : wItem'[v] = wItem[v]
    BY <1>2, <1>12
       DEF WorkerPop, WorkerEmpty, WorkerCheck, WorkerEnter, WorkerLeave
  <2>4. Posted' = Posted
    BY <1>1, <2>1, <2>2, <2>3, PostedLeft DEF AtResult
  <2> QED
    BY <1>2, <1>3, <1>4, <1>5, <1>6, <2>1, <2>2, <2>3, <2>4 DEF Uncounted
<1> QED
  BY <1>7, <1>8, <1>9, <1>10, <1>11, <1>12 DEF WorkerStep

-----------------------------------------------------------------------------
(* The count of results handed out and of removals.                        *)

Counting == {c \in Callers : cpc[c] = "getCount"}

RemovedExact ==
  /\ IsFiniteSet(removedGuids)
  /\ removedCount + Cardinality(Counting)
       = Cardinality(delivered) + Cardinality(removedGuids)

LEMMA CountingFinite ==
  IsFiniteSet(Counting) /\ Cardinality(Counting) \in Nat
<1>1. Counting \subseteq Callers
  BY DEF Counting
<1> QED
  BY <1>1, CallersAssumption, FS_Subset, FS_CardinalityType

LEMMA CallerCounting ==
  ASSUME TypeOK, NEW c \in Callers, CallBegins(c) \/ CallContinues(c)
  PROVE  Counting' = IF cpc'[c] = "getCount" THEN Counting \cup {c}
                                             ELSE Counting \ {c}
<1>1. \A d \in Callers \ {c} : cpc'[d] = cpc[d]
  BY CallerLocals
<1> QED
  BY <1>1 DEF Counting

(* A call that takes a result, or one that takes none. *)
LEMMA CallerResults ==
  ASSUME TypeInv, ResultInv, KindFixed', NEW c \in Callers,
         CallBegins(c) \/ CallContinues(c)
  PROVE  /\ ResultInv' /\ Results' = Results
         /\ GetPop(c) \/ GetBlockingPop(c) =>
              Cardinality(delivered') = Cardinality(delivered) + 1
<1>0. TypeOK /\ wpc \in [Workers -> WorkerPlaces]
  BY DEF TypeInv, TypeOK, TypeWorkers
<1>1. ran' = ran /\ wItem' = wItem
  BY DEF CallBegins, CallContinues, PushBegin, BatchBegin, RemoveUnindex,
         GetBegin, GetBlockingBegin, ClearBegin, PendingBegin, Close, SetMode,
         Start, PushAlloc, PushIndex, PushItem, BatchAlloc, BatchItem,
         BatchIndex, RemoveMark, GetPop, GetReturn, GetCount, GetBlockingPop,
         PopResult, ClearPop, ClearReturn, PendingPop, PendingPush
<1>2. Posted' = Posted
  <2>1. CASE Start(c)
    <3>1. ran = << >>
      BY <2>1 DEF Start, ResultInv, KindFixed
    <3>2. Range(ran) = {}
      BY <3>1 DEF Range
    <3> QED
      BY <1>1, <3>2 DEF Posted
  <2>2. CASE ~Start(c)
    <3>1. UNCHANGED <<wpc, returnsResults>>
      BY <2>2
         DEF CallBegins, CallContinues, PushBegin, BatchBegin, RemoveUnindex,
             GetBegin, GetBlockingBegin, ClearBegin, PendingBegin, Close,
             SetMode, PushAlloc, PushIndex, PushItem, BatchAlloc, BatchItem,
             BatchIndex, RemoveMark, GetPop, GetReturn, GetCount,
             GetBlockingPop, PopResult, ClearPop, ClearReturn, PendingPop,
             PendingPush
    <3> QED
      BY <1>1, <3>1 DEF Posted, Unposted, InWork, At
  <2> QED
    BY <2>1, <2>2
<1>3. CASE GetPop(c) \/ GetBlockingPop(c)
  <2>1. /\ resultQueue # << >> /\ resultQueue' = Tail(resultQueue)
        /\ delivered' = delivered \cup {Head(resultQueue)}
    BY <1>3 DEF GetPop, GetBlockingPop, PopResult
  <2> QED
    BY <1>0, <1>2, <2>1, ResultTaken
<1>4. CASE ~GetPop(c) /\ ~GetBlockingPop(c)
  <2>1. UNCHANGED <<resultQueue, delivered>>
    BY <1>4
       DEF CallBegins, CallContinues, PushBegin, BatchBegin, RemoveUnindex,
           GetBegin, GetBlockingBegin, ClearBegin, PendingBegin, Close,
           SetMode, Start, PushAlloc, PushIndex, PushItem, BatchAlloc,
           BatchItem, BatchIndex, RemoveMark, GetReturn, GetCount, ClearPop,
           ClearReturn, PendingPop, PendingPush
  <2> QED
    BY <1>2, <1>4, <2>1, ResultsLeft DEF Results
<1> QED
  BY <1>3, <1>4

LEMMA CallerRemoved ==
  ASSUME TypeOK, RemovedExact, GuidsApart, ResultInv, ResultInv',
         NEW c \in Callers, CallBegins(c) \/ CallContinues(c),
         GetPop(c) \/ GetBlockingPop(c) =>
           Cardinality(delivered') = Cardinality(delivered) + 1
  PROVE  RemovedExact'
<1> USE DEF RemovedExact
<1>1. /\ cpc \in [Callers -> CallerPlaces] /\ cId \in [Callers -> Nat]
      /\ removedCount \in Nat
  BY DEF TypeOK, TypeCallers, TypeScalars
<1>2. /\ Cardinality(Counting) \in Nat /\ Cardinality(delivered) \in Nat
      /\ Cardinality(removedGuids) \in Nat /\ IsFiniteSet(Counting)
  BY CountingFinite, FS_CardinalityType DEF ResultInv
<1>3. Counting' = IF cpc'[c] = "getCount" THEN Counting \cup {c}
                                          ELSE Counting \ {c}
  BY CallerCounting
<1>4. CASE GetPop(c) \/ GetBlockingPop(c)
  <2>1. /\ cpc[c] # "getCount" /\ cpc'[c] = "getCount"
        /\ UNCHANGED <<removedCount, removedGuids>>
    BY <1>1, <1>4 DEF GetPop, GetBlockingPop, PopResult, Goto
  <2>2. Cardinality(Counting') = Cardinality(Counting) + 1
    <3>1. c \notin Counting
      BY <2>1 DEF Counting
    <3> QED
      BY <1>2, <1>3, <2>1, <3>1, FS_AddElement
  <2> QED
    BY <1>1, <1>2, <1>4, <2>1, <2>2
<1>5. CASE GetCount(c)
  <2>1. /\ cpc[c] = "getCount" /\ cpc'[c] # "getCount"
        /\ removedCount' = removedCount + 1
        /\ UNCHANGED <<delivered, removedGuids>>
    BY <1>1, <1>5 DEF GetCount, Goto, Return
  <2>2. Cardinality(Counting') = Cardinality(Counting) - 1
    <3>1. c \in Counting
      BY <2>1 DEF Counting
    <3> QED
      BY <1>2, <1>3, <2>1, <3>1, FS_RemoveElement
  <2> QED
    BY <1>1, <1>2, <2>1, <2>2
<1>6. CASE RemoveMark(c)
  <2>1. /\ cpc[c] = "removeMark" /\ cpc'[c] # "getCount"
        /\ removedCount' = removedCount + 1
        /\ removedGuids' = removedGuids \cup {cId[c]}
        /\ UNCHANGED delivered
    BY <1>1, <1>6 DEF RemoveMark, Goto, Return
  <2>2. Counting' = Counting
    BY <1>3, <2>1 DEF Counting
  <2>3. cId[c] \notin removedGuids
    BY <2>1 DEF GuidsApart, GuidsHeld, Removing
  <2>4. /\ IsFiniteSet(removedGuids')
        /\ Cardinality(removedGuids') = Cardinality(removedGuids) + 1
    BY <2>1, <2>3, FS_AddElement
  <2> QED
    BY <1>1, <1>2, <2>1, <2>2, <2>4
<1>7. ASSUME ~GetPop(c), ~GetBlockingPop(c), ~GetCount(c), ~RemoveMark(c)
      PROVE  RemovedExact'
  <2>1. /\ cpc[c] # "getCount" /\ cpc'[c] # "getCount"
        /\ UNCHANGED <<removedCount, delivered, removedGuids>>
    BY <1>1, <1>7
       DEF CallBegins, CallContinues, CanCall, Goto, Return, PushBegin,
           BatchBegin, RemoveUnindex, GetBegin, GetBlockingBegin, ClearBegin,
           PendingBegin, Close, SetMode, Start, PushAlloc, PushIndex,
           PushItem, BatchAlloc, BatchItem, BatchIndex, GetReturn, ClearPop,
           ClearReturn, PendingPop, PendingPush
  <2>2. Counting' = Counting
    BY <1>3, <2>1 DEF Counting
  <2> QED
    BY <2>1, <2>2
<1> QED
  BY <1>4, <1>5, <1>6, <1>7

-----------------------------------------------------------------------------
CountInv ==
  /\ SafeInv /\ GuidsApart /\ ResultInv
  /\ ProcessedExact /\ ErrorsExact /\ RemovedExact

LEMMA InitCounts == Init => CountInv
<1> SUFFICES ASSUME Init PROVE CountInv
  OBVIOUS
<1>1. SafeInv
  BY InitSafe
<1> USE DEF Init
<1>2. \A c \in Callers : GuidsHeld(c) = {}
  BY DEF GuidsHeld, Unindexed, Removing
<1>3. GuidsApart
  BY <1>2 DEF GuidsApart
<1>4. Range(<< >>) = {} /\ Len(<< >>) = 0 /\ IsInjective(<< >>)
  BY DEF Range, IsInjective
<1>5. /\ At(Uncounted) = {} /\ At({"err"}) = {} /\ At(AtResult) = {}
      /\ Counting = {}
  BY DEF At, Uncounted, AtResult, Counting
<1>6. Results = {} /\ ResultIds = {} /\ Failed = {} /\ Posted = {}
  BY <1>4 DEF Results, ResultIds, Failed, Posted
<1>7. IsFiniteSet({}) /\ Cardinality({}) = 0
  BY FS_EmptySet
<1>8. ResultsApart /\ KindFixed
  BY <1>4 DEF ResultsApart, KindFixed
<1>9. ResultInv
  BY <1>4, <1>6, <1>7, <1>8 DEF ResultInv
<1>10. ProcessedExact /\ ErrorsExact
  <2>1. processedCount = 0 /\ errorCount = 0 /\ Len(ran) = 0
    BY <1>4
  <2>2. /\ Cardinality(At(Uncounted)) = 0 /\ Cardinality(At({"err"})) = 0
        /\ Cardinality(Failed) = 0
    BY <1>5, <1>6, <1>7
  <2> HIDE DEF Init
  <2> QED
    BY <2>1, <2>2 DEF ProcessedExact, ErrorsExact
<1>11. RemovedExact
  BY <1>5, <1>7 DEF RemovedExact
<1> QED
  BY <1>1, <1>3, <1>9, <1>10, <1>11 DEF CountInv

LEMMA CountStep == CountInv /\ [Next]_vars => CountInv'
<1> SUFFICES ASSUME CountInv, [Next]_vars PROVE CountInv'
  OBVIOUS
<1>1. SafeInv /\ TypeInv /\ TypeOK /\ BufInUse
  BY DEF CountInv, SafeInv, TypeInv
<1>2. SafeInv' /\ GuidsApart' /\ KindFixed'
  BY <1>1, SafeStep, GuidStep, KindStep DEF CountInv, ResultInv
<1>3. ASSUME NEW c \in Callers, CallBegins(c) \/ CallContinues(c)
      PROVE  ResultInv' /\ ProcessedExact' /\ ErrorsExact' /\ RemovedExact'
  <2>1. /\ ResultInv' /\ Results' = Results
        /\ GetPop(c) \/ GetBlockingPop(c) =>
             Cardinality(delivered') = Cardinality(delivered) + 1
    BY <1>1, <1>2, <1>3, CallerResults DEF CountInv
  <2>2. RemovedExact'
    BY <1>1, <1>3, <2>1, CallerRemoved DEF CountInv
  <2>3. UNCHANGED <<processedCount, errorCount, ran>>
    BY <1>3
       DEF CallBegins, CallContinues, PushBegin, BatchBegin, RemoveUnindex,
           GetBegin, GetBlockingBegin, ClearBegin, PendingBegin, Close,
           SetMode, Start, PushAlloc, PushIndex, PushItem, BatchAlloc,
           BatchItem, BatchIndex, RemoveMark, GetPop, GetReturn, GetCount,
           GetBlockingPop, PopResult, ClearPop, ClearReturn, PendingPop,
           PendingPush
  <2>4. At(Uncounted)' = At(Uncounted) /\ At({"err"})' = At({"err"})
    <3>1. CASE Start(c)
      <4>1. \A w \in Workers : wpc[w] = "none" /\ wpc'[w] \in {"none", "pop"}
        BY <1>1, <3>1 DEF Start, TypeInv, PoolOnce, TypeOK, TypeWorkers
      <4> QED
        BY <4>1 DEF At, Uncounted
    <3>2. CASE ~Start(c)
      <4>1. wpc' = wpc
        BY <1>3, <3>2
           DEF CallBegins, CallContinues, PushBegin, BatchBegin,
               RemoveUnindex, GetBegin, GetBlockingBegin, ClearBegin,
               PendingBegin, Close, SetMode, PushAlloc, PushIndex, PushItem,
               BatchAlloc, BatchItem, BatchIndex, RemoveMark, GetPop,
               GetReturn, GetCount, GetBlockingPop, PopResult, ClearPop,
               ClearReturn, PendingPop, PendingPush
      <4> QED
        BY <4>1 DEF At, Uncounted
    <3> QED
      BY <3>1, <3>2
  <2>5. Failed' = Failed
    BY <2>1 DEF Failed
  <2> QED
    BY <2>1, <2>2, <2>3, <2>4, <2>5 DEF CountInv, ProcessedExact, ErrorsExact
<1>4. ASSUME NEW w \in Workers, WorkerStep(w)
      PROVE  ResultInv' /\ ProcessedExact' /\ ErrorsExact' /\ RemovedExact'
  <2>1. ResultInv' /\ ProcessedExact' /\ ErrorsExact'
    BY <1>1, <1>2, <1>4, WorkerCounts DEF CountInv
  <2>2. UNCHANGED <<removedCount, removedGuids, delivered, cpc>>
    BY <1>4, WorkerGuids
  <2> QED
    BY <2>1, <2>2 DEF CountInv, RemovedExact, Counting
<1>5. ASSUME UNCHANGED vars
      PROVE  ResultInv' /\ ProcessedExact' /\ ErrorsExact' /\ RemovedExact'
  <2>1. UNCHANGED <<Posted, Results, resultQueue, delivered>>
    BY <1>5 DEF Posted, Unposted, InWork, At, Results, vars
  <2>2. ResultInv' /\ Failed' = Failed
    BY <1>2, <2>1, ResultsLeft DEF CountInv, Failed
  <2>3. UNCHANGED <<At(Uncounted), At({"err"}), Counting>>
    BY <1>5 DEF At, Uncounted, Counting, vars
  <2> QED
    BY <1>5, <2>2, <2>3
       DEF CountInv, ProcessedExact, ErrorsExact, RemovedExact, vars
<1>6. ResultInv' /\ ProcessedExact' /\ ErrorsExact' /\ RemovedExact'
  BY <1>3, <1>4, <1>5, <1>2 DEF Next
<1> QED
  BY <1>2, <1>6 DEF CountInv

LEMMA Counts == Spec => []CountInv
BY InitCounts, CountStep, PTL DEF Spec

(* A pool that returns results posts one result for every item it ran and  *)
(* for no other, and hands each to at most one caller, whatever callers    *)
(* and workers interleave; a fire-and-forget pool posts none.              *)
THEOREM EveryRunHasOneResult == Spec => []OneResultPerRun
<1>1. CountInv => OneResultPerRun
  BY DEF CountInv, ResultInv, OneResultPerRun, ResultIds, Results, Posted,
         Unposted, AtResult
<1> QED
  BY Counts, <1>1, PTL

(* What the code computes as total_removed: the number of results handed   *)
(* out plus the number of GUIDs removed, but for what a get is about to    *)
(* add.  README.md:509 defines it as the former alone, so it is too high   *)
(* by exactly the number of removals.                                      *)
THEOREM RemovalsCounted ==
  Spec => [](removedCount + Cardinality({c \in Callers : cpc[c] = "getCount"})
               = Cardinality(delivered) + Cardinality(removedGuids))
<1>1. CountInv =>
        removedCount + Cardinality({c \in Callers : cpc[c] = "getCount"})
          = Cardinality(delivered) + Cardinality(removedGuids)
  BY DEF CountInv, RemovedExact, Counting
<1> QED
  BY Counts, <1>1, PTL

(* Until the first removal by GUID total_removed is what the documentation *)
(* says, for any number of callers that take results.                      *)
THEOREM ConsumptionCounted == Spec => []ConsumedCounted
<1>1. CountInv => ConsumedCounted
  <2> SUFFICES ASSUME CountInv, removedGuids = {}
               PROVE  removedCount + Cardinality(Counting)
                        = Cardinality(delivered)
    BY DEF ConsumedCounted, Counting
  <2>1. Cardinality(removedGuids) = 0
    BY FS_EmptySet
  <2>2. /\ removedCount + Cardinality(Counting)
             = Cardinality(delivered) + Cardinality(removedGuids)
        /\ IsFiniteSet(delivered)
    BY DEF CountInv, RemovedExact, ResultInv
  <2>3. Cardinality(delivered) \in Nat
    BY <2>2, FS_CardinalityType
  <2> QED
    BY <2>1, <2>2, <2>3
<1> QED
  BY Counts, <1>1, PTL

(* No two calls of remove_by_guid return true for one GUID, whatever the   *)
(* interleaving of their two critical sections.                            *)
THEOREM GuidRemovedOnce == Spec => []RemovedOnce
<1>1. CountInv => RemovedOnce
  BY DEF CountInv, GuidsApart, GuidsHeld, Removing, RemovedOnce
<1> QED
  BY Counts, <1>1, PTL

(* processed_count and error_count agree with the callbacks that ran and   *)
(* the results that report an error, but for the workers that are about to *)
(* count.                                                                  *)
THEOREM StatisticsExact == Spec => []CountersExact
<1>1. CountInv => CountersExact
  BY DEF CountInv, SafeInv, TypeInv, ProcessedExact, ErrorsExact, Uncounted,
         Failed, Results, CountersExact
<1> QED
  BY Counts, <1>1, PTL
=============================================================================
