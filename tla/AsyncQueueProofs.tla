-------------------------- MODULE AsyncQueueProofs --------------------------
(***************************************************************************)
(* Safety of AsyncQueue for every number of callers, cores and items: its  *)
(* types, then where the items are: none is lost, none is in two places,   *)
(* none runs twice, and when they run in the order they were pushed.       *)
(*                                                                         *)
(* The invariant about the items speaks of the places only through         *)
(* itemQueue, ran, dropped, InHand and InWork.  Every action is one of a   *)
(* few moves between them, and each move is shown to keep it once.         *)
(***************************************************************************)
EXTENDS AsyncQueue, SequenceLemmas, FiniteSetTheorems, TLAPS

(* What an action leaves unchanged it names by these groups of variables.  *)
USE DEF queues, counters, tallies, settings, guids, workers, locals, callers,
        history

(* No worker exists before the pool is started, so starting it moves no    *)
(* worker that is counted.                                                 *)
PoolOnce == ~workersStarted => \A w \in Workers : wpc[w] = "none"

(* The first part of the inductive invariant: types, and the count of      *)
(* active workers that keeps activeWorkers a natural number.               *)
TypeInv == TypeOK /\ PoolOnce /\ ActiveExact

LEMMA WorkersType == MaxWorkers \in Nat /\ IsFiniteSet(Workers)
<1>1. MaxWorkers \in Nat
  BY CpuAssumption DEF MaxWorkers
<1> QED
  BY <1>1, FS_Interval DEF Workers

LEMMA AtFinite ==
  ASSUME NEW places
  PROVE  IsFiniteSet(At(places)) /\ Cardinality(At(places)) \in Nat
<1>1. At(places) \subseteq Workers
  BY DEF At
<1> QED
  BY <1>1, WorkersType, FS_Subset, FS_CardinalityType

LEMMA InitType == Init => TypeInv
<1> SUFFICES ASSUME Init PROVE TypeInv
  OBVIOUS
<1> USE DEF Init
<1>1. TypeQueues /\ TypeGuids /\ TypeScalars
  BY EmptyType DEF TypeQueues, TypeGuids, TypeScalars
<1>2. TypeWorkers /\ TypeCallers
  BY DEF TypeWorkers, TypeCallers, WorkerPlaces, CallerPlaces
<1>3. At(Committed \ {"enter"}) = {}
  BY DEF At, Committed
<1> QED
  BY <1>1, <1>2, <1>3, FS_EmptySet DEF TypeInv, TypeOK, PoolOnce, ActiveExact

(* A call that returns leaves its local variables well-typed. *)
LEMMA ReturnType ==
  ASSUME TypeCallers, NEW c \in Callers, Return(c)
  PROVE  TypeCallers'
BY EmptyType DEF TypeCallers, Return, Goto, CallerPlaces

LEMMA CallerType ==
  ASSUME TypeOK, NEW c \in Callers, CallBegins(c) \/ CallContinues(c)
  PROVE  TypeOK'
<1> USE DEF TypeOK
<1>1. CASE PushBegin(c)
  <2>1. TypeQueues' /\ TypeGuids' /\ TypeScalars' /\ TypeWorkers'
    BY <1>1 DEF PushBegin, TypeQueues, TypeGuids, TypeScalars, TypeWorkers
  <2>2. TypeCallers'
    BY <1>1 DEF PushBegin, TypeCallers, Goto, Return, CallerPlaces
  <2> QED
    BY <2>1, <2>2
<1>2. CASE BatchBegin(c)
  <2>1. TypeQueues' /\ TypeGuids' /\ TypeScalars' /\ TypeWorkers'
    BY <1>2 DEF BatchBegin, TypeQueues, TypeGuids, TypeScalars, TypeWorkers
  <2>2. TypeCallers'
    BY <1>2, SizeAssumption DEF BatchBegin, TypeCallers, Goto, Return, CallerPlaces
  <2> QED
    BY <2>1, <2>2
<1>3. CASE RemoveUnindex(c)
  <2>1. TypeQueues' /\ TypeScalars' /\ TypeWorkers'
    BY <1>3 DEF RemoveUnindex, TypeQueues, TypeScalars, TypeWorkers
  <2>2. TypeGuids'
    BY <1>3 DEF RemoveUnindex, TypeGuids, TypeCallers
  <2>3. TypeCallers'
    BY <1>3 DEF RemoveUnindex, TypeCallers, Goto, Return, CallerPlaces, TypeGuids
  <2> QED
    BY <2>1, <2>2, <2>3
<1>4. CASE GetBegin(c)
  <2>1. TypeQueues' /\ TypeGuids' /\ TypeScalars' /\ TypeWorkers'
    BY <1>4 DEF GetBegin, TypeQueues, TypeGuids, TypeScalars, TypeWorkers
  <2>2. TypeCallers'
    <3>1. PICK n \in Nat : cLeft' = [cLeft EXCEPT ![c] = n]
      BY <1>4, SizeAssumption DEF GetBegin
    <3> QED
      BY <1>4, <3>1 DEF GetBegin, TypeCallers, Goto, Return, CallerPlaces
  <2> QED
    BY <2>1, <2>2
<1>5. CASE GetBlockingBegin(c)
  <2>1. TypeQueues' /\ TypeGuids' /\ TypeScalars' /\ TypeWorkers'
    BY <1>5 DEF GetBlockingBegin, TypeQueues, TypeGuids, TypeScalars, TypeWorkers
  <2>2. TypeCallers'
    BY <1>5 DEF GetBlockingBegin, TypeCallers, Goto, Return, CallerPlaces
  <2> QED
    BY <2>1, <2>2
<1>6. CASE ClearBegin(c)
  <2>1. TypeQueues' /\ TypeGuids' /\ TypeScalars' /\ TypeWorkers'
    BY <1>6 DEF ClearBegin, TypeQueues, TypeGuids, TypeScalars, TypeWorkers
  <2>2. TypeCallers'
    BY <1>6 DEF ClearBegin, TypeCallers, Goto, Return, CallerPlaces
  <2> QED
    BY <2>1, <2>2
<1>7. CASE PendingBegin(c)
  <2>1. TypeQueues' /\ TypeGuids' /\ TypeScalars' /\ TypeWorkers'
    BY <1>7 DEF PendingBegin, TypeQueues, TypeGuids, TypeScalars, TypeWorkers
  <2>2. TypeCallers'
    BY <1>7 DEF PendingBegin, TypeCallers, Goto, Return, CallerPlaces
  <2> QED
    BY <2>1, <2>2
<1>8. CASE Close(c)
  <2>1. TypeQueues' /\ TypeGuids' /\ TypeWorkers' /\ TypeCallers'
    BY <1>8 DEF Close, TypeQueues, TypeGuids, TypeWorkers, TypeCallers
  <2>2. TypeScalars'
    BY <1>8 DEF Close, TypeScalars
  <2> QED
    BY <2>1, <2>2
<1>9. CASE SetMode(c)
  <2>1. TypeQueues' /\ TypeGuids' /\ TypeWorkers' /\ TypeCallers'
    BY <1>9 DEF SetMode, TypeQueues, TypeGuids, TypeWorkers, TypeCallers
  <2>2. TypeScalars'
    BY <1>9 DEF SetMode, TypeScalars
  <2> QED
    BY <2>1, <2>2
<1>10. CASE Start(c)
  <2>1. TypeQueues' /\ TypeGuids' /\ TypeCallers'
    BY <1>10 DEF Start, TypeQueues, TypeGuids, TypeCallers
  <2>2. TypeScalars'
    BY <1>10 DEF Start, CanCall, WorkerPlaces, TypeScalars
  <2>3. TypeWorkers'
    BY <1>10 DEF Start, CanCall, WorkerPlaces, TypeWorkers
  <2> QED
    BY <2>1, <2>2, <2>3
<1>11. CASE PushAlloc(c)
  <2>1. TypeQueues' /\ TypeGuids' /\ TypeWorkers'
    BY <1>11 DEF PushAlloc, TypeQueues, TypeGuids, TypeWorkers
  <2>2. TypeScalars'
    BY <1>11 DEF PushAlloc, TypeScalars
  <2>3. TypeCallers'
    BY <1>11 DEF PushAlloc, TypeCallers, Goto, Return, CallerPlaces, TypeScalars
  <2> QED
    BY <2>1, <2>2, <2>3
<1>12. CASE PushIndex(c)
  <2>1. TypeQueues' /\ TypeScalars' /\ TypeWorkers'
    BY <1>12 DEF PushIndex, TypeQueues, TypeScalars, TypeWorkers
  <2>2. TypeGuids'
    BY <1>12 DEF PushIndex, TypeGuids, TypeCallers
  <2>3. TypeCallers'
    BY <1>12 DEF PushIndex, TypeCallers, Goto, Return, CallerPlaces
  <2> QED
    BY <2>1, <2>2, <2>3
<1>13. CASE PushItem(c)
  <2>1. TypeScalars' /\ TypeWorkers'
    BY <1>13 DEF PushItem, TypeScalars, TypeWorkers
  <2>2. TypeQueues'
    BY <1>13 DEF PushItem, TypeQueues, TypeCallers
  <2>3. TypeGuids'
    BY <1>13 DEF PushItem, TypeGuids, TypeCallers
  <2>4. TypeCallers'
    BY <1>13, ReturnType DEF PushItem
  <2> QED
    BY <2>1, <2>2, <2>3, <2>4
<1>14. CASE BatchAlloc(c)
  <2>1. TypeQueues' /\ TypeGuids' /\ TypeWorkers'
    BY <1>14 DEF BatchAlloc, TypeQueues, TypeGuids, TypeWorkers
  <2>2. TypeScalars'
    BY <1>14 DEF BatchAlloc, TypeScalars
  <2>3. TypeCallers'
    BY <1>14 DEF BatchAlloc, TypeCallers, Goto, Return, CallerPlaces, TypeScalars
  <2> QED
    BY <2>1, <2>2, <2>3
<1>15. CASE BatchItem(c)
  <2>1. TypeGuids' /\ TypeScalars' /\ TypeWorkers'
    BY <1>15 DEF BatchItem, TypeGuids, TypeScalars, TypeWorkers
  <2>2. TypeQueues'
    BY <1>15 DEF BatchItem, TypeQueues, TypeCallers
  <2>3. TypeCallers'
    BY <1>15 DEF BatchItem, TypeCallers, Goto, Return, CallerPlaces
  <2> QED
    BY <2>1, <2>2, <2>3
<1>16. CASE BatchIndex(c)
  <2>1. TypeQueues' /\ TypeScalars' /\ TypeWorkers'
    BY <1>16 DEF BatchIndex, TypeQueues, TypeScalars, TypeWorkers
  <2>2. TypeGuids'
    BY <1>16, RangeType DEF BatchIndex, TypeGuids, TypeCallers
  <2>3. TypeCallers'
    BY <1>16, ReturnType DEF BatchIndex
  <2> QED
    BY <2>1, <2>2, <2>3
<1>17. CASE RemoveMark(c)
  <2>1. TypeQueues' /\ TypeWorkers'
    BY <1>17 DEF RemoveMark, TypeQueues, TypeWorkers
  <2>2. TypeGuids'
    BY <1>17 DEF RemoveMark, TypeGuids, TypeCallers
  <2>3. TypeScalars'
    BY <1>17 DEF RemoveMark, TypeScalars, TypeCallers
  <2>4. TypeCallers'
    BY <1>17, ReturnType DEF RemoveMark
  <2> QED
    BY <2>1, <2>2, <2>3, <2>4
<1>18. CASE GetPop(c)
  <2>1. TypeGuids' /\ TypeScalars' /\ TypeWorkers'
    BY <1>18 DEF GetPop, PopResult, TypeGuids, TypeScalars, TypeWorkers
  <2>2. TypeQueues'
    BY <1>18, SeqTypes DEF GetPop, PopResult, TypeQueues
  <2>3. TypeCallers'
    BY <1>18 DEF GetPop, PopResult, TypeCallers, Goto, Return, CallerPlaces
  <2> QED
    BY <2>1, <2>2, <2>3
<1>19. CASE GetReturn(c)
  <2>1. TypeQueues' /\ TypeGuids' /\ TypeScalars' /\ TypeWorkers'
    BY <1>19 DEF GetReturn, TypeQueues, TypeGuids, TypeScalars, TypeWorkers
  <2>2. TypeCallers'
    BY <1>19, ReturnType DEF GetReturn
  <2> QED
    BY <2>1, <2>2
<1>20. CASE GetCount(c)
  <2>1. TypeQueues' /\ TypeGuids' /\ TypeWorkers'
    BY <1>20 DEF GetCount, TypeQueues, TypeGuids, TypeWorkers
  <2>2. TypeScalars'
    BY <1>20 DEF GetCount, TypeScalars
  <2>3. TypeCallers'
    <3>1. CASE cLeft[c] = 0
      BY <1>20, <3>1, ReturnType DEF GetCount
    <3>2. CASE cLeft[c] # 0
      BY <1>20, <3>2 DEF GetCount, TypeCallers, Goto, Return, CallerPlaces
    <3> QED
      BY <3>1, <3>2
  <2> QED
    BY <2>1, <2>2, <2>3
<1>21. CASE GetBlockingPop(c)
  <2>1. TypeGuids' /\ TypeScalars' /\ TypeWorkers'
    BY <1>21 DEF GetBlockingPop, PopResult, TypeGuids, TypeScalars, TypeWorkers
  <2>2. TypeQueues'
    BY <1>21, SeqTypes DEF GetBlockingPop, PopResult, TypeQueues
  <2>3. TypeCallers'
    BY <1>21 DEF GetBlockingPop, PopResult, TypeCallers, Goto, Return, CallerPlaces
  <2> QED
    BY <2>1, <2>2, <2>3
<1>22. CASE ClearPop(c)
  <2>1. TypeScalars' /\ TypeWorkers' /\ TypeCallers'
    BY <1>22 DEF ClearPop, TypeScalars, TypeWorkers, TypeCallers
  <2>2. TypeQueues'
    BY <1>22, SeqTypes DEF ClearPop, TypeQueues
  <2>3. TypeGuids'
    BY <1>22, SeqTypes DEF ClearPop, TypeGuids, TypeQueues
  <2> QED
    BY <2>1, <2>2, <2>3
<1>23. CASE ClearReturn(c)
  <2>1. TypeQueues' /\ TypeGuids' /\ TypeScalars' /\ TypeWorkers'
    BY <1>23 DEF ClearReturn, TypeQueues, TypeGuids, TypeScalars, TypeWorkers
  <2>2. TypeCallers'
    BY <1>23, ReturnType DEF ClearReturn
  <2> QED
    BY <2>1, <2>2
<1>24. CASE PendingPop(c)
  <2>1. TypeGuids' /\ TypeScalars' /\ TypeWorkers'
    BY <1>24 DEF PendingPop, TypeGuids, TypeScalars, TypeWorkers
  <2>2. TypeQueues'
    <3>1. CASE itemQueue = << >>
      BY <1>24, <3>1 DEF PendingPop, TypeQueues
    <3>2. CASE itemQueue # << >>
      <4>1. Tail(itemQueue) \in Seq(Nat)
        BY <3>2, SeqTypes DEF TypeQueues
      <4> QED
        BY <1>24, <3>2, <4>1 DEF PendingPop, TypeQueues
    <3> QED
      BY <3>1, <3>2
  <2>3. TypeCallers'
    <3>1. CASE itemQueue = << >>
      BY <1>24, <3>1 DEF PendingPop, TypeCallers, Goto, Return, CallerPlaces
    <3>2. CASE itemQueue # << >>
      <4>1. Append(cBuf[c], Head(itemQueue)) \in Seq(Nat)
        BY <3>2, SeqTypes DEF TypeQueues, TypeCallers
      <4> QED
        BY <1>24, <3>2, <4>1 DEF PendingPop, TypeCallers, Goto, Return, CallerPlaces
    <3> QED
      BY <3>1, <3>2
  <2> QED
    BY <2>1, <2>2, <2>3
<1>25. CASE PendingPush(c)
  <2>1. TypeGuids' /\ TypeScalars' /\ TypeWorkers'
    BY <1>25 DEF PendingPush, TypeGuids, TypeScalars, TypeWorkers
  <2>2. TypeQueues'
    <3>1. CASE cBuf[c] = << >>
      BY <1>25, <3>1 DEF PendingPush, TypeQueues
    <3>2. CASE cBuf[c] # << >>
      <4>1. Append(itemQueue, Head(cBuf[c])) \in Seq(Nat)
        BY <3>2, SeqTypes DEF TypeQueues, TypeCallers
      <4> QED
        BY <1>25, <3>2, <4>1 DEF PendingPush, TypeQueues
    <3> QED
      BY <3>1, <3>2
  <2>3. TypeCallers'
    <3>1. CASE cBuf[c] = << >>
      BY <1>25, <3>1, ReturnType DEF PendingPush
    <3>2. CASE cBuf[c] # << >>
      <4>1. Tail(cBuf[c]) \in Seq(Nat)
        BY <3>2, SeqTypes DEF TypeCallers
      <4> QED
        BY <1>25, <3>2, <4>1 DEF PendingPush, TypeCallers, Goto, Return, CallerPlaces
    <3> QED
      BY <3>1, <3>2
  <2> QED
    BY <2>1, <2>2, <2>3
<1> QED
  BY <1>1, <1>2, <1>3, <1>4, <1>5, <1>6, <1>7, <1>8, <1>9, <1>10, <1>11, <1>12, <1>13, <1>14, <1>15, <1>16, <1>17, <1>18, <1>19, <1>20, <1>21, <1>22, <1>23, <1>24, <1>25 DEF CallBegins, CallContinues

LEMMA WorkerType ==
  ASSUME TypeInv, NEW w \in Workers, WorkerStep(w)
  PROVE  TypeOK'
<1> USE DEF TypeInv, TypeOK
<1>1. CASE WorkerPop(w)
  <2>1. TypeGuids' /\ TypeScalars' /\ TypeCallers'
    BY <1>1 DEF WorkerPop, TypeGuids, TypeScalars, TypeCallers
  <2>2. TypeQueues'
    <3>1. CASE itemQueue = << >>
      BY <1>1, <3>1 DEF WorkerPop, TypeQueues
    <3>2. CASE itemQueue # << >>
      <4>1. Tail(itemQueue) \in Seq(Nat)
        BY <3>2, SeqTypes DEF TypeQueues
      <4> QED
        BY <1>1, <3>2, <4>1 DEF WorkerPop, TypeQueues
    <3> QED
      BY <3>1, <3>2
  <2>3. TypeWorkers'
    <3>1. CASE itemQueue = << >>
      BY <1>1, <3>1 DEF WorkerPop, TypeWorkers, WorkerGoto, WorkerPlaces
    <3>2. CASE itemQueue # << >>
      <4>1. Head(itemQueue) \in Nat
        BY <3>2, SeqTypes DEF TypeQueues
      <4> QED
        BY <1>1, <3>2, <4>1 DEF WorkerPop, TypeWorkers, WorkerGoto,
                                WorkerPlaces
    <3> QED
      BY <3>1, <3>2
  <2> QED
    BY <2>1, <2>2, <2>3
<1>2. CASE WorkerEmpty(w)
  <2>1. TypeQueues' /\ TypeGuids' /\ TypeScalars' /\ TypeCallers'
    BY <1>2 DEF WorkerEmpty, TypeQueues, TypeGuids, TypeScalars, TypeCallers
  <2>2. TypeWorkers'
    BY <1>2 DEF WorkerEmpty, TypeWorkers, WorkerGoto, WorkerPlaces, Committed
  <2> QED
    BY <2>1, <2>2
<1>3. CASE WorkerCheck(w)
  <2>1. TypeQueues' /\ TypeScalars' /\ TypeCallers'
    BY <1>3 DEF WorkerCheck, TypeQueues, TypeScalars, TypeCallers
  <2>2. TypeGuids'
    BY <1>3 DEF WorkerCheck, TypeGuids, TypeWorkers
  <2>3. TypeWorkers'
    BY <1>3 DEF WorkerCheck, TypeWorkers, WorkerGoto, WorkerPlaces, Committed
  <2> QED
    BY <2>1, <2>2, <2>3
<1>4. CASE WorkerEnter(w)
  <2>1. TypeQueues' /\ TypeGuids' /\ TypeCallers'
    BY <1>4 DEF WorkerEnter, TypeQueues, TypeGuids, TypeCallers
  <2>2. TypeScalars'
    BY <1>4 DEF WorkerEnter, TypeScalars, TypeWorkers
  <2>3. TypeWorkers'
    BY <1>4 DEF WorkerEnter, TypeWorkers, WorkerGoto, WorkerPlaces, Committed
  <2> QED
    BY <2>1, <2>2, <2>3
<1>5. CASE WorkerCall(w)
  <2>1. TypeGuids' /\ TypeScalars' /\ TypeCallers'
    BY <1>5 DEF WorkerCall, TypeGuids, TypeScalars, TypeCallers
  <2>2. TypeQueues'
    BY <1>5, SeqTypes DEF WorkerCall, TypeQueues, TypeWorkers
  <2>3. TypeWorkers'
    BY <1>5 DEF WorkerCall, TypeWorkers, WorkerGoto, WorkerPlaces, Committed
  <2> QED
    BY <2>1, <2>2, <2>3
<1>6. CASE WorkerReturn(w)
  <2>1. TypeQueues' /\ TypeGuids' /\ TypeScalars' /\ TypeCallers'
    BY <1>6 DEF WorkerReturn, TypeQueues, TypeGuids, TypeScalars, TypeCallers
  <2>2. TypeWorkers'
    BY <1>6 DEF WorkerReturn, TypeWorkers, WorkerGoto, WorkerPlaces, Committed
  <2> QED
    BY <2>1, <2>2
<1>7. CASE WorkerPush(w)
  <2>1. TypeGuids' /\ TypeScalars' /\ TypeCallers'
    BY <1>7 DEF WorkerPush, TypeGuids, TypeScalars, TypeCallers
  <2>2. TypeQueues'
    BY <1>7 DEF WorkerPush, TypeQueues, TypeWorkers
  <2>3. TypeWorkers'
    BY <1>7 DEF WorkerPush, TypeWorkers, WorkerGoto, WorkerPlaces, Committed
  <2> QED
    BY <2>1, <2>2, <2>3
<1>8. CASE WorkerError(w)
  <2>1. TypeQueues' /\ TypeGuids' /\ TypeCallers'
    BY <1>8 DEF WorkerError, TypeQueues, TypeGuids, TypeCallers
  <2>2. TypeScalars'
    BY <1>8 DEF WorkerError, TypeScalars, TypeWorkers
  <2>3. TypeWorkers'
    BY <1>8 DEF WorkerError, TypeWorkers, WorkerGoto, WorkerPlaces, Committed
  <2> QED
    BY <2>1, <2>2, <2>3
<1>9. CASE WorkerCount(w)
  <2>1. TypeQueues' /\ TypeGuids' /\ TypeCallers'
    BY <1>9 DEF WorkerCount, TypeQueues, TypeGuids, TypeCallers
  <2>2. TypeScalars'
    BY <1>9 DEF WorkerCount, TypeScalars, TypeWorkers
  <2>3. TypeWorkers'
    BY <1>9 DEF WorkerCount, TypeWorkers, WorkerGoto, WorkerPlaces, Committed
  <2> QED
    BY <2>1, <2>2, <2>3
<1>10. CASE WorkerLeave(w)
  <2>1. TypeQueues' /\ TypeGuids' /\ TypeCallers'
    BY <1>10 DEF WorkerLeave, TypeQueues, TypeGuids, TypeCallers
  <2>2. TypeScalars'
    <3>1. w \in At(Committed \ {"enter"})
      BY <1>10 DEF WorkerLeave, At, Committed
    <3>2. activeWorkers > 0
      BY <3>1, AtFinite, FS_EmptySet DEF ActiveExact, TypeScalars
    <3> QED
      BY <1>10, <3>2 DEF WorkerLeave, TypeScalars
  <2>3. TypeWorkers'
    BY <1>10 DEF WorkerLeave, TypeWorkers, WorkerGoto, WorkerPlaces, Committed
  <2> QED
    BY <2>1, <2>2, <2>3
<1> QED
  BY <1>1, <1>2, <1>3, <1>4, <1>5, <1>6, <1>7, <1>8, <1>9, <1>10 DEF WorkerStep

(* The workers between increment and decrement are counted when they pass. *)
LEMMA ActiveStep ==
  ASSUME TypeInv, [Next]_vars
  PROVE  ActiveExact'
<1> DEFINE active == Committed \ {"enter"}
<1>0. wpc \in [Workers -> WorkerPlaces] /\ activeWorkers \in Nat
  BY DEF TypeInv, TypeOK, TypeWorkers, TypeScalars
<1>1. CASE activeWorkers' = activeWorkers /\ At(active)' = At(active)
  BY <1>1 DEF TypeInv, ActiveExact
<1>2. ASSUME UNCHANGED <<activeWorkers, wpc>> PROVE ActiveExact'
  BY <1>2, <1>1 DEF At
<1>3. ASSUME NEW c \in Callers, Start(c) PROVE ActiveExact'
  <2>1. activeWorkers' = activeWorkers
    BY <1>3 DEF Start
  <2>2. ASSUME NEW w \in Workers
        PROVE  wpc'[w] \in active <=> wpc[w] \in active
    BY <1>3, <1>0 DEF Start, Committed, TypeInv, PoolOnce
  <2> QED
    BY <1>1, <2>1, <2>2 DEF At
<1>4. ASSUME NEW c \in Callers, CallBegins(c) \/ CallContinues(c),
             ~Start(c)
      PROVE  ActiveExact'
  BY <1>4, <1>2
     DEF CallBegins, CallContinues, PushBegin, BatchBegin,
         RemoveUnindex, GetBegin, GetBlockingBegin, ClearBegin, PendingBegin,
         Close, SetMode, PushAlloc, PushIndex, PushItem, BatchAlloc,
         BatchItem, BatchIndex, RemoveMark, GetPop, GetReturn, GetCount,
         GetBlockingPop, PopResult, ClearPop, ClearReturn, PendingPop,
         PendingPush
<1>5. ASSUME NEW w \in Workers, NEW place, WorkerGoto(w, place),
             activeWorkers' = activeWorkers,
             place \in active <=> wpc[w] \in active
      PROVE  ActiveExact'
  BY <1>5, <1>1, <1>0 DEF At, WorkerGoto
<1>6. ASSUME NEW w \in Workers, WorkerEnter(w) PROVE ActiveExact'
  <2>1. At(active)' = At(active) \cup {w} /\ w \notin At(active)
    BY <1>6, <1>0 DEF WorkerEnter, WorkerGoto, At,
                        Committed
  <2> QED
    BY <1>6, <2>1, <1>0, AtFinite, FS_AddElement
       DEF WorkerEnter, TypeInv, ActiveExact
<1>7. ASSUME NEW w \in Workers, WorkerLeave(w) PROVE ActiveExact'
  <2>1. At(active)' = At(active) \ {w} /\ w \in At(active)
    BY <1>7, <1>0 DEF WorkerLeave, WorkerGoto, At,
                        Committed
  <2>2. Cardinality(At(active) \ {w}) = Cardinality(At(active)) - 1
    BY <2>1, AtFinite, FS_RemoveElement
  <2>3. activeWorkers' = activeWorkers - 1
    BY <1>7 DEF WorkerLeave
  <2> QED
    BY <2>1, <2>2, <2>3 DEF TypeInv, ActiveExact
<1>8. ASSUME NEW w \in Workers, WorkerStep(w), ~WorkerEnter(w),
             ~WorkerLeave(w)
      PROVE  ActiveExact'
  BY <1>8, <1>5
     DEF WorkerStep, Committed, WorkerPop, WorkerEmpty, WorkerCheck,
         WorkerCall, WorkerReturn, WorkerPush, WorkerError, WorkerCount
<1>9. CASE UNCHANGED vars
  BY <1>9, <1>2 DEF vars
<1> QED
  BY <1>3, <1>4, <1>6, <1>7, <1>8, <1>9 DEF Next

LEMMA PoolStep ==
  ASSUME TypeInv, [Next]_vars
  PROVE  PoolOnce'
<1> SUFFICES ASSUME ~workersStarted' PROVE \A w \in Workers : wpc'[w] = "none"
  BY DEF PoolOnce
<1>1. ASSUME NEW c \in Callers, CallBegins(c) \/ CallContinues(c)
      PROVE  UNCHANGED <<workersStarted, wpc>>
  BY <1>1
     DEF CallBegins, CallContinues, PushBegin, BatchBegin,
         RemoveUnindex, GetBegin, GetBlockingBegin, ClearBegin, PendingBegin,
         Close, SetMode, Start, PushAlloc, PushIndex, PushItem, BatchAlloc,
         BatchItem, BatchIndex, RemoveMark, GetPop, GetReturn, GetCount,
         GetBlockingPop, PopResult, ClearPop, ClearReturn, PendingPop,
         PendingPush
<1>2. ASSUME NEW w \in Workers, WorkerStep(w) PROVE workersStarted /\ UNCHANGED workersStarted
  <2>1. wpc[w] # "none"
    BY <1>2 DEF WorkerStep, WorkerPop, WorkerEmpty, WorkerCheck, WorkerEnter,
                WorkerCall, WorkerReturn, WorkerPush, WorkerError,
                WorkerCount, WorkerLeave
  <2>2. UNCHANGED workersStarted
    BY <1>2 DEF WorkerStep, WorkerPop, WorkerEmpty, WorkerCheck,
                WorkerEnter, WorkerCall, WorkerReturn, WorkerPush,
                WorkerError, WorkerCount, WorkerLeave
  <2> QED
    BY <2>1, <2>2 DEF TypeInv, PoolOnce
<1> QED
  BY <1>1, <1>2 DEF Next, TypeInv, PoolOnce, vars

LEMMA TypeInvStep == TypeInv /\ [Next]_vars => TypeInv'
<1> SUFFICES ASSUME TypeInv, [Next]_vars PROVE TypeInv'
  OBVIOUS
<1>1. CASE UNCHANGED vars
  BY <1>1 DEF TypeInv, TypeOK, TypeQueues, TypeGuids, TypeScalars,
              TypeWorkers, TypeCallers, vars, PoolOnce, ActiveExact, At
<1>2. CASE Next
  BY <1>2, CallerType, WorkerType, PoolStep, ActiveStep DEF Next, TypeInv
<1> QED
  BY <1>1, <1>2

(* Type correctness, which includes that active_workers never underflows   *)
(* when a worker gives up its place in the count.                          *)
THEOREM TypeCorrect == Spec => []TypeOK
<1>1. TypeInv => TypeOK
  BY DEF TypeInv
<1> QED
  BY InitType, TypeInvStep, <1>1, PTL DEF Spec

-----------------------------------------------------------------------------
(* A worker past the start of its callback holds an item that is in ran. *)
StartedRan == \A w \in Workers : Unstarted(w) \/ InWork(w) \subseteq Range(ran)

Hands == UNION {InHand(c) : c \in Callers}
Work  == UNION {InWork(w) : w \in Workers}

(* Every item that is anywhere; the next id is none of them.               *)
Present == Queued \cup Hands \cup Work \cup Range(ran) \cup dropped
Fresh == Present \subseteq 0 .. counter

(* The part of the invariant that sees sequences as sets. *)
Apart == HandsApart /\ WorkApart /\ SettledApart /\ StartedRan /\ Fresh

ItemInv == SequencesUnique /\ Apart

(* A caller has nothing in its buffer but inside push_batch and            *)
(* pending_items, so that the latter starts to drain with an empty one.    *)
BufInUse ==
  \A c \in Callers :
    \/ cpc[c] \in {"batchAlloc", "batchItem", "pendPop", "pendPush"}
    \/ cBuf[c] = << >>

(* What the moves below leave where it is. *)
HandsKept(S) ==
  \A c \in Callers \ S : InHand(c)' = InHand(c) /\ Draining(c)' = Draining(c)
WorkKept(S) ==
  \A w \in Workers \ S : InWork(w)' = InWork(w) /\ Unstarted(w)' = Unstarted(w)

-----------------------------------------------------------------------------
(* The moves of items as sets. *)

LEMMA NoneLost ==
  /\ NoItemLost <=> 1 .. counter = Present
  /\ NoItemLost' <=> 1 .. counter' = Present'
<1>1. /\ Hands = UNION {InHand(c) : c \in Callers}
      /\ Work = UNION {InWork(w) : w \in Workers}
  BY DEF Hands, Work
<1>2. /\ Hands' = UNION {InHand(c)' : c \in Callers}
      /\ Work' = UNION {InWork(w)' : w \in Workers}
  BY DEF Hands, Work
<1> QED
  BY <1>1, <1>2 DEF NoItemLost, Present

LEMMA HandsUnion ==
  ASSUME HandsKept({}) PROVE Hands' = Hands
BY DEF Hands, HandsKept

LEMMA WorkUnion ==
  ASSUME NEW w \in Workers, WorkKept({w})
  PROVE  Work' \cup InWork(w) = Work \cup InWork(w)'
BY DEF Work, WorkKept

LEMMA KeepSets ==
  ASSUME Apart, HandsKept({}), WorkKept({}),
         UNCHANGED <<itemQueue, ran, dropped, counter>>
  PROVE  Apart' /\ Present' = Present
<1>1. UNCHANGED <<Queued, Range(ran)>>
  BY DEF Queued
<1>2. Hands' = Hands /\ Work' = Work
  BY DEF Hands, Work, HandsKept, WorkKept
<1>3. Present' = Present
  BY <1>1, <1>2 DEF Present
<1> QED
  BY <1>1, <1>3 DEF Apart, HandsApart, WorkApart, SettledApart, StartedRan,
                    Fresh, HandsKept, WorkKept

LEMMA AllocSets ==
  ASSUME Apart, counter \in Nat, NEW c \in Callers,
         HandsKept({c}), WorkKept({}), UNCHANGED <<itemQueue, ran, dropped>>,
         counter' = counter + 1,
         InHand(c) = {}, InHand(c)' = {counter + 1}
  PROVE  Apart' /\ Present' = Present \cup {counter'}
<1>1. 0 .. counter' = 0 .. counter \cup {counter + 1}
  OBVIOUS
<1>2. counter + 1 \notin 0 .. counter
  OBVIOUS
<1>3. UNCHANGED <<Queued, Range(ran)>>
  BY DEF Queued
<1>4. SettledApart' /\ StartedRan'
  BY <1>3 DEF Apart, SettledApart, StartedRan, WorkKept
<1>5. HandsApart'
  <2>1. /\ counter + 1 \notin Queued \cup Range(ran) \cup dropped
        /\ \A d \in Callers : counter + 1 \notin InHand(d)
        /\ \A w \in Workers : counter + 1 \notin InWork(w)
    <3>1. counter + 1 \notin Present
      BY <1>2 DEF Apart, Fresh
    <3> QED
      BY <3>1 DEF Hands, Work, Present
  <2>2. \A d \in Callers, w \in Workers :
          InHand(d)' \subseteq InHand(d) \cup {counter + 1} /\ InWork(w)' = InWork(w)
    BY DEF HandsKept, WorkKept
  <2> QED
    BY <1>3, <2>1, <2>2 DEF Apart, HandsApart, HandsKept
<1>6. WorkApart'
  BY <1>3 DEF Apart, WorkApart, WorkKept
<1>7. Present' = Present \cup {counter'}
  <2>1. Hands' = Hands \cup {counter'} /\ Work' = Work
    BY DEF Hands, Work, HandsKept, WorkKept
  <2> QED
    BY <1>3, <2>1 DEF Present
<1>8. Fresh'
  BY <1>1, <1>7 DEF Apart, Fresh
<1> QED
  BY <1>4, <1>5, <1>6, <1>7, <1>8 DEF Apart

LEMMA EnqueueSets ==
  ASSUME Apart, NEW c \in Callers, NEW i \in InHand(c),
         HandsKept({c}), WorkKept({}), UNCHANGED <<ran, dropped, counter>>,
         Queued' = Queued \cup {i}, InHand(c)' = InHand(c) \ {i}
  PROVE  Apart' /\ Present' = Present
<1>1. HandsApart' /\ SettledApart'
  BY DEF Apart, HandsApart, SettledApart, HandsKept, WorkKept
<1>2. WorkApart' /\ StartedRan'
  BY DEF Apart, HandsApart, WorkApart, StartedRan, WorkKept
<1>3. Present' = Present
  <2>1. Hands' \cup {i} = Hands /\ Work' = Work
    BY DEF Hands, Work, HandsKept, WorkKept
  <2> QED
    BY <2>1 DEF Present
<1> QED
  BY <1>1, <1>2, <1>3 DEF Apart, Fresh

(* An item that leaves the queue for a caller. *)
LEMMA DrainSets ==
  ASSUME Apart, NEW c \in Callers, NEW i \in Queued,
         HandsKept({c}), WorkKept({}), UNCHANGED <<ran, dropped, counter>>,
         Queued' = Queued \ {i}, InHand(c)' = InHand(c) \cup {i}
  PROVE  Apart' /\ Present' = Present
<1>1. HandsApart' /\ SettledApart'
  BY DEF Apart, HandsApart, WorkApart, SettledApart, HandsKept, WorkKept
<1>2. WorkApart' /\ StartedRan'
  BY DEF Apart, WorkApart, StartedRan, WorkKept
<1>3. Present' = Present
  <2>1. Hands' = Hands \cup {i} /\ Work' = Work
    BY DEF Hands, Work, HandsKept, WorkKept
  <2> QED
    BY <2>1 DEF Present
<1> QED
  BY <1>1, <1>2, <1>3 DEF Apart, Fresh

(* An item that leaves the queue for a worker. *)
LEMMA TakeSets ==
  ASSUME Apart, NEW w \in Workers, NEW i \in Queued,
         HandsKept({}), WorkKept({w}), UNCHANGED <<ran, dropped, counter>>,
         Queued' = Queued \ {i}, InWork(w) = {}, InWork(w)' = {i},
         Unstarted(w)'
  PROVE  Apart' /\ Present' = Present
<1>1. HandsApart' /\ SettledApart'
  BY DEF Apart, HandsApart, SettledApart, HandsKept, WorkKept
<1>2. WorkApart' /\ StartedRan'
  BY DEF Apart, WorkApart, SettledApart, StartedRan, WorkKept
<1>3. Present' = Present
  BY HandsUnion, WorkUnion DEF Present
<1> QED
  BY <1>1, <1>2, <1>3 DEF Apart, Fresh

(* An item that leaves the queue for good. *)
LEMMA LeaveSets ==
  ASSUME Apart, NEW i \in Queued, HandsKept({}), WorkKept({}),
         UNCHANGED <<ran, dropped, counter>>, Queued' = Queued \ {i}
  PROVE  Apart' /\ Present' = Present \ {i}
<1>1. HandsApart' /\ SettledApart'
  BY DEF Apart, HandsApart, SettledApart, HandsKept, WorkKept
<1>2. WorkApart' /\ StartedRan'
  BY DEF Apart, WorkApart, StartedRan, WorkKept
<1>3. Present' = Present \ {i}
  <2>1. Hands' = Hands /\ Work' = Work
    BY DEF Hands, Work, HandsKept, WorkKept
  <2>2. i \notin Hands \cup Work \cup Range(ran) \cup dropped
    BY DEF Apart, HandsApart, WorkApart, SettledApart, Hands, Work
  <2> QED
    BY <2>1, <2>2 DEF Present
<1> QED
  BY <1>1, <1>2, <1>3 DEF Apart, Fresh

(* An item that clear discards. *)
LEMMA ClearSets ==
  ASSUME Apart, NEW i \in Queued,
         HandsKept({}), WorkKept({}), UNCHANGED <<ran, counter>>,
         Queued' = Queued \ {i}, dropped' = dropped \cup {i}
  PROVE  Apart' /\ Present' = Present
<1>1. HandsApart' /\ SettledApart'
  BY DEF Apart, HandsApart, SettledApart, HandsKept, WorkKept
<1>2. WorkApart' /\ StartedRan'
  BY DEF Apart, WorkApart, StartedRan, WorkKept
<1>3. Present' = Present
  <2>1. Work' = Work
    BY DEF Work, WorkKept
  <2> QED
    BY <2>1, HandsUnion DEF Present
<1> QED
  BY <1>1, <1>2, <1>3 DEF Apart, Fresh

(* An item that a worker discards. *)
LEMMA DiscardSets ==
  ASSUME Apart, NEW w \in Workers, NEW i, Unstarted(w), InWork(w) = {i},
         HandsKept({}), WorkKept({w}), UNCHANGED <<itemQueue, ran, counter>>,
         InWork(w)' = {}, dropped' = dropped \cup {i}
  PROVE  Apart' /\ Present' = Present
<1>0. Queued' = Queued
  BY DEF Queued
<1>1. HandsApart' /\ SettledApart'
  BY <1>0 DEF Apart, HandsApart, SettledApart, WorkApart, HandsKept, WorkKept
<1>2. WorkApart' /\ StartedRan'
  BY <1>0 DEF Apart, WorkApart, StartedRan, WorkKept
<1>3. Present' = Present
  BY <1>0, HandsUnion, WorkUnion DEF Present
<1> QED
  BY <1>1, <1>2, <1>3 DEF Apart, Fresh

(* An item whose callback begins. *)
LEMMA RunSets ==
  ASSUME Apart, NEW w \in Workers, NEW i, Unstarted(w), InWork(w) = {i},
         HandsKept({}), WorkKept({w}), UNCHANGED <<itemQueue, dropped, counter>>,
         InWork(w)' = {i}, ~Unstarted(w)', Range(ran)' = Range(ran) \cup {i}
  PROVE  Apart' /\ Present' = Present
<1>0. Queued' = Queued
  BY DEF Queued
<1>1. HandsApart' /\ SettledApart'
  BY <1>0 DEF Apart, HandsApart, SettledApart, WorkApart, HandsKept, WorkKept
<1>2. WorkApart'
  BY <1>0 DEF Apart, WorkApart, WorkKept
<1>3. StartedRan'
  BY DEF Apart, StartedRan, WorkKept
<1>4. Present' = Present
  <2>1. Work' \cup {i} = Work \cup {i} /\ i \in Range(ran)'
    BY WorkUnion
  <2>2. i \in Work
    BY DEF Work
  <2> QED
    BY <1>0, <2>1, <2>2, HandsUnion DEF Present
<1> QED
  BY <1>1, <1>2, <1>3, <1>4 DEF Apart, Fresh

(* An item a worker lets go of after its callback. *)
LEMMA ReleaseSets ==
  ASSUME Apart, NEW w \in Workers, ~Unstarted(w), InWork(w)' = {},
         HandsKept({}), WorkKept({w}),
         UNCHANGED <<itemQueue, ran, dropped, counter>>
  PROVE  Apart' /\ Present' = Present
<1>0. UNCHANGED <<Queued, Range(ran)>>
  BY DEF Queued
<1>1. HandsApart' /\ SettledApart'
  BY <1>0 DEF Apart, HandsApart, SettledApart, HandsKept, WorkKept
<1>2. WorkApart' /\ StartedRan'
  BY <1>0 DEF Apart, WorkApart, StartedRan, WorkKept
<1>3. Present' = Present
  BY <1>0, HandsUnion, WorkUnion DEF Present, Apart, StartedRan
<1> QED
  BY <1>1, <1>2, <1>3 DEF Apart, Fresh

-----------------------------------------------------------------------------
(* The moves of items as steps, each of which keeps the whole invariant.   *)

KeepMove ==
  HandsKept({}) /\ WorkKept({}) /\ UNCHANGED <<itemQueue, ran, dropped, counter>>

AllocMove(c) ==
  /\ HandsKept({c}) /\ WorkKept({})
  /\ UNCHANGED <<itemQueue, ran, dropped, Draining(c)>>
  /\ counter' = counter + 1 /\ InHand(c) = {} /\ InHand(c)' = {counter + 1}

EnqueueMove(c, i) ==
  /\ HandsKept({c}) /\ WorkKept({}) /\ UNCHANGED <<ran, dropped, counter>>
  /\ i \in InHand(c) /\ InHand(c)' = InHand(c) \ {i}
  /\ itemQueue' = Append(itemQueue, i) /\ IsInjective(Draining(c)')

DrainMove(c) ==
  /\ HandsKept({c}) /\ WorkKept({}) /\ UNCHANGED <<ran, dropped, counter>>
  /\ itemQueue # << >> /\ itemQueue' = Tail(itemQueue)
  /\ Draining(c)' = Append(Draining(c), Head(itemQueue))
  /\ Draining(c) \in Seq(Nat)
  /\ InHand(c) = Range(Draining(c)) /\ InHand(c)' = Range(Draining(c)')

ClearMove ==
  /\ HandsKept({}) /\ WorkKept({}) /\ UNCHANGED <<ran, counter>>
  /\ itemQueue # << >> /\ itemQueue' = Tail(itemQueue)
  /\ dropped' = dropped \cup {Head(itemQueue)}

LEMMA Keep ==
  ASSUME ItemInv, KeepMove
  PROVE  ItemInv' /\ Present' = Present
<1> USE DEF KeepMove
<1>1. SequencesUnique'
  BY DEF ItemInv, SequencesUnique, HandsKept
<1> QED
  BY <1>1, KeepSets DEF ItemInv

LEMMA Alloc ==
  ASSUME ItemInv, TypeOK, NEW c \in Callers, AllocMove(c)
  PROVE  ItemInv' /\ Present' = Present \cup {counter'}
<1> USE DEF AllocMove
<1>1. SequencesUnique'
  BY DEF ItemInv, SequencesUnique, HandsKept
<1>2. counter \in Nat
  BY DEF TypeOK, TypeScalars
<1> QED
  BY <1>1, <1>2, AllocSets DEF ItemInv

LEMMA Enqueue ==
  ASSUME ItemInv, TypeOK, NEW c \in Callers, NEW i \in Nat, EnqueueMove(c, i)
  PROVE  ItemInv' /\ Present' = Present
<1> USE DEF EnqueueMove
<1>1. i \notin Queued
  BY DEF ItemInv, Apart, HandsApart
<1>2. Queued' = Queued \cup {i} /\ IsInjective(itemQueue')
  BY <1>1, AppendRange DEF Queued, ItemInv, SequencesUnique, TypeOK, TypeQueues
<1>3. SequencesUnique'
  BY <1>2 DEF ItemInv, SequencesUnique, HandsKept
<1> QED
  BY <1>2, <1>3, EnqueueSets DEF ItemInv

(* The queue after its head was taken. *)
LEMMA Popped ==
  ASSUME ItemInv, TypeOK, itemQueue # << >>, itemQueue' = Tail(itemQueue)
  PROVE  /\ Head(itemQueue) \in Queued /\ Head(itemQueue) \in Nat
         /\ Queued' = Queued \ {Head(itemQueue)}
         /\ IsInjective(itemQueue')
<1>1. itemQueue \in Seq(Nat) /\ IsInjective(itemQueue)
  BY DEF ItemInv, SequencesUnique, TypeOK, TypeQueues
<1>2. /\ Range(itemQueue) = Range(Tail(itemQueue)) \cup {Head(itemQueue)}
      /\ Head(itemQueue) \notin Range(Tail(itemQueue))
      /\ IsInjective(Tail(itemQueue))
  BY <1>1, TailRange
<1>3. Head(itemQueue) \in Nat
  BY <1>1, SeqTypes
<1> QED
  BY <1>2, <1>3 DEF Queued

LEMMA Drain ==
  ASSUME ItemInv, TypeOK, NEW c \in Callers,
         DrainMove(c)
  PROVE  ItemInv' /\ Present' = Present
<1> USE DEF DrainMove
<1>1. /\ Head(itemQueue) \in Queued /\ Head(itemQueue) \in Nat
      /\ Queued' = Queued \ {Head(itemQueue)} /\ IsInjective(itemQueue')
  BY Popped
<1>2. Head(itemQueue) \notin Range(Draining(c)) /\ IsInjective(Draining(c))
  BY <1>1 DEF ItemInv, Apart, HandsApart, SequencesUnique
<1>3. /\ InHand(c)' = InHand(c) \cup {Head(itemQueue)}
      /\ IsInjective(Draining(c)')
  BY <1>1, <1>2, AppendRange
<1>4. SequencesUnique'
  BY <1>1, <1>3 DEF ItemInv, SequencesUnique, HandsKept
<1> QED
  BY <1>1, <1>3, <1>4, DrainSets DEF ItemInv

LEMMA Clear ==
  ASSUME ItemInv, TypeOK, ClearMove
  PROVE  ItemInv' /\ Present' = Present
<1> USE DEF ClearMove
<1>1. SequencesUnique'
  BY Popped DEF ItemInv, SequencesUnique, HandsKept
<1> QED
  BY <1>1, Popped, ClearSets DEF ItemInv

(* The saver of SnapshotQueue takes items out. *)
LEMMA Leave ==
  ASSUME ItemInv, TypeOK, HandsKept({}), WorkKept({}),
         UNCHANGED <<ran, dropped, counter>>,
         itemQueue # << >>, itemQueue' = Tail(itemQueue)
  PROVE  ItemInv' /\ Present' = Present \ {Head(itemQueue)}
<1>1. SequencesUnique'
  BY Popped DEF ItemInv, SequencesUnique, HandsKept
<1> QED
  BY <1>1, Popped, LeaveSets DEF ItemInv

LEMMA Take ==
  ASSUME ItemInv, TypeOK, NEW w \in Workers, HandsKept({}), WorkKept({w}),
         UNCHANGED <<ran, dropped, counter>>,
         itemQueue # << >>, itemQueue' = Tail(itemQueue),
         InWork(w) = {}, InWork(w)' = {Head(itemQueue)}, Unstarted(w)'
  PROVE  ItemInv' /\ Present' = Present
<1>1. SequencesUnique'
  BY Popped DEF ItemInv, SequencesUnique, HandsKept
<1> QED
  BY <1>1, Popped, TakeSets DEF ItemInv

LEMMA Discard ==
  ASSUME ItemInv, NEW w \in Workers, NEW i, Unstarted(w), InWork(w) = {i},
         HandsKept({}), WorkKept({w}), UNCHANGED <<itemQueue, ran, counter>>,
         InWork(w)' = {}, dropped' = dropped \cup {i}
  PROVE  ItemInv' /\ Present' = Present
<1>1. SequencesUnique'
  BY DEF ItemInv, SequencesUnique, HandsKept
<1> QED
  BY <1>1, DiscardSets DEF ItemInv

LEMMA Run ==
  ASSUME ItemInv, TypeOK, NEW w \in Workers, NEW i \in Nat,
         Unstarted(w), InWork(w) = {i},
         HandsKept({}), WorkKept({w}), UNCHANGED <<itemQueue, dropped, counter>>,
         InWork(w)' = {i}, ~Unstarted(w)', ran' = Append(ran, i)
  PROVE  ItemInv' /\ Present' = Present
<1>1. i \notin Range(ran) /\ IsInjective(ran) /\ ran \in Seq(Nat)
  BY DEF ItemInv, SequencesUnique, Apart, WorkApart, TypeOK, TypeQueues
<1>2. Range(ran)' = Range(ran) \cup {i} /\ IsInjective(ran')
  BY <1>1, AppendRange
<1>3. SequencesUnique'
  BY <1>2 DEF ItemInv, SequencesUnique, HandsKept
<1> QED
  BY <1>2, <1>3, RunSets DEF ItemInv

LEMMA Release ==
  ASSUME ItemInv, NEW w \in Workers, ~Unstarted(w), InWork(w)' = {},
         HandsKept({}), WorkKept({w}),
         UNCHANGED <<itemQueue, ran, dropped, counter>>
  PROVE  ItemInv' /\ Present' = Present
<1>1. SequencesUnique'
  BY DEF ItemInv, SequencesUnique, HandsKept
<1> QED
  BY <1>1, ReleaseSets DEF ItemInv

-----------------------------------------------------------------------------
(* Every action is one of the moves. *)

(* What a step does to the items that are anywhere: none goes, and the     *)
(* only one that comes is the one with the next id.                        *)
Flow ==
  \/ counter' = counter /\ Present' = Present
  \/ counter' = counter + 1 /\ Present' = Present \cup {counter'}

(* A step of one caller leaves the place and the locals of the others      *)
(* alone, and so what they hold.                                           *)
LEMMA CallerLocals ==
  ASSUME TypeOK, NEW c \in Callers, CallBegins(c) \/ CallContinues(c),
         NEW d \in Callers \ {c}
  PROVE  cpc'[d] = cpc[d] /\ cId'[d] = cId[d] /\ cBuf'[d] = cBuf[d]
<1> USE DEF TypeOK, TypeCallers, Goto, Return
<1>1. CASE CallBegins(c)
  BY <1>1
     DEF CallBegins, PushBegin, BatchBegin, RemoveUnindex, GetBegin,
         GetBlockingBegin, ClearBegin, PendingBegin, Close, SetMode, Start
<1>2. CASE CallContinues(c)
  BY <1>2
     DEF CallContinues, PushAlloc, PushIndex, PushItem, BatchAlloc,
         BatchItem, BatchIndex, RemoveMark, GetPop, GetReturn, GetCount,
         GetBlockingPop, PopResult, ClearPop, ClearReturn, PendingPop,
         PendingPush
<1> QED
  BY <1>1, <1>2

LEMMA CallerFrame ==
  ASSUME TypeOK, NEW c \in Callers, CallBegins(c) \/ CallContinues(c)
  PROVE  HandsKept({c})
BY CallerLocals DEF HandsKept, InHand, Draining

(* It leaves the workers alone too: start moves none that holds an item.   *)
LEMMA CallerFrameWork ==
  ASSUME TypeOK, PoolOnce, NEW c \in Callers, CallBegins(c) \/ CallContinues(c)
  PROVE  WorkKept({})
<1>1. CASE Start(c)
  <2>1. \A w \in Workers : wpc[w] = "none" /\ wpc'[w] \in {"none", "pop"}
    BY <1>1 DEF Start, PoolOnce, TypeOK, TypeWorkers
  <2>2. wItem' = wItem
    BY <1>1 DEF Start
  <2> QED
    BY <2>1, <2>2 DEF WorkKept, InWork, Unstarted, Committed
<1>2. CASE ~Start(c)
  <2>1. UNCHANGED <<wpc, wItem>>
    BY <1>2
       DEF CallBegins, CallContinues, PushBegin, BatchBegin,
           RemoveUnindex, GetBegin, GetBlockingBegin, ClearBegin,
           PendingBegin, Close, SetMode, PushAlloc, PushIndex, PushItem,
           BatchAlloc, BatchItem, BatchIndex, RemoveMark, GetPop, GetReturn,
           GetCount, GetBlockingPop, PopResult, ClearPop, ClearReturn,
           PendingPop, PendingPush
  <2> QED
    BY <2>1 DEF WorkKept, InWork, Unstarted
<1> QED
  BY <1>1, <1>2

LEMMA BufStep ==
  ASSUME TypeOK, BufInUse, [Next]_vars
  PROVE  BufInUse'
<1> USE DEF TypeOK, TypeCallers, BufInUse, Goto, Return
<1>1. CASE UNCHANGED vars
  BY <1>1 DEF vars
<1>2. ASSUME NEW c \in Callers, CallBegins(c) PROVE BufInUse'
  BY <1>2
     DEF CallBegins, PushBegin, BatchBegin, RemoveUnindex, GetBegin,
         GetBlockingBegin, ClearBegin, PendingBegin, Close, SetMode, Start,
         CanCall
<1>3. ASSUME NEW c \in Callers, CallContinues(c) PROVE BufInUse'
  BY <1>3
     DEF CallContinues, PushAlloc, PushIndex, PushItem, BatchAlloc,
         BatchItem, BatchIndex, RemoveMark, GetPop, GetReturn, GetCount,
         GetBlockingPop, PopResult, ClearPop, ClearReturn, PendingPop,
         PendingPush
<1>4. ASSUME NEW w \in Workers, WorkerStep(w) PROVE BufInUse'
  BY <1>4
     DEF WorkerStep, WorkerPop, WorkerEmpty, WorkerCheck, WorkerEnter,
         WorkerCall, WorkerReturn, WorkerPush, WorkerError, WorkerCount,
         WorkerLeave
<1> QED
  BY <1>1, <1>2, <1>3, <1>4 DEF Next

(* A call that takes a step without moving an item. *)
LEMMA CallerKeep ==
  ASSUME TypeOK, BufInUse, PoolOnce, NEW c \in Callers,
         CallBegins(c) \/ PushIndex(c) \/ BatchIndex(c) \/ RemoveMark(c)
           \/ GetPop(c) \/ GetReturn(c) \/ GetCount(c) \/ GetBlockingPop(c)
           \/ ClearReturn(c)
  PROVE  KeepMove
<1>1. HandsKept({c}) /\ WorkKept({})
  BY CallerFrame, CallerFrameWork DEF CallContinues
<1>2. UNCHANGED <<itemQueue, ran, dropped, counter>>
  BY DEF CallBegins, PushBegin, BatchBegin, RemoveUnindex, GetBegin,
         GetBlockingBegin, ClearBegin, PendingBegin, Close, SetMode, Start,
         PushIndex, BatchIndex, RemoveMark, GetPop, GetReturn, GetCount,
         GetBlockingPop, PopResult, ClearReturn
<1> USE DEF TypeOK, TypeCallers, BufInUse, Goto, Return, Draining,
            InHand
<1>3. CASE CallBegins(c)
  <2>1. Draining(c)' = Draining(c) /\ InHand(c)' = InHand(c)
    BY <1>3
       DEF CallBegins, PushBegin, BatchBegin, RemoveUnindex, GetBegin,
           GetBlockingBegin, ClearBegin, PendingBegin, Close, SetMode, Start,
           CanCall
  <2> QED
    BY <2>1, <1>1, <1>2 DEF HandsKept, KeepMove
<1>4. CASE ~CallBegins(c)
  <2>1. Draining(c)' = Draining(c) /\ InHand(c)' = InHand(c)
    BY <1>4
       DEF PushIndex, BatchIndex, RemoveMark, GetPop, GetReturn, GetCount,
           GetBlockingPop, PopResult, ClearReturn
  <2> QED
    BY <2>1, <1>1, <1>2 DEF HandsKept, KeepMove
<1> QED
  BY <1>3, <1>4

(* The steps of a call that move one. *)
LEMMA CallerMove ==
  ASSUME ItemInv, TypeOK, BufInUse, PoolOnce, NEW c \in Callers,
         CallBegins(c) \/ CallContinues(c)
  PROVE  \/ KeepMove \/ AllocMove(c) \/ DrainMove(c) \/ ClearMove
         \/ \E i \in Nat : EnqueueMove(c, i)
<1>1. HandsKept({c}) /\ WorkKept({})
  BY CallerFrame, CallerFrameWork
<1>2. cpc \in [Callers -> CallerPlaces] /\ cId \in [Callers -> Nat] /\ cBuf \in [Callers -> Seq(Nat)]
  BY DEF TypeOK, TypeCallers
<1>3. CASE PushAlloc(c) \/ BatchAlloc(c)
  <2>1. /\ Draining(c)' = Draining(c) /\ InHand(c) = {}
        /\ InHand(c)' = {counter + 1} /\ counter' = counter + 1
        /\ UNCHANGED <<itemQueue, ran, dropped>>
    BY <1>2, <1>3
       DEF PushAlloc, BatchAlloc, Goto, InHand, Draining, Range
  <2> QED
    BY <1>1, <2>1 DEF AllocMove
<1>4. CASE PushItem(c) \/ BatchItem(c)
  <2>1. /\ InHand(c) = {cId[c]} /\ InHand(c)' = {} /\ Draining(c)' = << >>
        /\ itemQueue' = Append(itemQueue, cId[c])
        /\ UNCHANGED <<ran, dropped, counter>>
    BY <1>2, <1>4
       DEF PushItem, BatchItem, Goto, Return, InHand, Draining, Range
  <2>2. IsInjective(Draining(c)') /\ cId[c] \in Nat
    BY <1>2, <2>1 DEF IsInjective
  <2> QED
    BY <1>1, <2>1, <2>2 DEF EnqueueMove
<1>5. CASE PendingPop(c)
  <2>1. CASE itemQueue = << >>
    <3>1. /\ Draining(c)' = Draining(c) /\ InHand(c)' = InHand(c)
          /\ UNCHANGED <<itemQueue, ran, dropped, counter>>
      BY <1>2, <1>5, <2>1 DEF PendingPop, Goto, InHand, Draining
    <3> QED
      BY <1>1, <3>1 DEF HandsKept, KeepMove
  <2>2. CASE itemQueue # << >>
    <3>1. /\ Draining(c) = cBuf[c] /\ Draining(c)' = Append(cBuf[c], Head(itemQueue))
          /\ itemQueue' = Tail(itemQueue)
          /\ UNCHANGED <<ran, dropped, counter>>
      BY <1>2, <1>5, <2>2 DEF PendingPop, Draining
    <3>2. InHand(c) = Range(Draining(c)) /\ InHand(c)' = Range(Draining(c)')
      BY <1>2, <1>5, <2>2 DEF PendingPop, InHand
    <3> QED
      BY <1>1, <1>2, <2>2, <3>1, <3>2 DEF DrainMove
  <2> QED
    BY <2>1, <2>2
<1>6. CASE PendingPush(c)
  <2>1. CASE cBuf[c] = << >>
    <3>1. /\ Draining(c)' = Draining(c) /\ InHand(c)' = InHand(c)
          /\ UNCHANGED <<itemQueue, ran, dropped, counter>>
      BY <1>2, <1>6, <2>1 DEF PendingPush, Return, Goto, InHand, Draining
    <3> QED
      BY <1>1, <3>1 DEF HandsKept, KeepMove
  <2>2. CASE cBuf[c] # << >>
    <3> DEFINE i == Head(cBuf[c])
    <3>1. /\ Draining(c) = cBuf[c] /\ Draining(c)' = Tail(cBuf[c])
          /\ itemQueue' = Append(itemQueue, i)
          /\ UNCHANGED <<ran, dropped, counter>>
      BY <1>2, <1>6, <2>2 DEF PendingPush, Draining
    <3>2. InHand(c) = Range(cBuf[c]) /\ InHand(c)' = Range(Tail(cBuf[c]))
      BY <3>1, <1>2, <1>6, <2>2 DEF PendingPush, InHand
    <3>3. cBuf[c] \in Seq(Nat) /\ IsInjective(cBuf[c]) /\ i \in Nat
      BY <1>2, <2>2, <3>1, SeqTypes DEF ItemInv, SequencesUnique
    <3>4. /\ Range(cBuf[c]) = Range(Tail(cBuf[c])) \cup {i}
          /\ i \notin Range(Tail(cBuf[c])) /\ IsInjective(Tail(cBuf[c]))
      BY <2>2, <3>3, TailRange
    <3>5. i \in InHand(c) /\ InHand(c)' = InHand(c) \ {i}
      BY <3>2, <3>4
    <3>6. IsInjective(Draining(c)')
      BY <3>1, <3>4
    <3> HIDE DEF i
    <3> QED
      BY <1>1, <3>1, <3>3, <3>5, <3>6 DEF EnqueueMove
  <2> QED
    BY <2>1, <2>2
<1>7. CASE ClearPop(c)
  <2>1. /\ itemQueue # << >> /\ itemQueue' = Tail(itemQueue)
        /\ dropped' = dropped \cup {Head(itemQueue)}
        /\ UNCHANGED <<ran, counter, callers>>
    BY <1>7 DEF ClearPop
  <2>2. HandsKept({})
    BY <2>1 DEF HandsKept, InHand, Draining
  <2> QED
    BY <1>1, <2>1, <2>2 DEF ClearMove
<1> QED
  BY <1>3, <1>4, <1>5, <1>6, <1>7, CallerKeep DEF CallContinues

LEMMA CallerItems ==
  ASSUME ItemInv, TypeOK, BufInUse, PoolOnce, NEW c \in Callers,
         CallBegins(c) \/ CallContinues(c)
  PROVE  ItemInv' /\ Flow
<1>1. CASE AllocMove(c)
  BY <1>1, Alloc DEF AllocMove, Flow
<1>2. CASE ~AllocMove(c)
  BY <1>2, CallerMove, Keep, Enqueue, Drain, Clear
     DEF KeepMove, EnqueueMove, DrainMove, ClearMove, Flow
<1> QED
  BY <1>1, <1>2

(* A step of one worker leaves callers and other workers alone. *)
LEMMA WorkerFrame ==
  ASSUME TypeOK, NEW w \in Workers, WorkerStep(w)
  PROVE  HandsKept({}) /\ WorkKept({w}) /\ UNCHANGED counter
<1> USE DEF WorkerStep, WorkerPop, WorkerEmpty, WorkerCheck, WorkerEnter,
            WorkerCall, WorkerReturn, WorkerPush, WorkerError, WorkerCount,
            WorkerLeave, WorkerGoto
<1>1. UNCHANGED <<callers, counter>>
  OBVIOUS
<1>2. ASSUME NEW v \in Workers \ {w}
      PROVE  wpc'[v] = wpc[v] /\ wItem'[v] = wItem[v]
  BY <1>2 DEF TypeOK, TypeWorkers
<1>3. HandsKept({})
  BY <1>1 DEF HandsKept, InHand, Draining
<1>4. WorkKept({w})
  BY <1>2 DEF WorkKept, InWork, Unstarted
<1> QED
  BY <1>1, <1>3, <1>4

LEMMA WorkerItems ==
  ASSUME ItemInv, TypeOK, NEW w \in Workers, WorkerStep(w)
  PROVE  ItemInv' /\ counter' = counter /\ Present' = Present
<1>1. HandsKept({}) /\ WorkKept({w}) /\ UNCHANGED counter
  BY WorkerFrame
<1>2. wpc \in [Workers -> WorkerPlaces] /\ wItem \in [Workers -> Nat]
  BY DEF TypeOK, TypeWorkers
<1> USE DEF WorkerGoto, InWork, Unstarted, Committed
<1>3. CASE WorkerPop(w)
  <2>1. CASE itemQueue = << >>
    <3>1. /\ InWork(w)' = InWork(w) /\ Unstarted(w)' = Unstarted(w)
          /\ UNCHANGED <<itemQueue, ran, dropped>>
      BY <1>2, <1>3, <2>1 DEF WorkerPop
    <3> QED
      BY <1>1, <3>1, Keep DEF WorkKept, KeepMove
  <2>2. CASE itemQueue # << >>
    <3>1. /\ InWork(w) = {} /\ InWork(w)' = {Head(itemQueue)} /\ Unstarted(w)'
          /\ itemQueue' = Tail(itemQueue) /\ UNCHANGED <<ran, dropped>>
      BY <1>2, <1>3, <2>2 DEF WorkerPop
    <3> QED
      BY <1>1, <2>2, <3>1, Take
  <2> QED
    BY <2>1, <2>2
<1>4. CASE WorkerCheck(w)
  <2>1. CASE wItem[w] \in removedGuids
    <3>1. /\ InWork(w) = {wItem[w]} /\ Unstarted(w) /\ InWork(w)' = {}
          /\ dropped' = dropped \cup {wItem[w]} /\ UNCHANGED <<itemQueue, ran>>
      BY <1>2, <1>4, <2>1 DEF WorkerCheck
    <3> QED
      BY <1>1, <3>1, Discard
  <2>2. CASE wItem[w] \notin removedGuids
    <3>1. /\ InWork(w)' = InWork(w) /\ Unstarted(w)' = Unstarted(w)
          /\ UNCHANGED <<itemQueue, ran, dropped>>
      BY <1>2, <1>4, <2>2 DEF WorkerCheck
    <3> QED
      BY <1>1, <3>1, Keep DEF WorkKept, KeepMove
  <2> QED
    BY <2>1, <2>2
<1>5. CASE WorkerCall(w)
  <2>1. /\ InWork(w) = {wItem[w]} /\ Unstarted(w)
        /\ InWork(w)' = {wItem[w]} /\ ~Unstarted(w)'
        /\ ran' = Append(ran, wItem[w]) /\ UNCHANGED <<itemQueue, dropped>>
        /\ wItem[w] \in Nat
    BY <1>2, <1>5 DEF WorkerCall
  <2> QED
    BY <1>1, <2>1, Run
<1>6. CASE WorkerLeave(w)
  <2>1. /\ ~Unstarted(w) /\ InWork(w)' = {}
        /\ UNCHANGED <<itemQueue, ran, dropped>>
    BY <1>2, <1>6 DEF WorkerLeave
  <2> QED
    BY <1>1, <2>1, Release
<1>7. ASSUME WorkerEmpty(w) \/ WorkerEnter(w) \/ WorkerReturn(w)
               \/ WorkerPush(w) \/ WorkerError(w) \/ WorkerCount(w)
      PROVE  ItemInv' /\ Present' = Present
  <2>1. UNCHANGED <<itemQueue, ran, dropped, wItem>>
    BY <1>7 DEF WorkerEmpty, WorkerEnter, WorkerReturn, WorkerPush,
                WorkerError, WorkerCount
  <2>2. CASE WorkerEmpty(w)
    BY <1>1, <1>2, <2>1, <2>2, Keep DEF WorkKept, KeepMove, WorkerEmpty
  <2>3. CASE WorkerEnter(w)
    BY <1>1, <1>2, <2>1, <2>3, Keep DEF WorkKept, KeepMove, WorkerEnter
  <2>4. CASE ~WorkerEmpty(w) /\ ~WorkerEnter(w)
    <3>1. /\ wpc[w] \in {"running", "push", "err", "count"}
          /\ wpc'[w] \in {"running", "push", "err", "count", "leave"}
      BY <1>2, <1>7, <2>4 DEF WorkerReturn, WorkerPush, WorkerError, WorkerCount
    <3> QED
      BY <1>1, <2>1, <3>1, Keep DEF WorkKept, KeepMove
  <2> QED
    BY <2>2, <2>3, <2>4
<1> QED
  BY <1>1, <1>3, <1>4, <1>5, <1>6, <1>7 DEF WorkerStep

-----------------------------------------------------------------------------
SafeInv == TypeInv /\ BufInUse /\ ItemInv /\ NoItemLost

LEMMA InitSafe == Init => SafeInv
<1> SUFFICES ASSUME Init PROVE SafeInv
  OBVIOUS
<1> USE DEF Init
<1>1. Range(<< >>) = {} /\ IsInjective(<< >>)
  BY DEF Range, IsInjective
<1>2. \A c \in Callers : Draining(c) = << >> /\ InHand(c) = {}
  BY <1>1 DEF Draining, InHand
<1>3. \A w \in Workers : InWork(w) = {}
  BY DEF InWork, Committed
<1>4. Queued = {} /\ Range(ran) = {} /\ dropped = {} /\ 1 .. counter = {}
  BY <1>1 DEF Queued
<1>5. BufInUse
  BY DEF BufInUse
<1>6. SequencesUnique
  BY <1>1, <1>2 DEF SequencesUnique
<1> HIDE DEF Init
<1>7. HandsApart /\ WorkApart /\ SettledApart /\ StartedRan
  BY <1>2, <1>3, <1>4
     DEF HandsApart, WorkApart, SettledApart, StartedRan
<1>8. Present = {}
  BY <1>2, <1>3, <1>4 DEF Present, Hands, Work
<1>9. Fresh /\ NoItemLost
  BY <1>4, <1>8, NoneLost DEF Fresh
<1> QED
  BY <1>5, <1>6, <1>7, <1>9, InitType DEF SafeInv, ItemInv, Apart

LEMMA ItemStep ==
  ASSUME TypeInv, BufInUse, ItemInv, [Next]_vars
  PROVE  ItemInv' /\ Flow
<1>1. CASE UNCHANGED vars
  <2>1. HandsKept({}) /\ WorkKept({})
    BY <1>1 DEF HandsKept, WorkKept, InHand, Draining, InWork, Unstarted, vars
  <2> QED
    BY <1>1, <2>1, Keep DEF KeepMove, Flow, vars
<1>2. CASE Next
  BY <1>2, CallerItems, WorkerItems DEF Next, TypeInv, Flow
<1> QED
  BY <1>1, <1>2

LEMMA SafeStep == SafeInv /\ [Next]_vars => SafeInv'
<1> SUFFICES ASSUME SafeInv, [Next]_vars PROVE SafeInv'
  OBVIOUS
<1> USE DEF SafeInv
<1>1. TypeInv'
  BY TypeInvStep
<1>2. BufInUse'
  BY BufStep DEF TypeInv
<1>3. ItemInv' /\ Flow
  BY ItemStep
<1>4. NoItemLost'
  <2>1. counter \in Nat
    BY DEF TypeInv, TypeOK, TypeScalars
  <2>2. 1 .. counter + 1 = 1 .. counter \cup {counter + 1}
    BY <2>1
  <2> QED
    BY <1>3, <2>2, NoneLost DEF Flow
<1> QED
  BY <1>1, <1>2, <1>3, <1>4

LEMMA Safe == Spec => []SafeInv
BY InitSafe, SafeStep, PTL DEF Spec

(* An item is never in two places, nor twice in one: it runs at most once, *)
(* and not at all when it was cleared or found removed.                    *)
THEOREM ItemsStayUnique == Spec => []ItemsUnique
<1>1. SafeInv => ItemsUnique
  BY DEF SafeInv, ItemInv, Apart, ItemsUnique
<1> QED
  BY Safe, <1>1, PTL

(* An id that was issued stands for an item that is somewhere.             *)
THEOREM NothingLost == Spec => []NoItemLost
<1>1. SafeInv => NoItemLost
  BY DEF SafeInv
<1> QED
  BY Safe, <1>1, PTL

-----------------------------------------------------------------------------
(* When a pool started in sequential mode runs items in the order their    *)
(* ids were issued: with one caller, or with the interpreter lock, which   *)
(* makes a push one step for the others, and as long as nobody calls       *)
(* pending_items, which takes the items out and puts them back while the   *)
(* worker pops.                                                            *)

CallsInTurn ==
  /\ Gil \/ \A c, d \in Callers : c = d
  /\ "pending_items" \notin Ops

(* One call at a time, and never pending_items. *)
CallsAlone ==
  /\ \A c, d \in Callers : cpc[c] # "idle" /\ cpc[d] # "idle" => c = d
  /\ \A c \in Callers : cpc[c] \notin {"pendPop", "pendPush"}

(* The item being pushed is the last one that got an id. *)
LastIssued ==
  \A c \in Callers :
    cpc[c] \in {"pushIndex", "pushItem", "batchItem"} => cId[c] = counter

(* The mode of the pool is settled when it is started, and a pool that is  *)
(* not parallel has no second worker.                                      *)
ModeSettled == startedMode = "none" \/ workersStarted

WorksAlone ==
  startedMode # "Parallel" => \A w \in Workers \ {1} : wpc[w] = "none"

(* Ids grow to the end of the queue, and without a second worker from the  *)
(* items that ran over the one at the worker to the head of the queue.     *)
RanInOrder ==
  /\ Ascends(ran)
  /\ \A i \in Queued : \A j \in Range(ran) \cup InWork(1) : j < i
  /\ Unstarted(1) => \A i \in InWork(1), j \in Range(ran) : j < i

InOrder == Ascends(itemQueue) /\ (startedMode # "Parallel" => RanInOrder)

OrderInv ==
  SafeInv /\ CallsAlone /\ LastIssued /\ ModeSettled /\ WorksAlone /\ InOrder

LEMMA FirstWorker == 1 \in Workers
BY CpuAssumption DEF Workers, MaxWorkers

(* Every id in the queue, at the worker or run was issued.                 *)
LEMMA Issued ==
  ASSUME ItemInv
  PROVE  Queued \cup InWork(1) \cup Range(ran) \subseteq 0 .. counter
BY FirstWorker DEF ItemInv, Apart, Fresh, Present, Work

LEMMA CallsAloneStep ==
  ASSUME CallsInTurn, TypeOK, CallsAlone, [Next]_vars
  PROVE  CallsAlone'
<1>0. cpc \in [Callers -> CallerPlaces]
  BY DEF TypeOK, TypeCallers
<1>1. ASSUME NEW c \in Callers, CallBegins(c) PROVE CallsAlone'
  <2>1. \A d \in Callers : cpc[d] = "idle"
    BY <1>1
       DEF CallBegins, PushBegin, BatchBegin, RemoveUnindex, GetBegin,
           GetBlockingBegin, ClearBegin, PendingBegin, Close, SetMode, Start,
           CanCall, GilFree, CallsInTurn
  <2>2. \A d \in Callers \ {c} : cpc'[d] = cpc[d]
    BY <1>1, CallerLocals
  <2>3. cpc'[c] \notin {"pendPop", "pendPush"}
    BY <1>0, <1>1, <2>1
       DEF CallBegins, PushBegin, BatchBegin, RemoveUnindex, GetBegin,
           GetBlockingBegin, ClearBegin, PendingBegin, Close, SetMode, Start,
           CanCall, CallsInTurn, Goto
  <2> QED
    BY <2>1, <2>2, <2>3 DEF CallsAlone
<1>2. ASSUME NEW c \in Callers, CallContinues(c) PROVE CallsAlone'
  <2>1. cpc[c] # "idle"
    BY <1>2
       DEF CallContinues, PushAlloc, PushIndex, PushItem, BatchAlloc,
           BatchItem, BatchIndex, RemoveMark, GetPop, GetReturn, GetCount,
           GetBlockingPop, PopResult, ClearPop, ClearReturn, PendingPop,
           PendingPush
  <2>2. \A d \in Callers \ {c} : cpc'[d] = cpc[d]
    BY <1>2, CallerLocals
  <2>3. cpc'[c] \notin {"pendPop", "pendPush"}
    BY <1>0, <1>2
       DEF CallContinues, PushAlloc, PushIndex, PushItem, BatchAlloc,
           BatchItem, BatchIndex, RemoveMark, GetPop, GetReturn, GetCount,
           GetBlockingPop, PopResult, ClearPop, ClearReturn, PendingPop,
           PendingPush, Goto, Return, CallsAlone
  <2> QED
    BY <2>1, <2>2, <2>3 DEF CallsAlone
<1>3. ASSUME NEW w \in Workers, WorkerStep(w) PROVE CallsAlone'
  <2>1. cpc' = cpc
    BY <1>3 DEF WorkerStep, WorkerPop, WorkerEmpty, WorkerCheck, WorkerEnter,
                WorkerCall, WorkerReturn, WorkerPush, WorkerError,
                WorkerCount, WorkerLeave
  <2> QED
    BY <2>1 DEF CallsAlone
<1>4. CASE UNCHANGED vars
  BY <1>4 DEF CallsAlone, vars
<1> QED
  BY <1>1, <1>2, <1>3, <1>4 DEF Next

LEMMA LastIssuedStep ==
  ASSUME TypeOK, CallsAlone, LastIssued, [Next]_vars
  PROVE  LastIssued'
<1>0. cpc \in [Callers -> CallerPlaces] /\ cId \in [Callers -> Nat]
  BY DEF TypeOK, TypeCallers
<1>1. ASSUME NEW c \in Callers, PushAlloc(c) \/ BatchAlloc(c)
      PROVE  LastIssued'
  <2>1. /\ counter' = counter + 1 /\ cId'[c] = counter + 1
        /\ cpc[c] # "idle"
    BY <1>0, <1>1 DEF PushAlloc, BatchAlloc
  <2>2. \A d \in Callers \ {c} : cpc'[d] = "idle"
    BY <1>1, <2>1, CallerLocals DEF CallsAlone, CallContinues
  <2> QED
    BY <2>1, <2>2 DEF LastIssued
<1>2. ASSUME NEW c \in Callers, CallBegins(c) \/ CallContinues(c),
             ~PushAlloc(c), ~BatchAlloc(c)
      PROVE  LastIssued'
  <2>1. counter' = counter
    BY <1>2
       DEF CallBegins, CallContinues, PushBegin, BatchBegin, RemoveUnindex,
           GetBegin, GetBlockingBegin, ClearBegin, PendingBegin, Close,
           SetMode, Start, PushIndex, PushItem, BatchItem, BatchIndex,
           RemoveMark, GetPop, GetReturn, GetCount, GetBlockingPop,
           PopResult, ClearPop, ClearReturn, PendingPop, PendingPush
  <2>2. cpc'[c] \in {"pushIndex", "pushItem", "batchItem"} => cId'[c] = counter
    BY <1>0, <1>2
       DEF CallBegins, CallContinues, PushBegin, BatchBegin, RemoveUnindex,
           GetBegin, GetBlockingBegin, ClearBegin, PendingBegin, Close,
           SetMode, Start, PushIndex, PushItem, BatchItem, BatchIndex,
           RemoveMark, GetPop, GetReturn, GetCount, GetBlockingPop,
           PopResult, ClearPop, ClearReturn, PendingPop, PendingPush, Goto,
           Return, CanCall, LastIssued
  <2>3. \A d \in Callers \ {c} : cpc'[d] = cpc[d] /\ cId'[d] = cId[d]
    BY <1>2, CallerLocals
  <2> QED
    BY <2>1, <2>2, <2>3 DEF LastIssued
<1>3. ASSUME NEW w \in Workers, WorkerStep(w) PROVE LastIssued'
  <2>1. UNCHANGED <<cpc, cId, counter>>
    BY <1>3 DEF WorkerStep, WorkerPop, WorkerEmpty, WorkerCheck, WorkerEnter,
                WorkerCall, WorkerReturn, WorkerPush, WorkerError,
                WorkerCount, WorkerLeave
  <2> QED
    BY <2>1 DEF LastIssued
<1>4. CASE UNCHANGED vars
  BY <1>4 DEF LastIssued, vars
<1> QED
  BY <1>1, <1>2, <1>3, <1>4 DEF Next

(* The step that settles the mode is Start. *)
LEMMA ModeStep ==
  ASSUME [Next]_vars, \A c \in Callers : ~Start(c)
  PROVE  UNCHANGED <<startedMode, workersStarted>>
<1>1. ASSUME NEW c \in Callers, CallBegins(c) \/ CallContinues(c)
      PROVE  UNCHANGED <<startedMode, workersStarted>>
  BY <1>1
     DEF CallBegins, CallContinues, PushBegin, BatchBegin, RemoveUnindex,
         GetBegin, GetBlockingBegin, ClearBegin, PendingBegin, Close,
         SetMode, PushAlloc, PushIndex, PushItem, BatchAlloc, BatchItem,
         BatchIndex, RemoveMark, GetPop, GetReturn, GetCount,
         GetBlockingPop, PopResult, ClearPop, ClearReturn, PendingPop,
         PendingPush
<1>2. ASSUME NEW w \in Workers, WorkerStep(w)
      PROVE  UNCHANGED <<startedMode, workersStarted>>
  BY <1>2 DEF WorkerStep, WorkerPop, WorkerEmpty, WorkerCheck, WorkerEnter,
              WorkerCall, WorkerReturn, WorkerPush, WorkerError, WorkerCount,
              WorkerLeave
<1>3. CASE UNCHANGED vars
  BY <1>3 DEF vars
<1> QED
  BY <1>1, <1>2, <1>3 DEF Next

LEMMA ModeSettledStep ==
  ASSUME ModeSettled, [Next]_vars
  PROVE  ModeSettled'
<1>1. ASSUME NEW c \in Callers, Start(c) PROVE ModeSettled'
  BY <1>1 DEF Start, ModeSettled
<1> QED
  BY <1>1, ModeStep DEF ModeSettled

LEMMA WorksAloneStep ==
  ASSUME TypeInv, ModeSettled, WorksAlone, [Next]_vars
  PROVE  WorksAlone'
<1>0. /\ wpc \in [Workers -> WorkerPlaces]
      /\ mode \in Modes /\ PoolOnce
  BY DEF TypeInv, TypeOK, TypeWorkers, TypeScalars
<1>1. ASSUME NEW c \in Callers, Start(c), startedMode' # "Parallel",
             NEW w \in Workers \ {1}
      PROVE  wpc'[w] = "none"
  <2>1. mode = "Sequential"
    BY <1>0, <1>1, ModeAssumption DEF Start
  <2>2. \A n \in Requests : PoolSize(n) = 1
    BY <2>1 DEF PoolSize
  <2>3. wpc' = [v \in Workers |-> IF v <= 1 THEN "pop" ELSE wpc[v]]
    BY <1>1, <2>2 DEF Start
  <2>4. wpc[w] = "none"
    BY <1>0, <1>1 DEF Start, PoolOnce
  <2>5. ~(w <= 1)
    BY WorkersType DEF Workers
  <2> QED
    BY <2>3, <2>4, <2>5
<1>2. ASSUME NEW c \in Callers, CallBegins(c) \/ CallContinues(c), ~Start(c)
      PROVE  wpc' = wpc
  BY <1>2
     DEF CallBegins, CallContinues, PushBegin, BatchBegin, RemoveUnindex,
         GetBegin, GetBlockingBegin, ClearBegin, PendingBegin, Close,
         SetMode, PushAlloc, PushIndex, PushItem, BatchAlloc, BatchItem,
         BatchIndex, RemoveMark, GetPop, GetReturn, GetCount,
         GetBlockingPop, PopResult, ClearPop, ClearReturn, PendingPop,
         PendingPush
<1>3. ASSUME NEW w \in Workers, WorkerStep(w), startedMode # "Parallel"
      PROVE  \A v \in Workers \ {1} : wpc'[v] = "none"
  <2>1. wpc[w] # "none"
    BY <1>3 DEF WorkerStep, WorkerPop, WorkerEmpty, WorkerCheck, WorkerEnter,
                WorkerCall, WorkerReturn, WorkerPush, WorkerError,
                WorkerCount, WorkerLeave
  <2>2. \A v \in Workers \ {w} : wpc'[v] = wpc[v]
    BY <1>0, <1>3
       DEF WorkerStep, WorkerPop, WorkerEmpty, WorkerCheck, WorkerEnter,
           WorkerCall, WorkerReturn, WorkerPush, WorkerError, WorkerCount,
           WorkerLeave, WorkerGoto
  <2> QED
    BY <1>3, <2>1, <2>2 DEF WorksAlone
<1>4. CASE \E c \in Callers : Start(c)
  BY <1>1, <1>4 DEF WorksAlone
<1>5. CASE (\A c \in Callers : ~Start(c)) /\ wpc' = wpc
  BY <1>5, ModeStep DEF WorksAlone
<1>6. CASE (\A c \in Callers : ~Start(c)) /\ \E w \in Workers : WorkerStep(w)
  BY <1>3, <1>6, ModeStep DEF WorksAlone
<1>7. CASE UNCHANGED vars
  BY <1>7 DEF WorksAlone, vars
<1> QED
  BY <1>2, <1>4, <1>5, <1>6, <1>7 DEF Next

-----------------------------------------------------------------------------
(* A step of a caller, of whom one at a time is inside a method: the queue  *)
(* grows by the newest id or loses its head.                               *)
LEMMA CallerOrder ==
  ASSUME OrderInv, NEW c \in Callers, CallBegins(c) \/ CallContinues(c)
  PROVE  Ascends(itemQueue') /\ (RanInOrder => RanInOrder')
<1>1. ItemInv /\ TypeOK /\ BufInUse /\ PoolOnce /\ Ascends(itemQueue)
  BY DEF OrderInv, SafeInv, TypeInv, InOrder
<1>2. /\ itemQueue \in Seq(Nat) /\ ran \in Seq(Nat) /\ counter \in Nat
      /\ cpc \in [Callers -> CallerPlaces] /\ cId \in [Callers -> Nat]
  BY <1>1 DEF TypeOK, TypeQueues, TypeScalars, TypeCallers
<1>3. InWork(1)' = InWork(1) /\ Unstarted(1)' = Unstarted(1)
  BY <1>1, CallerFrameWork, FirstWorker DEF WorkKept
<1>4. ran' = ran
  BY DEF CallBegins, CallContinues, PushBegin, BatchBegin, RemoveUnindex,
         GetBegin, GetBlockingBegin, ClearBegin, PendingBegin, Close, SetMode,
         Start, PushAlloc, PushIndex, PushItem, BatchAlloc, BatchItem,
         BatchIndex, RemoveMark, GetPop, GetReturn, GetCount, GetBlockingPop,
         PopResult, ClearPop, ClearReturn, PendingPop, PendingPush
<1>5. CASE PushItem(c) \/ BatchItem(c)
  <2>1. /\ itemQueue' = Append(itemQueue, cId[c]) /\ cId[c] = counter
        /\ InHand(c) = {counter} /\ cpc[c] \in {"pushItem", "batchItem"}
    BY <1>5
       DEF PushItem, BatchItem, OrderInv, LastIssued, InHand, Draining, Range
  <2>2. \A x \in Queued \cup InWork(1) \cup Range(ran) : x < counter
    <3>1. counter \notin Queued \cup InWork(1) \cup Range(ran)
      BY <1>1, <2>1, FirstWorker DEF ItemInv, Apart, HandsApart
    <3> QED
      BY <1>1, <1>2, <3>1, Issued
  <2>3. Queued' = Queued \cup {counter} /\ Ascends(itemQueue')
    BY <1>1, <1>2, <2>1, <2>2, AppendRange, AscendsAppend DEF Queued
  <2> QED
    BY <1>3, <1>4, <2>2, <2>3 DEF RanInOrder
<1>6. CASE ClearPop(c)
  <2>1. itemQueue # << >> /\ itemQueue' = Tail(itemQueue)
    BY <1>6 DEF ClearPop
  <2>2. Queued' \subseteq Queued /\ Ascends(itemQueue')
    BY <1>1, <1>2, <2>1, Popped, AscendsTail
  <2> QED
    BY <1>3, <1>4, <2>2 DEF RanInOrder
<1>7. CASE ~PushItem(c) /\ ~BatchItem(c) /\ ~ClearPop(c)
  <2>1. itemQueue' = itemQueue
    BY <1>7
       DEF CallBegins, CallContinues, PushBegin, BatchBegin, RemoveUnindex,
           GetBegin, GetBlockingBegin, ClearBegin, PendingBegin, Close,
           SetMode, Start, PushAlloc, PushIndex, BatchAlloc, BatchIndex,
           RemoveMark, GetPop, GetReturn, GetCount, GetBlockingPop,
           PopResult, ClearReturn, PendingPop, PendingPush, OrderInv,
           CallsAlone
  <2> QED
    BY <1>1, <1>3, <1>4, <2>1 DEF RanInOrder, Queued
<1> QED
  BY <1>5, <1>6, <1>7

(* A worker takes nothing from the queue but its head. *)
LEMMA WorkerTakesHead ==
  ASSUME OrderInv, NEW w \in Workers, WorkerStep(w)
  PROVE  Ascends(itemQueue')
<1>1. itemQueue \in Seq(Nat) /\ Ascends(itemQueue)
  BY DEF OrderInv, SafeInv, TypeInv, TypeOK, TypeQueues, InOrder
<1>2. itemQueue' = itemQueue \/ (itemQueue # << >> /\ itemQueue' = Tail(itemQueue))
  BY DEF WorkerStep, WorkerPop, WorkerEmpty, WorkerCheck, WorkerEnter,
         WorkerCall, WorkerReturn, WorkerPush, WorkerError, WorkerCount,
         WorkerLeave
<1> QED
  BY <1>1, <1>2, AscendsTail

(* The step of a worker that is alone.                                     *)
LEMMA WorkerOrder ==
  ASSUME OrderInv, startedMode # "Parallel", NEW w \in Workers, WorkerStep(w)
  PROVE  RanInOrder'
<1>1. ItemInv /\ TypeOK /\ Ascends(itemQueue) /\ RanInOrder
  BY DEF OrderInv, SafeInv, TypeInv, InOrder
<1>2. /\ itemQueue \in Seq(Nat) /\ ran \in Seq(Nat)
      /\ wpc \in [Workers -> WorkerPlaces] /\ wItem \in [Workers -> Nat]
  BY <1>1 DEF TypeOK, TypeQueues, TypeWorkers
<1>3. w = 1
  BY DEF WorkerStep, WorkerPop, WorkerEmpty, WorkerCheck, WorkerEnter,
         WorkerCall, WorkerReturn, WorkerPush, WorkerError, WorkerCount,
         WorkerLeave, OrderInv, WorksAlone
<1>4. CASE WorkerPop(w) /\ itemQueue # << >>
  <2>1. /\ itemQueue' = Tail(itemQueue) /\ ran' = ran
        /\ InWork(1)' = {Head(itemQueue)}
    BY <1>2, <1>3, <1>4 DEF WorkerPop, WorkerGoto, InWork
  <2>2. /\ Head(itemQueue) \in Queued /\ Queued' \subseteq Queued
        /\ \A x \in Queued' : Head(itemQueue) < x
    BY <1>1, <1>2, <1>4, <2>1, Popped, AscendsTail DEF Queued
  <2> QED
    BY <1>1, <2>1, <2>2 DEF RanInOrder
<1>5. CASE WorkerCall(w)
  <2>1. /\ InWork(1) = {wItem[1]} /\ InWork(1)' = {wItem[1]} /\ Unstarted(1)
        /\ ~Unstarted(1)' /\ ran' = Append(ran, wItem[1])
        /\ itemQueue' = itemQueue
    BY <1>2, <1>3, <1>5
       DEF WorkerCall, WorkerGoto, InWork, Unstarted, Committed
  <2>2. wItem[1] \in Nat /\ Ascends(ran) /\ \A x \in Range(ran) : x < wItem[1]
    BY <1>1, <1>2, <1>3, <2>1 DEF RanInOrder
  <2>3. Range(ran') = Range(ran) \cup {wItem[1]} /\ Ascends(ran')
    BY <1>2, <2>1, <2>2, AppendRange, AscendsAppend
  <2> QED
    BY <1>1, <2>1, <2>3 DEF RanInOrder, Queued
<1>6. CASE ~WorkerCall(w) /\ ~(WorkerPop(w) /\ itemQueue # << >>)
  <2>1. UNCHANGED <<itemQueue, ran>>
    BY <1>6
       DEF WorkerStep, WorkerPop, WorkerEmpty, WorkerCheck, WorkerEnter,
           WorkerReturn, WorkerPush, WorkerError, WorkerCount, WorkerLeave
  <2>2. /\ InWork(1)' \subseteq InWork(1)
        /\ InWork(1)' = {} \/ (Unstarted(1)' => Unstarted(1))
    BY <1>2, <1>3, <1>6
       DEF WorkerStep, WorkerPop, WorkerEmpty, WorkerCheck, WorkerEnter,
           WorkerReturn, WorkerPush, WorkerError, WorkerCount, WorkerLeave,
           WorkerGoto, InWork, Unstarted, Committed
  <2> QED
    BY <1>1, <2>1, <2>2 DEF RanInOrder, Queued
<1> QED
  BY <1>4, <1>5, <1>6

LEMMA InitOrder == Init => OrderInv
<1> SUFFICES ASSUME Init PROVE OrderInv
  OBVIOUS
<1>1. SafeInv
  BY InitSafe
<1>2. CallsAlone /\ LastIssued /\ ModeSettled /\ WorksAlone
  BY DEF Init, CallsAlone, LastIssued, ModeSettled, WorksAlone
<1>3. InOrder
  <2>1. Queued = {} /\ Range(ran) = {} /\ InWork(1) = {}
    BY FirstWorker DEF Init, Queued, Range, InWork, Committed
  <2> QED
    BY <2>1 DEF Init, InOrder, RanInOrder, Ascends
<1> QED
  BY <1>1, <1>2, <1>3 DEF OrderInv

LEMMA OrderStep ==
  ASSUME CallsInTurn
  PROVE  OrderInv /\ [Next]_vars => OrderInv'
<1> SUFFICES ASSUME OrderInv, [Next]_vars PROVE OrderInv'
  OBVIOUS
<1>1. /\ SafeInv' /\ CallsAlone' /\ LastIssued' /\ ModeSettled'
      /\ WorksAlone'
  BY SafeStep, CallsAloneStep, LastIssuedStep, ModeSettledStep, WorksAloneStep
     DEF OrderInv, SafeInv, TypeInv
<1>2. startedMode' # "Parallel" => startedMode # "Parallel"
  <2>1. \A c \in Callers : Start(c) => startedMode = "none"
    BY DEF Start, OrderInv, ModeSettled
  <2> QED
    BY <2>1, ModeStep
<1>3. InOrder'
  <2>1. CASE UNCHANGED vars
    BY <2>1 DEF OrderInv, InOrder, RanInOrder, Queued, InWork, Unstarted, vars
  <2>2. CASE \E c \in Callers : CallBegins(c) \/ CallContinues(c)
    BY <1>2, <2>2, CallerOrder DEF OrderInv, InOrder
  <2>3. CASE \E w \in Workers : WorkerStep(w)
    BY <1>2, <2>3, WorkerTakesHead, WorkerOrder DEF InOrder
  <2> QED
    BY <2>1, <2>2, <2>3 DEF Next
<1> QED
  BY <1>1, <1>3 DEF OrderInv

(* With one call at a time and without pending_items, a pool started in    *)
(* sequential mode runs items in the order they were pushed, however       *)
(* calls, the worker, clear and removals interleave and whatever the mode  *)
(* is set to before and after.                                             *)
THEOREM RunsInOrder ==
  ASSUME CallsInTurn
  PROVE  Spec => []SequentialOrder
<1>1. OrderInv => SequentialOrder
  BY DEF OrderInv, InOrder, RanInOrder, Ascends, SequentialOrder
<1> QED
  BY InitOrder, OrderStep, <1>1, PTL DEF Spec
=============================================================================
