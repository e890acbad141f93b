--------------------- MODULE AsyncQueueRefinementProofs ---------------------
(***************************************************************************)
(* AsyncQueue implements JobQueue: every step of a caller or a worker is a *)
(* step of JobQueue or changes nothing of it.  With the invariant of       *)
(* AsyncQueueProofs it remains to say which step each move is.             *)
(***************************************************************************)
EXTENDS AsyncQueueProofs

(* What an action leaves unchanged it names by these groups of variables.  *)
USE DEF queues, counters, tallies, settings, guids, workers, locals, callers,
        history

(* A removal that was recorded in time is still recorded, and the item it  *)
(* names was not begun.                                                    *)
CancelInv == cancelled \subseteq removedGuids /\ CancelledNeverRuns

(* Items at workers that have looked their GUID up, and at those that have *)
(* not, are apart from each other and from what already ran.               *)
LEMMA WaitingApart ==
  ASSUME ItemInv
  PROVE  Waiting \cap (Running \cup Range(ran) \cup dropped) = {}
<1> SUFFICES ASSUME NEW i \in Waiting
             PROVE  i \notin Running /\ i \notin Range(ran) /\ i \notin dropped
  OBVIOUS
<1> USE DEF ItemInv, Apart, SettledApart, HandsApart, WorkApart
<1>1. CASE i \in Queued
  BY <1>1 DEF Running, At
<1>2. ASSUME NEW c \in Callers, i \in InHand(c)
      PROVE  i \notin Running /\ i \notin Range(ran) /\ i \notin dropped
  BY <1>2 DEF Running, At
<1>3. ASSUME NEW w \in At({"check"}), i \in InWork(w)
      PROVE  i \notin Running /\ i \notin Range(ran) /\ i \notin dropped
  <2>1. w \in Workers /\ wpc[w] = "check"
    BY DEF At
  <2>2. i \notin Range(ran) /\ i \notin dropped
    BY <1>3, <2>1 DEF Unstarted
  <2>3. \A v \in At(Committed) : v \in Workers /\ v # w
    BY <2>1 DEF At, Committed
  <2> QED
    BY <1>3, <2>1, <2>2, <2>3 DEF Running
<1> QED
  BY <1>1, <1>2, <1>3 DEF Waiting

(* Running and what waits at workers, when only one worker moved. *)
CheckedWork == UNION {InWork(w) : w \in At({"check"})}

LEMMA RunningUnion ==
  ASSUME NEW w \in Workers, WorkKept({w}),
         \A v \in Workers \ {w} : wpc'[v] = wpc[v]
  PROVE  /\ Running' \cup (IF wpc[w] \in Committed THEN InWork(w) ELSE {})
              = Running \cup (IF wpc'[w] \in Committed THEN InWork(w)' ELSE {})
         /\ CheckedWork' \cup (IF wpc[w] = "check" THEN InWork(w) ELSE {})
              = CheckedWork \cup (IF wpc'[w] = "check" THEN InWork(w)' ELSE {})
<1>1. \A x : x \in Running <=> \E v \in Workers : wpc[v] \in Committed /\ x \in InWork(v)
  BY DEF Running, At
<1>2. \A x : x \in Running' <=> \E v \in Workers : wpc'[v] \in Committed /\ x \in InWork(v)'
  BY DEF Running, At
<1>3. \A x : x \in CheckedWork <=> \E v \in Workers : wpc[v] = "check" /\ x \in InWork(v)
  BY DEF CheckedWork, At
<1>4. \A x : x \in CheckedWork' <=> \E v \in Workers : wpc'[v] = "check" /\ x \in InWork(v)'
  BY DEF CheckedWork, At
<1>5. Running' \cup (IF wpc[w] \in Committed THEN InWork(w) ELSE {})
        = Running \cup (IF wpc'[w] \in Committed THEN InWork(w)' ELSE {})
  BY <1>1, <1>2 DEF WorkKept
<1>6. CheckedWork' \cup (IF wpc[w] = "check" THEN InWork(w) ELSE {})
        = CheckedWork \cup (IF wpc'[w] = "check" THEN InWork(w)' ELSE {})
  BY <1>3, <1>4 DEF WorkKept
<1> QED
  BY <1>5, <1>6

(* A step of a caller changes nothing about what runs. *)
LEMMA CallerWork ==
  ASSUME TypeOK, PoolOnce, NEW c \in Callers, CallBegins(c) \/ CallContinues(c)
  PROVE  UNCHANGED <<Running, CheckedWork, Range(ran), Done>>
<1>1. ran' = ran
  BY DEF CallBegins, CallContinues, PushBegin, BatchBegin,
         RemoveUnindex, GetBegin, GetBlockingBegin, ClearBegin, PendingBegin,
         Close, SetMode, Start, PushAlloc, PushIndex, PushItem, BatchAlloc,
         BatchItem, BatchIndex, RemoveMark, GetPop, GetReturn, GetCount,
         GetBlockingPop, PopResult, ClearPop, ClearReturn, PendingPop,
         PendingPush
<1>2. \A w \in Workers : /\ wpc'[w] \in Committed <=> wpc[w] \in Committed
                         /\ wpc'[w] = "check" <=> wpc[w] = "check"
  <2>1. CASE Start(c)
    <3>1. \A w \in Workers : wpc[w] = "none" /\ wpc'[w] \in {"none", "pop"}
      BY <2>1 DEF Start, PoolOnce, TypeOK, TypeWorkers
    <3> QED
      BY <3>1 DEF Committed
  <2>2. CASE ~Start(c)
    BY <2>2
       DEF CallBegins, CallContinues, PushBegin, BatchBegin,
           RemoveUnindex, GetBegin, GetBlockingBegin, ClearBegin,
           PendingBegin, Close, SetMode, PushAlloc, PushIndex, PushItem,
           BatchAlloc, BatchItem, BatchIndex, RemoveMark, GetPop, GetReturn,
           GetCount, GetBlockingPop, PopResult, ClearPop, ClearReturn,
           PendingPop, PendingPush
  <2> QED
    BY <2>1, <2>2
<1>3. \A w \in Workers : InWork(w)' = InWork(w)
  BY CallerFrameWork DEF WorkKept
<1>4. UNCHANGED <<At(Committed), At({"check"})>>
  BY <1>2 DEF At
<1>5. \A w \in At(Committed) \cup At({"check"}) : w \in Workers
  BY DEF At
<1>6. UNCHANGED <<Running, CheckedWork>>
  BY <1>3, <1>4, <1>5 DEF Running, CheckedWork
<1> QED
  BY <1>1, <1>6 DEF Done

(* A step of a worker begins an item that waited and whose GUID was not    *)
(* removed, lets one go that ran, discards one that waited, or changes     *)
(* nothing about what runs.                                                *)
Begins(w) ==
  /\ Running' = Running \cup {wItem[w]} /\ wItem[w] \notin removedGuids
  /\ wItem[w] \in CheckedWork /\ CheckedWork' = CheckedWork \ {wItem[w]}
  /\ UNCHANGED <<itemQueue, ran, dropped>>

Finishes(w) ==
  /\ wItem[w] \in Running /\ Running' = Running \ {wItem[w]}
  /\ wItem[w] \in Range(ran)
  /\ UNCHANGED <<itemQueue, ran, dropped, CheckedWork>>

Discards(w) ==
  /\ wItem[w] \in CheckedWork /\ CheckedWork' = CheckedWork \ {wItem[w]}
  /\ dropped' = dropped \cup {wItem[w]}
  /\ UNCHANGED <<itemQueue, ran, Running>>

Takes(w) ==
  /\ itemQueue # << >> /\ itemQueue' = Tail(itemQueue)
  /\ CheckedWork' = CheckedWork \cup {Head(itemQueue)}
  /\ UNCHANGED <<ran, dropped, Running>>

Runs(w) ==
  /\ wItem[w] \in Running /\ ran' = Append(ran, wItem[w]) /\ wItem[w] \in Nat
  /\ UNCHANGED <<itemQueue, dropped, Running, CheckedWork>>

Idles(w) == UNCHANGED <<itemQueue, ran, dropped, Running, CheckedWork>>

LEMMA WorkerMove ==
  ASSUME ItemInv, TypeOK, NEW w \in Workers, WorkerStep(w)
  PROVE  Begins(w) \/ Finishes(w) \/ Discards(w) \/ Takes(w) \/ Runs(w) \/ Idles(w)
<1>1. WorkKept({w})
  BY WorkerFrame
<1>2. wpc \in [Workers -> WorkerPlaces] /\ wItem \in [Workers -> Nat]
  BY DEF TypeOK, TypeWorkers
<1>3. \A v \in Workers \ {w} : wpc'[v] = wpc[v]
  BY <1>2 DEF WorkerStep, WorkerPop, WorkerEmpty, WorkerCheck, WorkerEnter,
              WorkerCall, WorkerReturn, WorkerPush, WorkerError, WorkerCount,
              WorkerLeave, WorkerGoto
<1>4. /\ Running' \cup (IF wpc[w] \in Committed THEN InWork(w) ELSE {})
            = Running \cup (IF wpc'[w] \in Committed THEN InWork(w)' ELSE {})
      /\ CheckedWork' \cup (IF wpc[w] = "check" THEN InWork(w) ELSE {})
            = CheckedWork \cup (IF wpc'[w] = "check" THEN InWork(w)' ELSE {})
  BY <1>1, <1>3, RunningUnion
<1>5. wpc[w] \in Committed => InWork(w) = {wItem[w]} /\ wItem[w] \in Running
  BY DEF InWork, Running, At
<1>6. wpc[w] = "check" => InWork(w) = {wItem[w]} /\ wItem[w] \in CheckedWork
  BY DEF InWork, CheckedWork, At
<1>7. ASSUME InWork(w) = {wItem[w]}
      PROVE  /\ wpc'[w] # "check" => wItem[w] \notin CheckedWork'
             /\ wpc'[w] \notin Committed => wItem[w] \notin Running'
  <2>1. \A v \in Workers \ {w} : wItem[w] \notin InWork(v)'
    BY <1>1, <1>7 DEF WorkKept, ItemInv, Apart, WorkApart
  <2> QED
    BY <2>1 DEF Running, CheckedWork, At
<1>8. CASE WorkerPop(w)
  <2>1. CASE itemQueue = << >>
    <3>1. /\ wpc[w] = "pop" /\ wpc'[w] = "empty"
          /\ UNCHANGED <<itemQueue, ran, dropped>>
      BY <1>2, <1>8, <2>1 DEF WorkerPop, WorkerGoto
    <3> QED
      BY <1>4, <3>1 DEF Idles, Committed
  <2>2. CASE itemQueue # << >>
    <3>1. /\ wpc[w] = "pop" /\ wpc'[w] = "check"
          /\ wItem'[w] = Head(itemQueue) /\ itemQueue' = Tail(itemQueue)
          /\ UNCHANGED <<ran, dropped>>
      BY <1>2, <1>8, <2>2 DEF WorkerPop, WorkerGoto
    <3>2. InWork(w)' = {Head(itemQueue)}
      BY <3>1 DEF InWork
    <3> QED
      BY <1>4, <2>2, <3>1, <3>2 DEF Takes, Committed
  <2> QED
    BY <2>1, <2>2
<1>9. CASE WorkerCheck(w)
  <2>1. CASE wItem[w] \in removedGuids
    <3>1. /\ wpc[w] = "check" /\ wpc'[w] = "pop"
          /\ dropped' = dropped \cup {wItem[w]} /\ UNCHANGED <<itemQueue, ran>>
      BY <1>2, <1>9, <2>1 DEF WorkerCheck, WorkerGoto
    <3> QED
      BY <1>4, <1>6, <1>7, <3>1 DEF Discards, Committed
  <2>2. CASE wItem[w] \notin removedGuids
    <3>1. /\ wpc[w] = "check" /\ wpc'[w] = "enter" /\ wItem'[w] = wItem[w]
          /\ UNCHANGED <<itemQueue, ran, dropped>>
      BY <1>2, <1>9, <2>2 DEF WorkerCheck, WorkerGoto
    <3>2. InWork(w)' = {wItem[w]}
      BY <3>1 DEF InWork, Committed
    <3> QED
      BY <1>4, <1>6, <1>7, <2>2, <3>1, <3>2 DEF Begins, Committed
  <2> QED
    BY <2>1, <2>2
<1>10. CASE WorkerLeave(w)
  <2>1. /\ wpc[w] = "leave" /\ wpc'[w] = "pop"
        /\ UNCHANGED <<itemQueue, ran, dropped>>
    BY <1>2, <1>10 DEF WorkerLeave, WorkerGoto
  <2>2. wItem[w] \in Range(ran)
    BY <1>5, <2>1 DEF ItemInv, Apart, StartedRan, Unstarted, Committed
  <2> QED
    BY <1>4, <1>5, <1>7, <2>1, <2>2 DEF Finishes, Committed
<1>11. CASE WorkerEmpty(w)
  <2>1. /\ wpc[w] = "empty" /\ wpc'[w] \in {"exit", "pop"}
        /\ UNCHANGED <<itemQueue, ran, dropped>>
    BY <1>2, <1>11 DEF WorkerEmpty, WorkerGoto
  <2> QED
    BY <1>4, <2>1 DEF Idles, Committed
<1>12. ASSUME WorkerEnter(w) \/ WorkerCall(w) \/ WorkerReturn(w)
                \/ WorkerPush(w) \/ WorkerError(w) \/ WorkerCount(w)
       PROVE  Runs(w) \/ Idles(w)
  <2>1. wpc[w] \in Committed
    BY <1>12 DEF WorkerEnter, WorkerCall, WorkerReturn, WorkerPush,
                 WorkerError, WorkerCount, Committed
  <2>2. wpc'[w] \in Committed
    BY <1>2, <1>12 DEF WorkerEnter, WorkerCall, WorkerReturn, WorkerPush,
                       WorkerError, WorkerCount, WorkerGoto, Committed
  <2>3. UNCHANGED <<itemQueue, dropped, wItem>>
    BY <1>12 DEF WorkerEnter, WorkerCall, WorkerReturn, WorkerPush,
                 WorkerError, WorkerCount
  <2>4. InWork(w)' = {wItem[w]}
    BY <2>2, <2>3 DEF InWork
  <2>5. wpc[w] # "check" /\ wpc'[w] # "check"
    BY <2>1, <2>2 DEF Committed
  <2>6. UNCHANGED <<Running, CheckedWork>>
    BY <1>4, <1>5, <2>1, <2>2, <2>4, <2>5
  <2>7. CASE WorkerCall(w)
    BY <1>2, <1>5, <2>1, <2>3, <2>6, <2>7 DEF Runs, WorkerCall
  <2>8. CASE ~WorkerCall(w)
    <3>1. ran' = ran
      BY <1>12, <2>8 DEF WorkerEnter, WorkerReturn, WorkerPush, WorkerError,
                         WorkerCount
    <3> QED
      BY <2>3, <2>6, <3>1 DEF Idles
  <2> QED
    BY <2>7, <2>8
<1> QED
  BY <1>8, <1>9, <1>10, <1>11, <1>12 DEF WorkerStep

LEMMA WorkerWork ==
  ASSUME ItemInv, TypeOK, NEW w \in Workers, WorkerStep(w)
  PROVE  Running' \cup Range(ran)' \subseteq
           Running \cup Range(ran) \cup ({wItem[w]} \ removedGuids)
<1>1. CASE Runs(w)
  <2>1. ran \in Seq(Nat)
    BY DEF TypeOK, TypeQueues
  <2>2. Range(ran)' = Range(ran) \cup {wItem[w]}
    BY <1>1, <2>1, AppendRange DEF Runs
  <2> QED
    BY <1>1, <2>2 DEF Runs
<1> QED
  BY <1>1, WorkerMove DEF Begins, Finishes, Discards, Takes, Idles

LEMMA CancelStep == CancelInv /\ SafeInv /\ [Next]_vars => CancelInv'
<1> SUFFICES ASSUME CancelInv, SafeInv, [Next]_vars PROVE CancelInv'
  OBVIOUS
<1> USE DEF CancelInv, CancelledNeverRuns
<1>1. CASE UNCHANGED vars
  BY <1>1 DEF vars, Running, InWork, At
<1>2. ASSUME NEW c \in Callers, CallBegins(c) \/ CallContinues(c)
      PROVE  CancelInv'
  <2>1. UNCHANGED <<Running, Range(ran)>>
    BY <1>2, CallerWork DEF SafeInv, TypeInv
  <2>2. CASE RemoveMark(c)
    BY <2>1, <2>2, WaitingApart DEF RemoveMark, SafeInv
  <2>3. CASE ~RemoveMark(c)
    <3>1. cancelled' = cancelled /\ removedGuids' = removedGuids
      BY <1>2, <2>3
         DEF CallBegins, CallContinues, PushBegin, BatchBegin,
             RemoveUnindex, GetBegin, GetBlockingBegin, ClearBegin,
             PendingBegin, Close, SetMode, Start, PushAlloc, PushIndex,
             PushItem, BatchAlloc, BatchItem, BatchIndex, GetPop, GetReturn,
             GetCount, GetBlockingPop, PopResult, ClearPop, ClearReturn,
             PendingPop, PendingPush
    <3> QED
      BY <2>1, <3>1
  <2> QED
    BY <2>2, <2>3
<1>3. ASSUME NEW w \in Workers, WorkerStep(w)
      PROVE  CancelInv'
  <2>1. cancelled' = cancelled /\ removedGuids' = removedGuids
    BY <1>3 DEF WorkerStep, WorkerPop, WorkerEmpty, WorkerCheck,
                WorkerEnter, WorkerCall, WorkerReturn, WorkerPush,
                WorkerError, WorkerCount, WorkerLeave
  <2>2. Running' \cup Range(ran)' \subseteq
          Running \cup Range(ran) \cup ({wItem[w]} \ removedGuids)
    BY <1>3, WorkerWork DEF SafeInv, TypeInv
  <2> QED
    BY <2>1, <2>2
<1> QED
  BY <1>1, <1>2, <1>3 DEF Next

(* remove_by_guid keeps its word: an item whose removal was recorded       *)
(* before a worker looked it up is never run.                              *)
THEOREM RemovedInTimeNeverRuns == Spec => []CancelledNeverRuns
<1>1. Init => CancelInv
  BY DEF Init, CancelInv, CancelledNeverRuns
<1>2. CancelInv => CancelledNeverRuns
  BY DEF CancelInv
<1> QED
  BY <1>1, <1>2, CancelStep, Safe, PTL DEF Spec

-----------------------------------------------------------------------------
(* The steps of JobQueue, over the sets items are mapped to.               *)

JobStep == [Jobs!Next]_(Jobs!jobVars)

LEMMA SubmitStep ==
  ASSUME NEW i, Waiting' = Waiting \cup {i},
         i \notin Waiting \cup Running \cup Done \cup dropped,
         UNCHANGED <<Running, Done, dropped, cancelled>>
  PROVE  JobStep
BY DEF JobStep, Jobs!Next, Jobs!Submit, Jobs!Known

LEMMA CancelJob ==
  ASSUME NEW i \in Waiting, cancelled' = cancelled \cup {i},
         UNCHANGED <<Waiting, Running, Done, dropped>>
  PROVE  JobStep
BY DEF JobStep, Jobs!Next, Jobs!Cancel

LEMMA BeginStep ==
  ASSUME NEW i \in Waiting \ cancelled,
         Waiting' = Waiting \ {i}, Running' = Running \cup {i},
         UNCHANGED <<Done, dropped, cancelled>>
  PROVE  JobStep
BY DEF JobStep, Jobs!Next, Jobs!Begin

LEMMA FinishStep ==
  ASSUME NEW i \in Running, Running' = Running \ {i}, Done' = Done \cup {i},
         UNCHANGED <<Waiting, dropped, cancelled>>
  PROVE  JobStep
BY DEF JobStep, Jobs!Next, Jobs!Finish

LEMMA DiscardStep ==
  ASSUME NEW i \in Waiting, Waiting' = Waiting \ {i},
         dropped' = dropped \cup {i},
         UNCHANGED <<Running, Done, cancelled>>
  PROVE  JobStep
BY DEF JobStep, Jobs!Next, Jobs!Discard

LEMMA StutterStep ==
  ASSUME UNCHANGED <<Waiting, Running, Done, dropped, cancelled>>
  PROVE  JobStep
BY DEF JobStep, Jobs!jobVars

LEMMA WaitingUnion ==
  /\ Waiting = Queued \cup Hands \cup CheckedWork
  /\ Waiting' = Queued' \cup Hands' \cup CheckedWork'
BY DEF Waiting, Hands, CheckedWork

LEMMA HandUnion ==
  ASSUME NEW c \in Callers, HandsKept({c})
  PROVE  Hands' \cup InHand(c) = Hands \cup InHand(c)'
BY DEF Hands, HandsKept

LEMMA CallerJob ==
  ASSUME SafeInv, NEW c \in Callers, CallBegins(c) \/ CallContinues(c)
  PROVE  JobStep
<1>1. UNCHANGED <<Running, CheckedWork, Done>>
  BY CallerWork DEF SafeInv, TypeInv
<1>2. ItemInv /\ TypeOK
  BY DEF SafeInv, TypeInv
<1>3. CASE RemoveMark(c)
  <2>1. KeepMove
    BY <1>3, CallerKeep DEF SafeInv, TypeInv
  <2>2. UNCHANGED <<Waiting, dropped>>
    BY <1>1, <2>1, HandsUnion, WaitingUnion DEF KeepMove, Queued
  <2>3. cancelled' = cancelled \cup ({cId[c]} \cap Waiting)
    BY <1>3 DEF RemoveMark
  <2>4. CASE cId[c] \in Waiting
    BY <1>1, <2>2, <2>3, <2>4, CancelJob
  <2>5. CASE cId[c] \notin Waiting
    BY <1>1, <2>2, <2>3, <2>5, StutterStep
  <2> QED
    BY <2>4, <2>5
<1>4. ASSUME ~RemoveMark(c) PROVE JobStep
  <2>1. cancelled' = cancelled
    BY <1>4
       DEF CallBegins, CallContinues, PushBegin, BatchBegin,
           RemoveUnindex, GetBegin, GetBlockingBegin, ClearBegin,
           PendingBegin, Close, SetMode, Start, PushAlloc, PushIndex,
           PushItem, BatchAlloc, BatchItem, BatchIndex, GetPop, GetReturn,
           GetCount, GetBlockingPop, PopResult, ClearPop, ClearReturn,
           PendingPop, PendingPush
  <2>2. CASE KeepMove
    <3>1. UNCHANGED <<Waiting, dropped>>
      BY <1>1, <2>2, HandsUnion, WaitingUnion DEF KeepMove, Queued
    <3> QED
      BY <1>1, <2>1, <3>1, StutterStep
  <2>3. CASE AllocMove(c)
    <3>1. Waiting' = Waiting \cup {counter + 1} /\ dropped' = dropped
      BY <1>1, <2>3, HandUnion, WaitingUnion DEF AllocMove, Queued
    <3>2. counter + 1 \notin 0 .. counter
      BY <1>2 DEF TypeOK, TypeScalars
    <3>3. Waiting \cup Running \cup Done \cup dropped \subseteq 0 .. counter
      <4>1. Running \subseteq Work /\ CheckedWork \subseteq Work
        BY DEF Running, CheckedWork, Work, At
      <4> QED
        BY <1>2, <4>1, WaitingUnion DEF ItemInv, Apart, Fresh, Present, Done
    <3> QED
      BY <1>1, <2>1, <3>1, <3>2, <3>3, SubmitStep
  <2>4. CASE \E i \in Nat : EnqueueMove(c, i)
    <3>1. PICK i \in Nat : EnqueueMove(c, i)
      BY <2>4
    <3>2. Queued' = Queued \cup {i}
      BY <1>2, <3>1, AppendRange DEF EnqueueMove, Queued, TypeOK, TypeQueues
    <3>3. i \in Hands /\ Hands' \cup {i} = Hands
      BY <3>1, HandUnion DEF EnqueueMove, Hands
    <3>4. UNCHANGED <<Waiting, dropped>>
      BY <1>1, <3>1, <3>2, <3>3, WaitingUnion DEF EnqueueMove
    <3> QED
      BY <1>1, <2>1, <3>4, StutterStep
  <2>5. CASE DrainMove(c)
    <3>1. /\ Head(itemQueue) \in Queued /\ Head(itemQueue) \in Nat
          /\ Queued' = Queued \ {Head(itemQueue)}
      BY <1>2, <2>5, Popped DEF DrainMove
    <3>2. InHand(c)' = InHand(c) \cup {Head(itemQueue)}
      BY <2>5, <3>1, AppendRange DEF DrainMove
    <3>3. InHand(c) \subseteq Hands
      BY DEF Hands
    <3>4. Hands' \cup InHand(c) = Hands \cup {Head(itemQueue)}
      BY <2>5, <3>2, <3>3, HandUnion DEF DrainMove
    <3>5. InHand(c) \subseteq Hands'
      BY <3>2 DEF Hands
    <3>6. Hands' = Hands \cup {Head(itemQueue)}
      BY <3>4, <3>5
    <3>7. UNCHANGED <<Waiting, dropped>>
      BY <1>1, <2>5, <3>1, <3>6, WaitingUnion DEF DrainMove
    <3> QED
      BY <1>1, <2>1, <3>7, StutterStep
  <2>6. CASE ClearMove
    <3> DEFINE i == Head(itemQueue)
    <3>1. /\ i \in Queued /\ Queued' = Queued \ {i}
          /\ dropped' = dropped \cup {i} /\ Hands' = Hands
      BY <1>2, <2>6, Popped, HandsUnion DEF ClearMove
    <3>2. i \notin Hands \cup CheckedWork
      BY <1>2, <3>1 DEF ItemInv, Apart, HandsApart, WorkApart, Hands,
                        CheckedWork, At
    <3> HIDE DEF i
    <3>3. i \in Waiting /\ Waiting' = Waiting \ {i}
      BY <1>1, <3>1, <3>2, WaitingUnion
    <3> QED
      BY <1>1, <2>1, <3>1, <3>3, DiscardStep
  <2> QED
    BY <2>2, <2>3, <2>4, <2>5, <2>6, CallerMove DEF SafeInv, TypeInv
<1> QED
  BY <1>3, <1>4

LEMMA WorkerJob ==
  ASSUME SafeInv, CancelInv, NEW w \in Workers, WorkerStep(w)
  PROVE  JobStep
<1>1. ItemInv /\ TypeOK
  BY DEF SafeInv, TypeInv
<1>2. Hands' = Hands
  BY <1>1, WorkerFrame, HandsUnion
<1>3. cancelled' = cancelled
  BY DEF WorkerStep, WorkerPop, WorkerEmpty, WorkerCheck, WorkerEnter,
         WorkerCall, WorkerReturn, WorkerPush, WorkerError, WorkerCount,
         WorkerLeave
<1>4. \A i \in CheckedWork :
        i \in Waiting /\ i \notin Queued \cup Hands \cup Running \cup Range(ran)
  <2>1. \A i \in CheckedWork : i \notin Queued \cup Hands
    BY <1>1 DEF ItemInv, Apart, HandsApart, WorkApart, Hands, CheckedWork, At
  <2> QED
    BY <1>1, <2>1, WaitingUnion, WaitingApart
<1>5. CASE Idles(w)
  <2>1. UNCHANGED <<Waiting, Done>>
    BY <1>2, <1>5, WaitingUnion DEF Idles, Queued, Done
  <2> QED
    BY <1>3, <1>5, <2>1, StutterStep DEF Idles
<1>6. CASE Begins(w)
  <2>1. wItem[w] \in Waiting \ cancelled /\ Waiting' = Waiting \ {wItem[w]}
    BY <1>2, <1>4, <1>6, WaitingUnion DEF Begins, Queued, CancelInv
  <2>2. Done' = Done
    BY <1>4, <1>6 DEF Begins, Done
  <2> QED
    BY <1>3, <1>6, <2>1, <2>2, BeginStep DEF Begins
<1>7. CASE Finishes(w)
  <2>1. Waiting' = Waiting
    BY <1>2, <1>7, WaitingUnion DEF Finishes, Queued
  <2>2. Done' = Done \cup {wItem[w]}
    BY <1>7 DEF Finishes, Done
  <2> QED
    BY <1>3, <1>7, <2>1, <2>2, FinishStep DEF Finishes
<1>8. CASE Discards(w)
  <2>1. wItem[w] \in Waiting /\ Waiting' = Waiting \ {wItem[w]}
    BY <1>2, <1>4, <1>8, WaitingUnion DEF Discards, Queued
  <2>2. Done' = Done
    BY <1>8 DEF Discards, Done
  <2> QED
    BY <1>3, <1>8, <2>1, <2>2, DiscardStep DEF Discards
<1>9. CASE Takes(w)
  <2>1. Head(itemQueue) \in Queued /\ Queued' = Queued \ {Head(itemQueue)}
    BY <1>1, <1>9, Popped DEF Takes
  <2>2. Waiting' = Waiting
    BY <1>2, <1>9, <2>1, WaitingUnion DEF Takes
  <2>3. Done' = Done
    BY <1>9 DEF Takes, Done
  <2> QED
    BY <1>3, <1>9, <2>2, <2>3, StutterStep DEF Takes
<1>10. CASE Runs(w)
  <2>1. Waiting' = Waiting
    BY <1>2, <1>10, WaitingUnion DEF Runs, Queued
  <2>2. Range(ran)' = Range(ran) \cup {wItem[w]}
    <3>1. ran \in Seq(Nat)
      BY <1>1 DEF TypeOK, TypeQueues
    <3> QED
      BY <1>10, <3>1, AppendRange DEF Runs
  <2>3. Done' = Done
    BY <1>10, <2>2 DEF Runs, Done
  <2> QED
    BY <1>3, <1>10, <2>1, <2>3, StutterStep DEF Runs
<1> QED
  BY <1>1, <1>5, <1>6, <1>7, <1>8, <1>9, <1>10, WorkerMove

(* The queue implements the promise of JobQueue, for any number of callers *)
(* and workers: an item is begun at most once, never after a removal that  *)
(* came in time, and only what was begun is finished.                      *)
THEOREM Refines == Spec => ImplementsJobQueue
<1>1. Init => Jobs!Init
  <2> SUFFICES ASSUME Init PROVE Jobs!Init
    OBVIOUS
  <2>1. /\ \A c \in Callers : InHand(c) = {}
        /\ \A w \in Workers : InWork(w) = {}
        /\ Queued = {} /\ Range(ran) = {} /\ dropped = {} /\ cancelled = {}
    BY DEF Init, InHand, Draining, InWork, Committed, Queued, Range
  <2>2. Waiting = {} /\ Running = {} /\ Done = {}
    BY <2>1 DEF Waiting, Running, Done, At
  <2> QED
    BY <2>1, <2>2 DEF Jobs!Init
<1>2. Init => CancelInv
  BY DEF Init, CancelInv, CancelledNeverRuns
<1>3. SafeInv /\ CancelInv /\ [Next]_vars => [Jobs!Next]_(Jobs!jobVars)
  <2> SUFFICES ASSUME SafeInv, CancelInv, [Next]_vars PROVE JobStep
    BY DEF JobStep
  <2>1. CASE UNCHANGED vars
    <3>1. UNCHANGED <<Waiting, Running, Done, dropped, cancelled>>
      BY <2>1 DEF vars, Waiting, Running, Done, Queued,
                  InHand, Draining, InWork, At
    <3> QED
      BY <3>1, StutterStep
  <2>2. CASE Next
    BY <2>2, CallerJob, WorkerJob DEF Next
  <2> QED
    BY <2>1, <2>2
<1> QED
  BY <1>1, <1>2, <1>3, CancelStep, Safe, PTL DEF Spec, ImplementsJobQueue, Jobs!Spec
=============================================================================
