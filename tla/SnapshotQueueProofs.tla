------------------------ MODULE SnapshotQueueProofs ------------------------
(***************************************************************************)
(* What SnapshotQueue promises about a saved queue, for every number of    *)
(* lives, jobs, callers and cores.                                         *)
(*                                                                         *)
(* The invariant has three layers.  QueueInv is what AsyncQueueProofs      *)
(* shows of one life; that none is lost is not part of it, since the saver *)
(* takes items out.  Above it SnapshotTypeOK and the saver's phases.  At   *)
(* the top sets of jobs alone: where the jobs are, and which of these      *)
(* places share none.  The order of the pushes is an invariant of its own, *)
(* under the hypothesis it needs.                                          *)
(***************************************************************************)
EXTENDS SnapshotQueue, AsyncQueueProofs

(* What an action leaves unchanged it names by these groups of variables.  *)
USE DEF queues, counters, tallies, settings, guids, workers, locals, callers,
        history, files, saver, traces, SaverGoto

QueueInv == TypeInv /\ BufInUse /\ ItemInv

LEMMA QueueInvStep ==
  ASSUME QueueInv, [Next]_vars
  PROVE  QueueInv' /\ Flow
BY TypeInvStep, BufStep, ItemStep DEF QueueInv, TypeInv

(* A step that moves no item and no thread. *)
LEMMA QueueInvKept ==
  ASSUME QueueInv, resultQueue' \in Seq([id : Nat, error : BOOLEAN]),
         UNCHANGED <<itemQueue, counters, settings, guids, workers, callers,
                     history>>
  PROVE  QueueInv' /\ counter' = counter /\ Present' = Present
<1>1. TypeOK' /\ PoolOnce' /\ ActiveExact' /\ BufInUse'
  BY DEF QueueInv, TypeInv, TypeOK, TypeQueues, TypeGuids, TypeScalars,
         TypeWorkers, TypeCallers, PoolOnce, ActiveExact, At, BufInUse
<1>2. HandsKept({}) /\ WorkKept({})
  BY DEF HandsKept, WorkKept, InHand, Draining, InWork, Unstarted
<1>3. ItemInv' /\ Present' = Present
  BY <1>2, Keep DEF QueueInv, KeepMove
<1> QED
  BY <1>1, <1>3 DEF QueueInv, TypeInv

LEMMA SaverTakes ==
  ASSUME QueueInv, SaveDrain, itemQueue # << >>
  PROVE  /\ QueueInv' /\ counter' = counter
         /\ Head(itemQueue) \in Queued
         /\ Present' = Present \ {Head(itemQueue)}
<1>1. /\ itemQueue' = Tail(itemQueue)
      /\ UNCHANGED <<resultQueue, counters, settings, guids, workers, callers,
                     history>>
  BY DEF SaveDrain
<1>2. itemQueue' \in Seq(Nat)
  BY <1>1, SeqTypes DEF QueueInv, TypeInv, TypeOK, TypeQueues
<1>3. TypeOK' /\ PoolOnce' /\ ActiveExact' /\ BufInUse'
  BY <1>1, <1>2
     DEF QueueInv, TypeInv, TypeOK, TypeQueues, TypeGuids, TypeScalars,
         TypeWorkers, TypeCallers, PoolOnce, ActiveExact, At, BufInUse
<1>4. HandsKept({}) /\ WorkKept({})
  BY <1>1 DEF HandsKept, WorkKept, InHand, Draining, InWork, Unstarted
<1>5. ItemInv /\ TypeOK
  BY DEF QueueInv, TypeInv
<1>6. ItemInv' /\ Present' = Present \ {Head(itemQueue)}
  BY <1>1, <1>4, <1>5, Leave
<1>7. Head(itemQueue) \in Queued
  BY <1>1, <1>5, Popped
<1> QED
  BY <1>1, <1>3, <1>6, <1>7 DEF QueueInv, TypeInv

-----------------------------------------------------------------------------
(* A process that opens the directory.                                     *)

Opens(items, results) ==
  /\ itemQueue' = [k \in 1 .. Len(items) |-> k - 1]
  /\ counter' = Len(items)
  /\ jobOf' = [i \in 0 .. Len(items) - 1 |-> items[i + 1]]
  /\ resultQueue' = [k \in DOMAIN results |-> results[k].result]
  /\ resultJobs' = [k \in DOMAIN results |-> results[k].job]

LEMMA RestartOpens ==
  ASSUME Restart
  PROVE  \/ inSync' = TRUE /\ Opens(itemsFile, resultsFile)
         \/ inSync' = FALSE /\ Opens(<< >>, << >>)
BY DEF Restart, Restored, Opens

(* A sequence numbered from zero. *)
LEMMA Renumbered ==
  ASSUME NEW S, NEW s \in Seq(S), NEW f, f = [i \in 0 .. Len(s) - 1 |-> s[i + 1]]
  PROVE  /\ f \in [0 .. Len(s) - 1 -> S] /\ Range(f) = Range(s)
         /\ IsInjective(s) => IsInjective(f)
         /\ Ascends(s) => Ascends(f)
<1> DEFINE n == Len(s)
<1>1. n \in Nat /\ DOMAIN s = 1 .. n /\ \A k \in 1 .. n : s[k] \in S
  OBVIOUS
<1>2. DOMAIN f = 0 .. n - 1 /\ \A i \in 0 .. n - 1 : f[i] = s[i + 1]
  OBVIOUS
<1> HIDE DEF n
<1>3. /\ \A i \in 0 .. n - 1 : i + 1 \in 1 .. n
      /\ \A k \in 1 .. n : k - 1 \in 0 .. n - 1 /\ f[k - 1] = s[k]
  BY <1>1, <1>2
<1>4. f \in [0 .. n - 1 -> S]
  BY <1>1, <1>2, <1>3 DEF n
<1>5. Range(f) \subseteq Range(s)
  BY <1>1, <1>2, <1>3 DEF Range
<1>6. Range(s) \subseteq Range(f)
  <2>1. ASSUME NEW k \in 1 .. n PROVE s[k] \in Range(f)
    BY <1>2, <1>3 DEF Range
  <2> QED
    BY <1>1, <2>1 DEF Range
<1>7. ASSUME IsInjective(s) PROVE IsInjective(f)
  <2>1. ASSUME NEW i \in 0 .. n - 1, NEW j \in 0 .. n - 1, f[i] = f[j]
        PROVE  i = j
    <3>1. s[i + 1] = s[j + 1] /\ i + 1 \in DOMAIN s /\ j + 1 \in DOMAIN s
      BY <1>1, <1>2, <1>3, <2>1
    <3>2. i + 1 = j + 1
      BY <1>7, <3>1 DEF IsInjective
    <3> QED
      BY <3>2
  <2> QED
    BY <1>2, <2>1 DEF IsInjective
<1>8. ASSUME Ascends(s) PROVE Ascends(f)
  <2>1. ASSUME NEW i \in 0 .. n - 1, NEW j \in 0 .. n - 1, i < j
        PROVE  f[i] < f[j]
    <3>1. i + 1 \in DOMAIN s /\ j + 1 \in DOMAIN s /\ i + 1 < j + 1
      BY <1>1, <1>3, <2>1
    <3> QED
      BY <1>2, <1>8, <3>1 DEF Ascends
  <2> QED
    BY <1>2, <2>1 DEF Ascends
<1> QED
  BY <1>4, <1>5, <1>6, <1>7, <1>8 DEF n

(* The ids it gives the items it restores. *)
LEMMA OpensItems ==
  ASSUME NEW S, NEW items \in Seq(S), NEW results, Opens(items, results)
  PROVE  /\ itemQueue' \in Seq(Nat) /\ counter' \in Nat
         /\ Queued' \subseteq 0 .. counter' /\ DOMAIN jobOf' = Queued'
         /\ IsInjective(itemQueue') /\ Ascends(itemQueue')
         /\ jobOf' \in [Queued' -> S] /\ Range(jobOf') = Range(items)
         /\ IsInjective(items) => IsInjective(jobOf')
         /\ Ascends(items) => Ascends(jobOf')
<1> DEFINE n == Len(items)
<1>1. n \in Nat
  OBVIOUS
<1>2. /\ itemQueue' = [k \in 1 .. n |-> k - 1] /\ counter' = n
      /\ jobOf' = [i \in 0 .. n - 1 |-> items[i + 1]]
  BY DEF Opens
<1>3. /\ jobOf' \in [0 .. n - 1 -> S] /\ Range(jobOf') = Range(items)
      /\ IsInjective(items) => IsInjective(jobOf')
      /\ Ascends(items) => Ascends(jobOf')
  BY <1>2, Renumbered
<1> HIDE DEF n
<1>4. itemQueue' \in Seq(Nat)
  BY <1>1, <1>2
<1>5. Queued' = 0 .. n - 1
  <2>1. \A i \in 0 .. n - 1 : i + 1 \in 1 .. n /\ i = (i + 1) - 1
    BY <1>1
  <2>2. \A k \in 1 .. n : k - 1 \in 0 .. n - 1
    BY <1>1
  <2>3. DOMAIN itemQueue' = 1 .. n /\ \A k \in 1 .. n : itemQueue'[k] = k - 1
    BY <1>2
  <2>4. Range(itemQueue') \subseteq 0 .. n - 1
    BY <2>2, <2>3 DEF Range
  <2>5. 0 .. n - 1 \subseteq Range(itemQueue')
    BY <2>1, <2>3 DEF Range
  <2> QED
    BY <2>4, <2>5 DEF Queued
<1>6. IsInjective(itemQueue') /\ Ascends(itemQueue')
  BY <1>1, <1>2 DEF IsInjective, Ascends
<1>7. 0 .. n - 1 \subseteq 0 .. n
  BY <1>1
<1> QED
  BY <1>1, <1>2, <1>3, <1>4, <1>5, <1>6, <1>7

(* The two halves of a sequence of saved results. *)
LEMMA Halves ==
  ASSUME NEW S, NEW T, NEW s \in Seq([result : S, job : T])
  PROVE  /\ [k \in DOMAIN s |-> s[k].result] \in Seq(S)
         /\ [k \in DOMAIN s |-> s[k].job] \in Seq(T)
         /\ Len([k \in DOMAIN s |-> s[k].result]) = Len(s)
         /\ Len([k \in DOMAIN s |-> s[k].job]) = Len(s)
         /\ Range([k \in DOMAIN s |-> s[k].job]) = {r.job : r \in Range(s)}
<1> DEFINE f == [k \in DOMAIN s |-> s[k].result]
           g == [k \in DOMAIN s |-> s[k].job]
<1>1. /\ Len(s) \in Nat /\ DOMAIN s = 1 .. Len(s)
      /\ \A k \in 1 .. Len(s) : s[k].result \in S /\ s[k].job \in T
  <2> DEFINE R == [result : S, job : T]
  <2>1. \A r \in R : r.result \in S /\ r.job \in T
    OBVIOUS
  <2>2. s \in Seq(R)
    OBVIOUS
  <2> HIDE DEF R
  <2>3. /\ Len(s) \in Nat /\ DOMAIN s = 1 .. Len(s)
        /\ \A k \in 1 .. Len(s) : s[k] \in R
    BY <2>2
  <2> QED
    BY <2>1, <2>3
<1>2. f \in Seq(S) /\ Len(f) = Len(s)
  BY <1>1
<1>3. g \in Seq(T) /\ Len(g) = Len(s)
  BY <1>1
<1>4. DOMAIN g = DOMAIN s /\ \A k \in DOMAIN s : g[k] = s[k].job
  OBVIOUS
<1> HIDE DEF g
<1>5. Range(g) = {r.job : r \in Range(s)}
  BY <1>4 DEF Range
<1> QED
  BY <1>2, <1>3, <1>5 DEF g

(* It starts with nothing but the items it restored. *)
LEMMA RestartPlaces ==
  ASSUME SnapshotTypeOK, Restart
  PROVE  /\ QueueInv' /\ Present' = Queued' /\ Owed' = Queued'
         /\ Range(ran') \cup dropped' = {}
<1> DEFINE Result == [id : Nat, error : BOOLEAN]
<1>1. PICK items \in Seq(1 .. jobs),
           results \in Seq([result : Result, job : 1 .. jobs]) :
        Opens(items, results)
  BY RestartOpens, EmptyType DEF SnapshotTypeOK
<1>2. /\ itemQueue' \in Seq(Nat) /\ counter' \in Nat
      /\ Queued' \subseteq 0 .. counter' /\ IsInjective(itemQueue')
  BY <1>1, OpensItems
<1>3. resultQueue' \in Seq(Result)
  <2>1. resultQueue' = [k \in DOMAIN results |-> results[k].result]
    BY <1>1 DEF Opens
  <2> HIDE DEF Result
  <2>2. [k \in DOMAIN results |-> results[k].result] \in Seq(Result)
    BY Halves
  <2> QED
    BY <2>1, <2>2
<1>4. Range(<< >>) = {} /\ IsInjective(<< >>)
  BY DEF Range, IsInjective
<1> USE DEF Restart
<1>5. \A c \in Callers : Draining(c)' = << >> /\ InHand(c)' = {}
  BY <1>4 DEF Draining, InHand
<1>6. \A w \in Workers : InWork(w)' = {} /\ wpc'[w] = "none"
  BY DEF InWork, Committed
<1>7. Range(ran') = {} /\ dropped' = {} /\ ran' = << >>
  BY <1>4
<1>8. Present' = Queued' /\ Owed' = Queued'
  BY <1>5, <1>6, <1>7 DEF Present, Hands, Work, Owed
<1>9. BufInUse' /\ PoolOnce'
  BY DEF BufInUse, PoolOnce
<1>10. ActiveExact'
  <2>1. At(Committed \ {"enter"})' = {}
    BY <1>6 DEF At, Committed
  <2> QED
    BY <2>1, FS_EmptySet DEF ActiveExact
<1>11. TypeOK'
  <2>1. TypeQueues' /\ TypeGuids' /\ TypeScalars'
    BY <1>2, <1>3, EmptyType DEF TypeQueues, TypeGuids, TypeScalars
  <2>2. TypeWorkers' /\ TypeCallers'
    BY DEF TypeWorkers, TypeCallers, WorkerPlaces, CallerPlaces
  <2> QED
    BY <2>1, <2>2 DEF TypeOK
<1> HIDE DEF Restart
<1>12. SequencesUnique'
  BY <1>2, <1>4, <1>5, <1>7 DEF SequencesUnique
<1>13. HandsApart' /\ WorkApart' /\ SettledApart' /\ StartedRan'
  BY <1>5, <1>6, <1>7 DEF HandsApart, WorkApart, SettledApart, StartedRan
<1>14. Fresh'
  BY <1>2, <1>8 DEF Fresh
<1> QED
  BY <1>7, <1>8, <1>9, <1>10, <1>11, <1>12, <1>13, <1>14
     DEF QueueInv, TypeInv, ItemInv, Apart

-----------------------------------------------------------------------------
(* Where the jobs are. *)

Here  == JobsOf(Present)
Held  == Range(resultJobs) \cup {r.job : r \in Range(sResults)}
Filed == {r.job : r \in Range(resultsFile)}

ItemsKnown == Present \subseteq DOMAIN jobOf

(* A save owns items.bin from its first step on, and holds something only  *)
(* between taking it out of a queue and writing it.                        *)
SaverPhases ==
  /\ spc # "idle" => ~inSync
  /\ sItems # << >> => spc \in {"drain", "write"}
  /\ sResults # << >> => spc \in {"drainResults", "writeResults"}

(* No two places share a job, except that a life which restored items.bin  *)
(* leaves it as it is until it saves.                                      *)
JobsApart ==
  /\ IsInjective(jobOf) /\ IsInjective(itemsFile) /\ IsInjective(sItems)
  /\ Here \cap Range(sItems) = {}
  /\ InMemory \cap (Held \cup Filed) = {}
  /\ Range(itemsFile) \cap Filed = {}
  /\ ~inSync => Range(itemsFile) \cap (Here \cup Range(sItems) \cup Held) = {}

(* And every job is in one of them. *)
JobsKept ==
  /\ 1 .. jobs =
       Here \cup Range(sItems) \cup Range(itemsFile) \cup settled \cup lost
  /\ inSync => Range(itemsFile) \subseteq Here \cup settled \cup lost

SnapshotInv ==
  QueueInv /\ SnapshotTypeOK /\ ItemsKnown /\ SaverPhases /\ JobsApart /\ JobsKept

(* What is owed is what is anywhere and neither begun nor discarded. *)
OwedIsRest ==
  /\ Owed \cup Range(ran) \cup dropped = Present
  /\ Owed \cap (Range(ran) \cup dropped) = {}

LEMMA OwedItems == ItemInv => OwedIsRest
<1> SUFFICES ASSUME ItemInv PROVE OwedIsRest
  OBVIOUS
<1>1. /\ Hands = UNION {InHand(c) : c \in Callers}
      /\ \A w \in Workers : InWork(w) \subseteq Work
      /\ \A i \in Work : \E w \in Workers : i \in InWork(w)
  BY DEF Hands, Work
<1>2. \A i \in Owed : i \in Queued \cup Hands
                        \/ \E w \in Workers : Unstarted(w) /\ i \in InWork(w)
  BY <1>1 DEF Owed
<1>3. /\ Queued \cup Hands \subseteq Owed
      /\ \A w \in Workers : Unstarted(w) => InWork(w) \subseteq Owed
  BY <1>1 DEF Owed
<1>4. Present \subseteq Owed \cup Range(ran) \cup dropped
  BY <1>1, <1>3 DEF Present, ItemInv, Apart, StartedRan
<1>5. Owed \cup Range(ran) \cup dropped \subseteq Present
  BY <1>1, <1>2 DEF Present
<1>6. Owed \cap (Range(ran) \cup dropped) = {}
  BY <1>1, <1>2 DEF ItemInv, Apart, HandsApart, WorkApart, SettledApart, Hands
<1> QED
  BY <1>4, <1>5, <1>6 DEF OwedIsRest

LEMMA JobSets ==
  ASSUME SnapshotInv
  PROVE  /\ Here = JobsOf(Owed) \cup JobsOf(Range(ran) \cup dropped)
         /\ JobsOf(Owed) \cap JobsOf(Range(ran)) = {}
         /\ Range(sItems) \cup Range(itemsFile) \subseteq 1 .. jobs
         /\ Here \cup Held \cup Filed \cup settled \cup lost \subseteq 1 .. jobs
         /\ jobs \in Nat
<1>1. ItemInv
  BY DEF SnapshotInv, QueueInv
<1>2. Here = JobsOf(Owed) \cup JobsOf(Range(ran) \cup dropped)
  BY <1>1, OwedItems DEF OwedIsRest, Here, JobsOf
<1>3. JobsOf(Owed) \cap JobsOf(Range(ran)) = {}
  BY <1>1, OwedItems
     DEF OwedIsRest, JobsOf, SnapshotInv, JobsApart, ItemsKnown, IsInjective
<1>4. Range(sItems) \cup Range(itemsFile) \subseteq 1 .. jobs
  BY RangeType DEF SnapshotInv, SnapshotTypeOK
<1>5. Here \subseteq 1 .. jobs
  BY DEF SnapshotInv, SnapshotTypeOK, ItemsKnown, Here, JobsOf
<1>6. Held \cup Filed \subseteq 1 .. jobs
  <2>1. Range(resultJobs) \subseteq 1 .. jobs
    BY RangeType DEF SnapshotInv, SnapshotTypeOK
  <2>2. ASSUME NEW s \in {resultsFile, sResults}
        PROVE  {r.job : r \in Range(s)} \subseteq 1 .. jobs
    <3> DEFINE R == [result : [id : Nat, error : BOOLEAN], job : 1 .. jobs]
    <3>1. s \in Seq(R)
      BY DEF SnapshotInv, SnapshotTypeOK
    <3>2. \A r \in R : r.job \in 1 .. jobs
      OBVIOUS
    <3> HIDE DEF R
    <3> QED
      BY <3>1, <3>2, RangeType
  <2> QED
    BY <2>1, <2>2 DEF Held, Filed
<1> QED
  BY <1>2, <1>3, <1>4, <1>5, <1>6 DEF SnapshotInv, SnapshotTypeOK

-----------------------------------------------------------------------------
(* The steps of AsyncQueue. *)

LEMMA HistoryGrows ==
  ASSUME TypeOK, Next
  PROVE  Range(ran) \subseteq Range(ran') /\ dropped \subseteq dropped'
<1>1. ran \in Seq(Nat) /\ wItem \in [Workers -> Nat]
  BY DEF TypeOK, TypeQueues, TypeWorkers
<1>2. ASSUME NEW c \in Callers, CallBegins(c) \/ CallContinues(c)
      PROVE  ran' = ran /\ dropped \subseteq dropped'
  BY <1>2
     DEF CallBegins, CallContinues, PushBegin, BatchBegin, RemoveUnindex,
         GetBegin, GetBlockingBegin, ClearBegin, PendingBegin, Close, SetMode,
         Start, PushAlloc, PushIndex, PushItem, BatchAlloc, BatchItem,
         BatchIndex, RemoveMark, GetPop, GetReturn, GetCount, GetBlockingPop,
         PopResult, ClearPop, ClearReturn, PendingPop, PendingPush
<1>3. ASSUME NEW w \in Workers, WorkerStep(w)
      PROVE  /\ ran' = ran \/ ran' = Append(ran, wItem[w])
             /\ dropped \subseteq dropped'
  BY <1>3
     DEF WorkerStep, WorkerPop, WorkerEmpty, WorkerCheck, WorkerEnter,
         WorkerCall, WorkerReturn, WorkerPush, WorkerError, WorkerCount,
         WorkerLeave
<1>4. \A i \in Nat : Range(ran) \subseteq Range(Append(ran, i))
  BY <1>1, AppendRange
<1>5. \A w \in Workers : wItem[w] \in Nat
  BY <1>1
<1> QED
  BY <1>2, <1>3, <1>4, <1>5 DEF Next

LEMMA ResultsMove ==
  ASSUME Next
  PROVE  \/ resultQueue' = resultQueue
         \/ resultQueue # << >> /\ resultQueue' = Tail(resultQueue)
         \/ \E w \in Workers :
              /\ wpc[w] = "push"
              /\ resultQueue' = Append(resultQueue,
                                       [id |-> wItem[w], error |-> wErr[w]])
<1>1. ASSUME NEW c \in Callers, CallBegins(c) \/ CallContinues(c)
      PROVE  \/ resultQueue' = resultQueue
             \/ resultQueue # << >> /\ resultQueue' = Tail(resultQueue)
  BY <1>1
     DEF CallBegins, CallContinues, PushBegin, BatchBegin, RemoveUnindex,
         GetBegin, GetBlockingBegin, ClearBegin, PendingBegin, Close, SetMode,
         Start, PushAlloc, PushIndex, PushItem, BatchAlloc, BatchItem,
         BatchIndex, RemoveMark, GetPop, GetReturn, GetCount, GetBlockingPop,
         PopResult, ClearPop, ClearReturn, PendingPop, PendingPush
<1>2. ASSUME NEW w \in Workers, WorkerStep(w), ~WorkerPush(w)
      PROVE  resultQueue' = resultQueue
  BY <1>2
     DEF WorkerStep, WorkerPop, WorkerEmpty, WorkerCheck, WorkerEnter,
         WorkerCall, WorkerReturn, WorkerError, WorkerCount, WorkerLeave
<1> QED
  BY <1>1, <1>2 DEF Next, WorkerPush

(* The item that comes gets the job that comes. *)
LEMMA FollowItems ==
  ASSUME SnapshotInv, QueueStep
  PROVE  /\ ItemsKnown' /\ IsInjective(jobOf')
         /\ DOMAIN jobOf' \subseteq 0 .. counter'
         /\ jobOf' \in [DOMAIN jobOf' -> 1 .. jobs']
         /\ \/ /\ jobs' = jobs /\ jobOf' = jobOf /\ Here' = Here
               /\ JobsOf(Owed)' \subseteq JobsOf(Owed)
            \/ /\ jobs' = jobs + 1 /\ Here' = Here \cup {jobs'}
               /\ JobsOf(Owed)' \subseteq JobsOf(Owed) \cup {jobs'}
<1>1. QueueInv /\ ItemInv /\ TypeOK /\ Next /\ FollowJobs
  BY DEF SnapshotInv, QueueInv, TypeInv, QueueStep
<1>2. ItemInv' /\ Flow
  BY <1>1, QueueInvStep DEF QueueInv
<1>3. Owed' \subseteq Owed \cup (Present' \ Present)
  <2>1. ItemInv' => OwedIsRest'
    BY OwedItems, PTL
  <2> QED
    BY <1>1, <1>2, <2>1, OwedItems, HistoryGrows DEF OwedIsRest
<1>4. /\ Present \subseteq DOMAIN jobOf /\ Owed \subseteq Present
      /\ DOMAIN jobOf \subseteq 0 .. counter /\ counter \in Nat /\ jobs \in Nat
      /\ \A i \in DOMAIN jobOf : jobOf[i] \in 1 .. jobs
      /\ IsInjective(jobOf)
  BY <1>1, OwedItems
     DEF OwedIsRest, SnapshotInv, SnapshotTypeOK, ItemsKnown, JobsApart, TypeOK,
         TypeScalars
<1>5. /\ Here = {jobOf[i] : i \in Present} /\ JobsOf(Owed) = {jobOf[i] : i \in Owed}
      /\ Here' = {jobOf'[i] : i \in Present'}
      /\ JobsOf(Owed)' = {jobOf'[i] : i \in Owed'}
  BY DEF Here, JobsOf
<1>6. CASE counter' = counter
  <2>1. UNCHANGED <<jobs, jobOf>> /\ Present' = Present
    BY <1>1, <1>2, <1>4, <1>6 DEF FollowJobs, Flow
  <2>2. DOMAIN jobOf' = DOMAIN jobOf /\ jobOf' \in [DOMAIN jobOf' -> 1 .. jobs']
    BY <2>1 DEF SnapshotInv, SnapshotTypeOK
  <2> QED
    BY <1>3, <1>4, <1>5, <1>6, <2>1, <2>2 DEF ItemsKnown
<1>7. CASE counter' # counter
  <2>1. /\ counter' = counter + 1 /\ Present' = Present \cup {counter'}
        /\ jobs' = jobs + 1
        /\ jobOf' = [i \in DOMAIN jobOf \cup {counter'} |->
                       IF i = counter' THEN jobs' ELSE jobOf[i]]
    BY <1>1, <1>2, <1>7 DEF FollowJobs, Flow
  <2>2. counter' \notin DOMAIN jobOf
    BY <1>4, <2>1
  <2>3. /\ DOMAIN jobOf' = DOMAIN jobOf \cup {counter'} /\ jobOf'[counter'] = jobs'
        /\ \A i \in DOMAIN jobOf : jobOf'[i] = jobOf[i]
    BY <2>1, <2>2
  <2>4. /\ DOMAIN jobOf' \subseteq 0 .. counter' /\ ItemsKnown'
        /\ jobOf' \in [DOMAIN jobOf' -> 1 .. jobs']
    <3>1. jobs' \in 1 .. jobs' /\ 1 .. jobs \subseteq 1 .. jobs'
      BY <1>4, <2>1
    <3>2. 0 .. counter \cup {counter'} \subseteq 0 .. counter'
      BY <1>4, <2>1
    <3>3. \A i \in DOMAIN jobOf' : jobOf'[i] \in 1 .. jobs'
      BY <1>4, <2>3, <3>1
    <3>4. jobOf' \in [DOMAIN jobOf' -> 1 .. jobs']
      BY <2>1, <2>3, <3>3
    <3> QED
      BY <1>4, <2>1, <2>3, <3>2, <3>4 DEF ItemsKnown
  <2>5. IsInjective(jobOf')
    <3>1. jobs' \notin 1 .. jobs
      BY <1>4, <2>1
    <3> QED
      BY <1>4, <2>3, <3>1 DEF IsInjective
  <2>6. Here' = Here \cup {jobs'}
    BY <1>4, <1>5, <2>1, <2>3
  <2>7. JobsOf(Owed)' \subseteq JobsOf(Owed) \cup {jobs'}
    BY <1>3, <1>4, <1>5, <2>1, <2>3
  <2> QED
    BY <2>1, <2>4, <2>5, <2>6, <2>7
<1> QED
  BY <1>6, <1>7

(* A result that is posted belongs to a job that has begun. *)
LEMMA FollowResults ==
  ASSUME SnapshotInv, QueueStep
  PROVE  /\ resultJobs' \in Seq(1 .. jobs')
         /\ Len(resultJobs') = Len(resultQueue')
         /\ Range(resultJobs') \subseteq Range(resultJobs) \cup JobsOf(Range(ran))
<1>1. /\ ItemInv /\ TypeOK /\ Next /\ FollowJobs /\ jobs \in Nat
      /\ Len(resultJobs) = Len(resultQueue) /\ resultJobs \in Seq(1 .. jobs)
      /\ resultQueue \in Seq([id : Nat, error : BOOLEAN])
  BY DEF SnapshotInv, QueueInv, TypeInv, QueueStep, SnapshotTypeOK, TypeOK,
         TypeQueues
<1>2. 1 .. jobs \subseteq 1 .. jobs'
  BY <1>1, FollowItems
<1>3. resultJobs \in Seq(1 .. jobs')
  BY <1>1, <1>2, WiderSeq
<1>4. CASE resultQueue' = resultQueue
  BY <1>1, <1>3, <1>4 DEF FollowJobs
<1>5. CASE resultQueue # << >> /\ resultQueue' = Tail(resultQueue)
  <2>1. Len(resultQueue') = Len(resultQueue) - 1 /\ Len(resultQueue) \in Nat \ {0}
    BY <1>1, <1>5
  <2>2. resultJobs' = Tail(resultJobs) /\ resultJobs # << >>
    BY <1>1, <2>1 DEF FollowJobs
  <2>3. Tail(resultJobs) \in Seq(1 .. jobs') /\ Len(Tail(resultJobs)) = Len(resultJobs) - 1
    BY <1>3, <2>2
  <2> QED
    BY <1>1, <2>1, <2>2, <2>3, TailPart
<1>6. ASSUME NEW w \in Workers, wpc[w] = "push",
             resultQueue' = Append(resultQueue,
                                   [id |-> wItem[w], error |-> wErr[w]])
      PROVE  /\ resultJobs' = Append(resultJobs, jobOf[wItem[w]])
             /\ Len(resultQueue') = Len(resultQueue) + 1
             /\ wItem[w] \in Range(ran) /\ jobOf[wItem[w]] \in 1 .. jobs
  <2>1. wItem[w] \in Nat /\ wErr[w] \in BOOLEAN
    BY <1>1 DEF TypeOK, TypeWorkers
  <2>2. /\ Len(resultQueue') = Len(resultQueue) + 1 /\ Len(resultQueue) \in Nat
        /\ resultQueue'[Len(resultQueue')].id = wItem[w]
    BY <1>1, <1>6, <2>1, AppendShape
  <2>3. resultJobs' = Append(resultJobs, jobOf[wItem[w]])
    BY <1>1, <2>2 DEF FollowJobs
  <2>4. wItem[w] \in Range(ran)
    BY <1>1, <1>6
       DEF ItemInv, Apart, StartedRan, Unstarted, InWork, Committed
  <2>5. wItem[w] \in DOMAIN jobOf
    BY <2>4 DEF SnapshotInv, ItemsKnown, Present
  <2> QED
    BY <2>2, <2>3, <2>4, <2>5 DEF SnapshotInv, SnapshotTypeOK
<1>7. ASSUME NEW w \in Workers, wpc[w] = "push",
             resultQueue' = Append(resultQueue,
                                   [id |-> wItem[w], error |-> wErr[w]])
      PROVE  /\ resultJobs' \in Seq(1 .. jobs')
             /\ Len(resultJobs') = Len(resultQueue')
             /\ Range(resultJobs') \subseteq Range(resultJobs) \cup JobsOf(Range(ran))
  <2>1. jobOf[wItem[w]] \in 1 .. jobs /\ jobOf[wItem[w]] \in JobsOf(Range(ran))
    BY <1>6, <1>7 DEF JobsOf
  <2>2. /\ Range(resultJobs') = Range(resultJobs) \cup {jobOf[wItem[w]]}
        /\ resultJobs' \in Seq(1 .. jobs') /\ Len(resultJobs') = Len(resultJobs) + 1
    <3> DEFINE j == jobOf[wItem[w]]
    <3>1. resultJobs' = Append(resultJobs, j) /\ j \in 1 .. jobs'
      BY <1>2, <1>6, <1>7, <2>1
    <3> HIDE DEF j
    <3>2. Range(Append(resultJobs, j)) = Range(resultJobs) \cup {j}
      <4>1. resultJobs \in Seq(Nat)
        BY <1>1
      <4>2. j \in Nat
        BY <3>1
      <4> QED
        BY <4>1, <4>2, AppendRange
    <3>3. Append(resultJobs, j) \in Seq(1 .. jobs')
      BY <1>3, <3>1, SeqTypes
    <3>4. Len(Append(resultJobs, j)) = Len(resultJobs) + 1
      BY <1>3
    <3> QED
      BY <3>1, <3>2, <3>3, <3>4 DEF j
  <2> QED
    BY <1>1, <1>6, <1>7, <2>1, <2>2
<1> QED
  BY <1>1, <1>4, <1>5, <1>7, ResultsMove

LEMMA QueueStepTypes ==
  ASSUME SnapshotInv, QueueStep
  PROVE  SnapshotTypeOK' /\ SaverPhases'
<1>1. /\ UNCHANGED <<itemsFile, resultsFile, sItems, sResults, spc, life, inSync,
                     settled, lost>>
      /\ TypeOK' /\ jobs \in Nat
  BY QueueInvStep
     DEF QueueStep, SnapshotInv, SnapshotTypeOK, QueueInv, TypeInv
<1>2. jobs' \in Nat /\ 1 .. jobs \subseteq 1 .. jobs'
  BY <1>1, FollowItems
<1>3. itemsFile \in Seq(1 .. jobs') /\ sItems \in Seq(1 .. jobs')
  BY <1>2, WiderSeq DEF SnapshotInv, SnapshotTypeOK
<1>4. ASSUME NEW f \in {resultsFile, sResults}
      PROVE  f \in Seq([result : [id : Nat, error : BOOLEAN], job : 1 .. jobs'])
  <2>1. [result : [id : Nat, error : BOOLEAN], job : 1 .. jobs]
          \subseteq [result : [id : Nat, error : BOOLEAN], job : 1 .. jobs']
    BY <1>2
  <2> QED
    BY <2>1, WiderSeq DEF SnapshotInv, SnapshotTypeOK
<1>5. settled \subseteq 1 .. jobs' /\ lost \subseteq 1 .. jobs'
  BY <1>2 DEF SnapshotInv, SnapshotTypeOK
<1>6. SaverPhases'
  BY <1>1 DEF SnapshotInv, SaverPhases
<1> QED
  BY <1>1, <1>2, <1>3, <1>4, <1>5, <1>6, FollowItems, FollowResults
     DEF SnapshotInv, SnapshotTypeOK

LEMMA QueueStepJobs ==
  ASSUME SnapshotInv, QueueStep
  PROVE  JobsApart' /\ JobsKept'
<1>1. UNCHANGED <<itemsFile, resultsFile, sItems, sResults, inSync, settled, lost>>
  BY DEF QueueStep
<1>2. UNCHANGED <<Filed, Range(sItems), Range(itemsFile)>>
  BY <1>1 DEF Filed
<1>3. Held' \subseteq Held \cup JobsOf(Range(ran))
  BY <1>1, FollowResults DEF Held
<1>4. /\ InMemory = JobsOf(Owed) \cup Range(sItems)
      /\ InMemory' = JobsOf(Owed)' \cup Range(sItems)
  BY <1>1 DEF InMemory
<1>5. /\ Here = JobsOf(Owed) \cup JobsOf(Range(ran) \cup dropped)
      /\ JobsOf(Range(ran)) \subseteq JobsOf(Range(ran) \cup dropped)
  BY JobSets DEF JobsOf
<1>6. /\ JobsOf(Owed) \cap JobsOf(Range(ran)) = {} /\ jobs \in Nat
      /\ Range(sItems) \cup Range(itemsFile) \cup Held \cup Filed \cup Here
           \subseteq 1 .. jobs
  BY JobSets
<1>7. jobs + 1 \notin 1 .. jobs /\ 1 .. jobs + 1 = 1 .. jobs \cup {jobs + 1}
  BY <1>6
<1>8. IsInjective(jobOf') /\ IsInjective(itemsFile') /\ IsInjective(sItems')
  BY <1>1, FollowItems DEF SnapshotInv, JobsApart
<1>9. \/ /\ jobs' = jobs /\ Here' = Here
         /\ JobsOf(Owed)' \subseteq JobsOf(Owed)
      \/ /\ jobs' = jobs + 1 /\ Here' = Here \cup {jobs + 1}
         /\ JobsOf(Owed)' \subseteq JobsOf(Owed) \cup {jobs + 1}
  BY FollowItems
<1>10. Here' \cap Range(sItems)' = {}
  BY <1>2, <1>6, <1>7, <1>9 DEF SnapshotInv, JobsApart
<1>11. InMemory' \cap (Held' \cup Filed') = {}
  <2>1. InMemory \cap (Held \cup Filed) = {} /\ Here \cap Range(sItems) = {}
    BY DEF SnapshotInv, JobsApart
  <2>2. InMemory \cap (Held' \cup Filed') = {}
    BY <1>2, <1>3, <1>4, <1>5, <1>6, <2>1
  <2>3. jobs + 1 \notin Held' \cup Filed'
    BY <1>2, <1>3, <1>5, <1>6, <1>7
  <2>4. InMemory' \subseteq InMemory \cup {jobs + 1}
    BY <1>2, <1>4, <1>9
  <2> QED
    BY <2>2, <2>3, <2>4
<1>12. ASSUME ~inSync'
       PROVE  Range(itemsFile)' \cap (Here' \cup Range(sItems)' \cup Held') = {}
  <2>1. Range(itemsFile) \cap (Here \cup Range(sItems) \cup Held) = {}
    BY <1>1, <1>12 DEF SnapshotInv, JobsApart
  <2>2. jobs + 1 \notin Range(itemsFile)
    BY <1>6, <1>7
  <2>3. Held' \subseteq Held \cup Here /\ Here' \subseteq Here \cup {jobs + 1}
    BY <1>3, <1>5, <1>9
  <2> QED
    BY <1>2, <2>1, <2>2, <2>3
<1>13. JobsKept'
  BY <1>1, <1>2, <1>7, <1>9 DEF SnapshotInv, JobsKept
<1> QED
  BY <1>2, <1>8, <1>10, <1>11, <1>12, <1>13 DEF SnapshotInv, JobsApart

-----------------------------------------------------------------------------
(* The steps of the saver.  All but two leave the queues alone. *)

LEMMA SavePlain ==
  ASSUME SnapshotInv, UNCHANGED <<vars, jobs, jobOf, resultJobs>>
  PROVE  /\ QueueInv' /\ ItemsKnown' /\ TypeOK'
         /\ UNCHANGED <<Here, JobsOf(Owed)>>
<1>1. QueueInv'
  BY QueueInvStep DEF SnapshotInv
<1>2. UNCHANGED <<Present, Owed>>
  BY DEF Present, Hands, Work, Owed, Queued, InHand, Draining, InWork,
         Unstarted, vars
<1> QED
  BY <1>1, <1>2
     DEF QueueInv, TypeInv, SnapshotInv, ItemsKnown, Here, JobsOf

LEMMA SaveBeginInv ==
  ASSUME SnapshotInv, SaveBegin
  PROVE  SnapshotInv'
<1>1. /\ UNCHANGED <<vars, resultsFile, sItems, sResults, life, jobs, jobOf,
                     resultJobs, settled>>
      /\ itemsFile' = << >> /\ spc' = "drain" /\ inSync' = FALSE
      /\ lost' = IF inSync THEN lost ELSE lost \cup Range(itemsFile)
      /\ spc = "idle"
  BY DEF SaveBegin
<1>2. QueueInv' /\ ItemsKnown' /\ TypeOK' /\ UNCHANGED <<Here, JobsOf(Owed)>>
  BY <1>1, SavePlain
<1>3. Range(itemsFile) \subseteq 1 .. jobs /\ Range(<< >>) = {} /\ IsInjective(<< >>)
  BY JobSets DEF Range, IsInjective
<1>4. SnapshotTypeOK'
  <2>1. lost' \subseteq 1 .. jobs
    BY <1>1, <1>3 DEF SnapshotInv, SnapshotTypeOK
  <2> QED
    BY <1>1, <1>2, <2>1, EmptyType
       DEF SnapshotInv, SnapshotTypeOK, SaverPlaces, vars
<1>5. SaverPhases'
  BY <1>1 DEF SnapshotInv, SaverPhases
<1>6. JobsApart'
  BY <1>1, <1>2, <1>3 DEF SnapshotInv, JobsApart, InMemory, Held, Filed
<1>7. JobsKept'
  <2>1. CASE inSync
    BY <1>1, <1>2, <1>3, <2>1 DEF SnapshotInv, JobsKept
  <2>2. CASE ~inSync
    BY <1>1, <1>2, <1>3, <2>2 DEF SnapshotInv, JobsKept
  <2> QED
    BY <2>1, <2>2
<1> QED
  BY <1>2, <1>4, <1>5, <1>6, <1>7 DEF SnapshotInv

(* The saver takes an item out of the queue. *)
LEMMA SaveTakesInv ==
  ASSUME SnapshotInv, SaveDrain, itemQueue # << >>
  PROVE  SnapshotInv'
<1> DEFINE i == Head(itemQueue)
           j == jobOf[i]
<1>1. /\ UNCHANGED <<resultQueue, counters, settings, guids, workers, callers,
                     history, files, sResults, life, traces, spc>>
      /\ sItems' = Append(sItems, j) /\ spc = "drain"
  BY DEF SaveDrain
<1>2. QueueInv' /\ counter' = counter /\ i \in Queued /\ Present' = Present \ {i}
  BY SaverTakes DEF SnapshotInv
<1> HIDE DEF i
<1>3. i \in Owed /\ Owed \subseteq Present
  BY <1>2, OwedItems DEF SnapshotInv, QueueInv, OwedIsRest, Owed
<1>4. /\ Present \subseteq DOMAIN jobOf /\ jobOf' = jobOf /\ IsInjective(jobOf)
      /\ \A k \in DOMAIN jobOf : jobOf[k] \in 1 .. jobs
      /\ jobs \in Nat /\ sItems \in Seq(1 .. jobs)
      /\ Here \cap Range(sItems) = {} /\ IsInjective(sItems)
  BY <1>1
     DEF SnapshotInv, ItemsKnown, JobsApart, SnapshotTypeOK
<1>5. /\ Here = {jobOf[k] : k \in Present} /\ Here' = {jobOf[k] : k \in Present'}
      /\ JobsOf(Owed) = {jobOf[k] : k \in Owed}
      /\ JobsOf(Owed)' = {jobOf[k] : k \in Owed'}
  BY <1>4 DEF Here, JobsOf
<1>6. j \in JobsOf(Owed) /\ j \in Here /\ j \in 1 .. jobs /\ j \notin Range(sItems)
  BY <1>3, <1>4, <1>5
<1>7. Here' = Here \ {j}
  BY <1>2, <1>3, <1>4, <1>5 DEF IsInjective
<1>8. JobsOf(Owed)' \subseteq JobsOf(Owed)
  <2>1. ItemInv' => OwedIsRest'
    BY OwedItems, PTL
  <2>2. Owed' = Present' \ (Range(ran) \cup dropped)
    BY <1>1, <1>2, <2>1 DEF OwedIsRest, QueueInv
  <2>3. Owed = Present \ (Range(ran) \cup dropped)
    BY OwedItems DEF OwedIsRest, SnapshotInv, QueueInv
  <2> QED
    BY <1>2, <1>5, <2>2, <2>3
<1> HIDE DEF j
<1>9. Range(sItems') = Range(sItems) \cup {j} /\ IsInjective(sItems')
  <2>1. sItems \in Seq(Nat) /\ j \in Nat
    BY <1>4, <1>6
  <2> QED
    BY <1>1, <1>4, <1>6, <2>1, AppendRange
<1>10. sItems' \in Seq(1 .. jobs)
  BY <1>1, <1>4, <1>6, SeqTypes
<1>11. SnapshotTypeOK'
  BY <1>1, <1>2, <1>10
     DEF SnapshotInv, SnapshotTypeOK, QueueInv, TypeInv
<1>12. SaverPhases' /\ ItemsKnown' /\ ~inSync
  BY <1>1, <1>2, <1>4 DEF SnapshotInv, SaverPhases, ItemsKnown
<1>13. /\ InMemory' = JobsOf(Owed)' \cup Range(sItems')
       /\ InMemory = JobsOf(Owed) \cup Range(sItems)
       /\ UNCHANGED <<Held, Filed, Range(itemsFile)>>
  BY <1>1 DEF InMemory, Held, Filed
<1>14. InMemory' \subseteq InMemory
  BY <1>6, <1>8, <1>9, <1>13
<1>15. JobsApart'
  BY <1>1, <1>4, <1>6, <1>7, <1>9, <1>12, <1>13, <1>14
     DEF SnapshotInv, JobsApart
<1>16. JobsKept'
  BY <1>1, <1>6, <1>7, <1>9, <1>12, <1>13 DEF SnapshotInv, JobsKept
<1> QED
  BY <1>2, <1>11, <1>12, <1>15, <1>16 DEF SnapshotInv

(* It has taken them all, or goes from the items to the results.           *)
LEMMA SaveTurnsInv ==
  ASSUME SnapshotInv,
         \/ SaveDrain /\ itemQueue = << >>
         \/ SaveResultsBegin
         \/ SaveDrainResults /\ resultQueue = << >>
         \/ SaveResult /\ sResults = << >>
  PROVE  SnapshotInv'
<1>1. /\ UNCHANGED <<vars, itemsFile, sItems, sResults, life, traces>>
      /\ resultsFile' = resultsFile \/ resultsFile' = << >>
      /\ spc' \in SaverPlaces
      /\ spc' # "idle" => spc # "idle"
      /\ sItems # << >> => spc' \in {"drain", "write"}
      /\ sResults # << >> => spc' \in {"drainResults", "writeResults"}
  BY DEF SaveDrain, SaveResultsBegin, SaveDrainResults, SaveResult, SaverPlaces,
         vars, SnapshotInv, SaverPhases
<1>2. QueueInv' /\ ItemsKnown' /\ TypeOK' /\ UNCHANGED <<Here, JobsOf(Owed)>>
  BY <1>1, SavePlain
<1>3. SnapshotTypeOK' /\ SaverPhases'
  BY <1>1, <1>2, EmptyType
     DEF SnapshotInv, SnapshotTypeOK, SaverPhases, vars
<1>4. Filed' \subseteq Filed
  BY <1>1 DEF Filed, Range
<1>5. JobsApart' /\ JobsKept'
  BY <1>1, <1>2, <1>4 DEF SnapshotInv, JobsApart, JobsKept, InMemory, Held
<1> QED
  BY <1>2, <1>3, <1>5 DEF SnapshotInv

LEMMA SaveItemInv ==
  ASSUME SnapshotInv, SaveItem
  PROVE  SnapshotInv'
<1> DEFINE j == Head(sItems)
<1>1. /\ UNCHANGED <<vars, resultsFile, spc, sResults, life, traces>>
      /\ itemsFile' = Append(itemsFile, j) /\ sItems' = Tail(sItems)
      /\ sItems # << >> /\ spc = "write"
  BY DEF SaveItem
<1>2. QueueInv' /\ ItemsKnown' /\ TypeOK' /\ UNCHANGED <<Here, JobsOf(Owed)>>
  BY <1>1, SavePlain
<1>3. /\ sItems \in Seq(1 .. jobs) /\ itemsFile \in Seq(1 .. jobs)
      /\ sItems \in Seq(Nat) /\ itemsFile \in Seq(Nat) /\ jobs \in Nat
      /\ IsInjective(sItems) /\ IsInjective(itemsFile) /\ ~inSync
      /\ Range(itemsFile) \cap Range(sItems) = {}
  <2>1. /\ sItems \in Seq(1 .. jobs) /\ itemsFile \in Seq(1 .. jobs)
        /\ jobs \in Nat
    BY DEF SnapshotInv, SnapshotTypeOK
  <2>2. sItems \in Seq(Nat) /\ itemsFile \in Seq(Nat)
    BY <2>1, WiderSeq
  <2>3. ~inSync
    BY <1>1 DEF SnapshotInv, SaverPhases
  <2>4. /\ IsInjective(sItems) /\ IsInjective(itemsFile)
        /\ Range(itemsFile) \cap Range(sItems) = {}
    BY <2>3 DEF SnapshotInv, JobsApart
  <2> QED
    BY <2>1, <2>2, <2>3, <2>4
<1>4. j \in 1 .. jobs /\ j \in Nat /\ Tail(sItems) \in Seq(1 .. jobs)
  BY <1>1, <1>3, SeqTypes
<1>5. /\ Range(sItems) = Range(sItems') \cup {j} /\ j \notin Range(sItems')
      /\ IsInjective(sItems')
  BY <1>1, <1>3, TailRange
<1> HIDE DEF j
<1>6. Range(itemsFile') = Range(itemsFile) \cup {j} /\ IsInjective(itemsFile')
  BY <1>1, <1>3, <1>4, <1>5, AppendRange
<1>7. itemsFile' \in Seq(1 .. jobs)
  BY <1>1, <1>3, <1>4, SeqTypes
<1>8. SnapshotTypeOK' /\ SaverPhases'
  BY <1>1, <1>2, <1>4, <1>7
     DEF SnapshotInv, SnapshotTypeOK, SaverPhases, vars
<1>9. UNCHANGED <<Held, Filed>> /\ InMemory' \subseteq InMemory /\ j \in InMemory
  BY <1>1, <1>2, <1>5 DEF Held, Filed, InMemory
<1>10. JobsApart'
  BY <1>1, <1>2, <1>3, <1>5, <1>6, <1>9 DEF SnapshotInv, JobsApart
<1>11. JobsKept'
  BY <1>1, <1>2, <1>3, <1>5, <1>6 DEF SnapshotInv, JobsKept
<1> QED
  BY <1>2, <1>8, <1>10, <1>11 DEF SnapshotInv

(* The saver takes a result out of its queue. *)
LEMMA SaveTakesResultInv ==
  ASSUME SnapshotInv, SaveDrainResults, resultQueue # << >>
  PROVE  SnapshotInv'
<1> DEFINE Result == [id : Nat, error : BOOLEAN]
           R == [result : Result, job : 1 .. jobs]
           r == [result |-> Head(resultQueue), job |-> Head(resultJobs)]
<1>1. /\ UNCHANGED <<itemQueue, counters, settings, guids, workers, callers,
                     history, files, sItems, life, inSync, jobs, jobOf,
                     settled, lost, spc>>
      /\ resultQueue' = Tail(resultQueue) /\ resultJobs' = Tail(resultJobs)
      /\ sResults' = Append(sResults, r) /\ spc = "drainResults"
  BY DEF SaveDrainResults
<1>2. /\ resultQueue \in Seq(Result) /\ resultJobs \in Seq(1 .. jobs)
      /\ Len(resultJobs) = Len(resultQueue) /\ sResults \in Seq(R)
  BY DEF SnapshotInv, SnapshotTypeOK, TypeOK, TypeQueues
<1>3. Head(resultJobs) \in 1 .. jobs /\ r.job = Head(resultJobs) /\ r \in R
  <2> HIDE DEF Result
  <2>1. Len(resultQueue) # 0
    BY <1>2
  <2>2. resultJobs # << >>
    BY <1>2, <2>1
  <2> QED
    BY <1>2, <2>2, SeqTypes
<1>4. /\ Tail(resultQueue) \in Seq(Result) /\ Tail(resultJobs) \in Seq(1 .. jobs)
      /\ Len(Tail(resultQueue)) = Len(Tail(resultJobs))
      /\ Range(resultJobs) = Range(Tail(resultJobs)) \cup {Head(resultJobs)}
  <2> HIDE DEF Result
  <2>1. Len(resultQueue) # 0
    BY <1>2
  <2>2. resultJobs # << >>
    BY <1>2, <2>1
  <2>3. /\ Len(Tail(resultQueue)) = Len(resultQueue) - 1
        /\ Len(Tail(resultJobs)) = Len(resultJobs) - 1
    BY <1>2, <2>1, <2>2
  <2> QED
    BY <1>2, <2>2, <2>3, SeqTypes, TailPart
<1>5. QueueInv' /\ counter' = counter /\ Present' = Present
  BY <1>1, <1>4, QueueInvKept DEF SnapshotInv
<1>6. UNCHANGED <<Owed, Here, JobsOf(Owed), ItemsKnown, InMemory, Filed>>
  BY <1>1, <1>5
     DEF Owed, Queued, InHand, Draining, InWork, Unstarted, Here, JobsOf,
         ItemsKnown, InMemory, Filed
<1> HIDE DEF r
<1>7. Range(sResults') = Range(sResults) \cup {r} /\ sResults' \in Seq(R)
  <2> HIDE DEF R
  <2> QED
    BY <1>1, <1>2, <1>3, AppendRange, SeqTypes
<1>8. Held' \subseteq Held
  BY <1>1, <1>3, <1>4, <1>7 DEF Held
<1>9. SnapshotTypeOK'
  BY <1>1, <1>4, <1>5, <1>7
     DEF SnapshotInv, SnapshotTypeOK, QueueInv, TypeInv
<1>10. SaverPhases' /\ ItemsKnown'
  BY <1>1, <1>6 DEF SnapshotInv, SaverPhases
<1>11. JobsApart' /\ JobsKept'
  BY <1>1, <1>6, <1>8 DEF SnapshotInv, JobsApart, JobsKept
<1> QED
  BY <1>5, <1>9, <1>10, <1>11 DEF SnapshotInv

LEMMA SaveResultInv ==
  ASSUME SnapshotInv, SaveResult, sResults # << >>
  PROVE  SnapshotInv'
<1> DEFINE R == [result : [id : Nat, error : BOOLEAN], job : 1 .. jobs]
           r == Head(sResults)
<1>1. /\ UNCHANGED <<vars, itemsFile, spc, sItems, life, traces>>
      /\ resultsFile' = Append(resultsFile, r) /\ sResults' = Tail(sResults)
      /\ spc = "writeResults"
  BY DEF SaveResult
<1>2. QueueInv' /\ ItemsKnown' /\ TypeOK' /\ UNCHANGED <<Here, JobsOf(Owed)>>
  BY <1>1, SavePlain
<1>3. sResults \in Seq(R) /\ resultsFile \in Seq(R)
  BY DEF SnapshotInv, SnapshotTypeOK
<1>4. /\ r \in R /\ sResults' \in Seq(R) /\ resultsFile' \in Seq(R)
      /\ Range(sResults) = Range(sResults') \cup {r}
      /\ Range(resultsFile') = Range(resultsFile) \cup {r}
  <2> HIDE DEF R
  <2>1. r \in R /\ Tail(sResults) \in Seq(R)
    BY <1>3, SeqTypes
  <2>2. Range(sResults) = Range(Tail(sResults)) \cup {r}
    BY <1>3, TailPart
  <2> HIDE DEF r
  <2>3. /\ Append(resultsFile, r) \in Seq(R)
        /\ Range(Append(resultsFile, r)) = Range(resultsFile) \cup {r}
    BY <1>3, <2>1, AppendRange, SeqTypes
  <2> QED
    BY <1>1, <2>1, <2>2, <2>3
<1> HIDE DEF r
<1>5. SnapshotTypeOK' /\ SaverPhases' /\ ~inSync
  BY <1>1, <1>2, <1>4
     DEF SnapshotInv, SnapshotTypeOK, SaverPhases, vars
<1>6. /\ Held' \subseteq Held /\ Filed' = Filed \cup {r.job} /\ r.job \in Held
      /\ InMemory' = InMemory
  BY <1>1, <1>2, <1>4 DEF Held, Filed, InMemory
<1>7. JobsApart' /\ JobsKept'
  BY <1>1, <1>2, <1>5, <1>6 DEF SnapshotInv, JobsApart, JobsKept
<1> QED
  BY <1>2, <1>5, <1>7 DEF SnapshotInv

LEMMA SaveFailsInv ==
  ASSUME SnapshotInv, SaveFails
  PROVE  SnapshotInv'
<1>1. /\ UNCHANGED <<vars, files, life, inSync, jobs, jobOf, resultJobs, settled>>
      /\ sItems' = << >> /\ sResults' = << >> /\ spc' = "idle"
      /\ lost' = lost \cup Range(sItems) /\ spc # "idle"
  BY DEF SaveFails
<1>2. QueueInv' /\ ItemsKnown' /\ TypeOK' /\ UNCHANGED <<Here, JobsOf(Owed)>>
  BY <1>1, SavePlain
<1>3. Range(sItems) \subseteq 1 .. jobs /\ Range(<< >>) = {} /\ IsInjective(<< >>)
  BY JobSets DEF Range, IsInjective
<1>4. SnapshotTypeOK' /\ SaverPhases' /\ ~inSync
  BY <1>1, <1>2, <1>3, EmptyType
     DEF SnapshotInv, SnapshotTypeOK, SaverPhases, SaverPlaces, vars
<1>5. /\ Held' \subseteq Held /\ InMemory' \subseteq InMemory /\ Filed' = Filed
      /\ Range(sItems') = {}
  BY <1>1, <1>2, <1>3 DEF Held, InMemory, Filed
<1>6. JobsApart'
  BY <1>1, <1>2, <1>3, <1>4, <1>5 DEF SnapshotInv, JobsApart
<1>7. JobsKept'
  BY <1>1, <1>2, <1>4, <1>5 DEF SnapshotInv, JobsKept
<1> QED
  BY <1>2, <1>4, <1>6, <1>7 DEF SnapshotInv

LEMMA SaveInv ==
  ASSUME SnapshotInv, Save
  PROVE  SnapshotInv'
BY SaveBeginInv, SaveTakesInv, SaveTurnsInv, SaveItemInv, SaveTakesResultInv,
   SaveResultInv, SaveFailsInv DEF Save

-----------------------------------------------------------------------------
LEMMA RestartInv ==
  ASSUME SnapshotInv, Restart
  PROVE  SnapshotInv'
<1> DEFINE R == [result : [id : Nat, error : BOOLEAN], job : 1 .. jobs]
<1>1. QueueInv' /\ Present' = Queued' /\ Owed' = Queued'
  BY RestartPlaces DEF SnapshotInv
<1>2. PICK items \in Seq(1 .. jobs), results \in Seq(R) :
        /\ Opens(items, results)
        /\ \/ items = itemsFile /\ results = resultsFile /\ inSync' = TRUE
           \/ items = << >> /\ results = << >> /\ inSync' = FALSE
  BY RestartOpens, EmptyType DEF SnapshotInv, SnapshotTypeOK
<1>3. /\ UNCHANGED <<files, jobs>> /\ settled' = Settled
      /\ lost' = lost \cup (InMemory \ Range(itemsFile))
      /\ spc' = "idle" /\ sItems' = << >> /\ sResults' = << >>
      /\ life < MaxLives /\ life' = life + 1
  BY DEF Restart
<1>4. /\ DOMAIN jobOf' = Queued' /\ jobOf' \in [Queued' -> 1 .. jobs]
      /\ Queued' \subseteq 0 .. counter'
      /\ IsInjective(items) => IsInjective(jobOf')
      /\ Range(jobOf') = Range(items)
  BY <1>2, OpensItems
<1>5. /\ resultJobs' \in Seq(1 .. jobs) /\ Len(resultJobs') = Len(resultQueue')
      /\ Range(resultJobs') = {r.job : r \in Range(results)}
  <2> DEFINE Result == [id : Nat, error : BOOLEAN]
             f == [k \in DOMAIN results |-> results[k].result]
             g == [k \in DOMAIN results |-> results[k].job]
  <2>1. resultQueue' = f /\ resultJobs' = g
    BY <1>2 DEF Opens
  <2>2. results \in Seq([result : Result, job : 1 .. jobs])
    BY <1>2
  <2> HIDE DEF Result
  <2> HIDE DEF R
  <2>3. [k \in DOMAIN results |-> results[k].job] \in Seq(1 .. jobs)
    BY <2>2, Halves
  <2>4. Len([k \in DOMAIN results |-> results[k].job]) = Len(results)
    BY <2>2, Halves
  <2>5. Len([k \in DOMAIN results |-> results[k].result]) = Len(results)
    BY <2>2, Halves
  <2>6. Range([k \in DOMAIN results |-> results[k].job])
          = {r.job : r \in Range(results)}
    BY <2>2, Halves
  <2>7. /\ g \in Seq(1 .. jobs) /\ Len(g) = Len(f)
        /\ Range(g) = {r.job : r \in Range(results)}
    BY <2>3, <2>4, <2>5, <2>6
  <2> HIDE DEF f, g
  <2> QED
    BY <2>1, <2>7
<1>6. Range(<< >>) = {} /\ IsInjective(<< >>)
  BY DEF Range, IsInjective
<1>7. Here' = Range(items) /\ JobsOf(Owed)' = Range(items)
  <2>1. Here' = {jobOf'[i] : i \in Queued'} /\ JobsOf(Owed)' = {jobOf'[i] : i \in Queued'}
    BY <1>1 DEF Here, JobsOf
  <2> QED
    BY <1>4, <2>1 DEF Range
<1>8. /\ Held' = {r.job : r \in Range(results)} /\ Filed' = Filed
      /\ InMemory' = Range(items)
  BY <1>3, <1>5, <1>6, <1>7 DEF Held, Filed, InMemory
<1>9. /\ Here = JobsOf(Owed) \cup JobsOf(Range(ran) \cup dropped)
      /\ Range(sItems) \cup Here \cup lost \cup settled \subseteq 1 .. jobs
  BY JobSets
<1>10. /\ Settled = settled \cup JobsOf(Range(ran) \cup dropped)
       /\ InMemory = JobsOf(Owed) \cup Range(sItems)
  BY DEF Settled, InMemory
<1>11. SnapshotTypeOK'
  <2>1. TypeOK' /\ life' \in 1 .. MaxLives
    BY <1>1, <1>3, LivesAssumption
       DEF QueueInv, TypeInv, SnapshotInv, SnapshotTypeOK
  <2>2. settled' \subseteq 1 .. jobs /\ lost' \subseteq 1 .. jobs
    BY <1>3, <1>9, <1>10
  <2> QED
    BY <1>2, <1>3, <1>4, <1>5, <2>1, <2>2, EmptyType
       DEF SnapshotInv, SnapshotTypeOK, SaverPlaces
<1>12. SaverPhases' /\ ItemsKnown'
  BY <1>1, <1>3, <1>4 DEF SaverPhases, ItemsKnown
<1>13. JobsApart'
  <2>1. IsInjective(items) /\ Range(items) \cap {r.job : r \in Range(results)} = {}
    BY <1>2, <1>6 DEF SnapshotInv, JobsApart, Filed
  <2>2. Range(items) \cap Filed = {}
    BY <1>2, <1>6 DEF SnapshotInv, JobsApart
  <2>3. ~inSync' => Range(items) = {} /\ {r.job : r \in Range(results)} = {}
    BY <1>2, <1>6
  <2> QED
    BY <1>3, <1>4, <1>6, <1>7, <1>8, <2>1, <2>2, <2>3
       DEF SnapshotInv, JobsApart
<1>14. JobsKept'
  <2>1. Range(items) \subseteq Range(itemsFile)
    BY <1>2, <1>6
  <2>2. inSync' => Range(items) = Range(itemsFile)
    BY <1>2
  <2> QED
    BY <1>3, <1>6, <1>7, <1>9, <1>10, <2>1, <2>2 DEF SnapshotInv, JobsKept
<1> QED
  BY <1>1, <1>11, <1>12, <1>13, <1>14 DEF SnapshotInv

LEMMA SnapshotInitInv == SnapshotInit => SnapshotInv
<1> SUFFICES ASSUME SnapshotInit PROVE SnapshotInv
  OBVIOUS
<1> USE DEF SnapshotInit
<1>1. SafeInv
  BY InitSafe
<1>2. TypeOK /\ QueueInv
  BY <1>1 DEF SafeInv, QueueInv, TypeInv
<1>3. Range(<< >>) = {} /\ IsInjective(<< >>)
  BY DEF Range, IsInjective
<1>4. Present = {} /\ Here = {} /\ Owed = {} /\ JobsOf(Owed) = {}
  <2>1. 1 .. counter = {} /\ counter = 0
    BY DEF Init
  <2>2. Present = {}
    BY <1>1, <2>1, NoneLost DEF SafeInv
  <2> QED
    BY <1>2, <2>2, OwedItems DEF QueueInv, OwedIsRest, Here, JobsOf
<1>5. SnapshotTypeOK
  <2>1. jobOf = << >> /\ resultJobs = << >> /\ jobs = 0 /\ spc = "idle"
        /\ itemsFile = << >> /\ sItems = << >> /\ settled = {} /\ lost = {}
        /\ resultsFile = << >> /\ sResults = << >> /\ inSync = FALSE
    OBVIOUS
  <2>2. DOMAIN jobOf = {} /\ jobOf \in [DOMAIN jobOf -> 1 .. jobs]
    BY <2>1
  <2>3. Len(resultJobs) = Len(resultQueue)
    BY <2>1 DEF Init
  <2>4. life \in 1 .. MaxLives
    BY LivesAssumption
  <2>5. \A f \in {resultsFile, sResults} :
          f \in Seq([result : [id : Nat, error : BOOLEAN], job : 1 .. jobs])
    BY <2>1, EmptyType
  <2>6. /\ itemsFile \in Seq(1 .. jobs) /\ sItems \in Seq(1 .. jobs)
        /\ resultJobs \in Seq(1 .. jobs)
    BY <2>1, EmptyType
  <2> HIDE DEF SnapshotInit
  <2> QED
    BY <1>2, <2>1, <2>2, <2>3, <2>4, <2>5, <2>6
       DEF SnapshotTypeOK, SaverPlaces
<1>6. ItemsKnown /\ SaverPhases
  BY <1>4 DEF ItemsKnown, SaverPhases
<1>7. JobsApart /\ JobsKept
  BY <1>3, <1>4 DEF JobsApart, JobsKept, InMemory, Held, Filed
<1> QED
  BY <1>2, <1>5, <1>6, <1>7 DEF SnapshotInv

LEMMA SnapshotStep ==
  SnapshotInv /\ [SnapshotNext]_snapshotVars => SnapshotInv'
<1> SUFFICES ASSUME SnapshotInv, [SnapshotNext]_snapshotVars PROVE SnapshotInv'
  OBVIOUS
<1>1. CASE UNCHANGED snapshotVars
  <2>1. QueueInv' /\ ItemsKnown' /\ TypeOK' /\ UNCHANGED <<Here, JobsOf(Owed)>>
    BY <1>1, SavePlain DEF snapshotVars
  <2> QED
    BY <1>1, <2>1
       DEF snapshotVars, vars, SnapshotInv, SnapshotTypeOK, SaverPhases,
           JobsApart, JobsKept, InMemory, Held, Filed
<1>2. CASE QueueStep
  <2>1. QueueInv'
    BY <1>2, QueueInvStep DEF QueueStep, SnapshotInv
  <2> QED
    BY <1>2, <2>1, QueueStepTypes, QueueStepJobs, FollowItems DEF SnapshotInv
<1> QED
  BY <1>1, <1>2, SaveInv, RestartInv DEF SnapshotNext

LEMMA SnapshotSafe == SnapshotSpec => []SnapshotInv
BY SnapshotInitInv, SnapshotStep, PTL DEF SnapshotSpec

(* The files, the lists the saver holds and the queues keep their types in *)
(* every life.                                                             *)
THEOREM SnapshotTypeCorrect == SnapshotSpec => []SnapshotTypeOK
<1>1. SnapshotInv => SnapshotTypeOK
  BY DEF SnapshotInv
<1> QED
  BY SnapshotSafe, <1>1, PTL

(* Beside the saver, and with the ids of the restored items beside those   *)
(* of new pushes, a life keeps what AsyncQueue promises: an item is in one *)
(* place and run at most once, and not when it was discarded.              *)
THEOREM EachLifeRunsOnce == SnapshotSpec => []ItemsUnique
<1>1. SnapshotInv => ItemsUnique
  BY DEF SnapshotInv, QueueInv, ItemInv, Apart, ItemsUnique
<1> QED
  BY SnapshotSafe, <1>1, PTL

(* A job not yet begun is in memory or in items.bin, or was lost in one of *)
(* the ways lost names.                                                    *)
THEOREM EveryJobAccounted == SnapshotSpec => []Accounted
<1>1. SnapshotInv => Accounted
  BY JobSets
     DEF SnapshotInv, JobsKept, Accounted, InMemory, Settled
<1> QED
  BY SnapshotSafe, <1>1, PTL

(* A life never has two copies of a job, however many saves and restores   *)
(* went before it.                                                         *)
THEOREM OneCopy == SnapshotSpec => []OneCopyPerLife
<1>1. SnapshotInv => OneCopyPerLife
  BY JobSets
     DEF SnapshotInv, JobsApart, OneCopyPerLife, JobsOf
<1> QED
  BY SnapshotSafe, <1>1, PTL

(* No job is stored, or held in memory, both as an item to run and as its  *)
(* result.                                                                 *)
THEOREM ItemOrResult == SnapshotSpec => []NeverBoth
<1>1. SnapshotInv => NeverBoth
  BY DEF SnapshotInv, JobsApart, NeverBoth, InMemory, Held, Filed
<1> QED
  BY SnapshotSafe, <1>1, PTL

-----------------------------------------------------------------------------
(* The order of the pushes.                                                *)

(* The newest id has the newest job. *)
NewestJob == counter \in DOMAIN jobOf => jobOf[counter] = jobs

(* Jobs grow from items.bin over what the saver holds to the queue.        *)
SaveOrder ==
  /\ Ascends(jobOf) /\ Ascends(itemQueue)
  /\ Ascends(sItems) /\ Ascends(itemsFile)
  /\ \A s \in Range(sItems), i \in Queued : s < jobOf[i]
  /\ \A f \in Range(itemsFile), s \in Range(sItems) : f < s
  /\ spc = "drain" => itemsFile = << >>

SaveOrderInv ==
  SnapshotInv /\ CallsAlone /\ LastIssued /\ NewestJob /\ SaveOrder

(* What one life does to the queue when calls come one at a time.          *)
LEMMA QueueMoves ==
  ASSUME ItemInv, TypeOK, CallsAlone, LastIssued, Next
  PROVE  \/ itemQueue' = itemQueue
         \/ itemQueue # << >> /\ itemQueue' = Tail(itemQueue)
         \/ counter \in Hands /\ itemQueue' = Append(itemQueue, counter)
<1>1. ASSUME NEW c \in Callers, PushItem(c) \/ BatchItem(c)
      PROVE  counter \in Hands /\ itemQueue' = Append(itemQueue, counter)
  <2>1. /\ itemQueue' = Append(itemQueue, cId[c]) /\ cId[c] = counter
        /\ counter \in InHand(c)
    BY <1>1 DEF PushItem, BatchItem, LastIssued, InHand
  <2> QED
    BY <2>1 DEF Hands
<1>2. ASSUME NEW c \in Callers, ClearPop(c)
      PROVE  itemQueue # << >> /\ itemQueue' = Tail(itemQueue)
  BY <1>2 DEF ClearPop
<1>3. ASSUME NEW c \in Callers, CallBegins(c) \/ CallContinues(c),
             ~PushItem(c), ~BatchItem(c), ~ClearPop(c)
      PROVE  itemQueue' = itemQueue
  BY <1>3
     DEF CallBegins, CallContinues, PushBegin, BatchBegin, RemoveUnindex,
         GetBegin, GetBlockingBegin, ClearBegin, PendingBegin, Close,
         SetMode, Start, PushAlloc, PushIndex, BatchAlloc, BatchIndex,
         RemoveMark, GetPop, GetReturn, GetCount, GetBlockingPop,
         PopResult, ClearReturn, PendingPop, PendingPush, CallsAlone
<1>4. ASSUME NEW w \in Workers, WorkerStep(w)
      PROVE  \/ itemQueue' = itemQueue
             \/ itemQueue # << >> /\ itemQueue' = Tail(itemQueue)
  BY <1>4
     DEF WorkerStep, WorkerPop, WorkerEmpty, WorkerCheck, WorkerEnter,
         WorkerCall, WorkerReturn, WorkerPush, WorkerError, WorkerCount,
         WorkerLeave
<1> QED
  BY <1>1, <1>2, <1>3, <1>4 DEF Next

(* An id keeps its job, and the next id gets the next job. *)
LEMMA JobsFollow ==
  ASSUME SnapshotInv, Ascends(jobOf), NewestJob, QueueStep
  PROVE  /\ Ascends(jobOf') /\ NewestJob'
         /\ \A i \in DOMAIN jobOf : jobOf'[i] = jobOf[i]
<1>1. QueueInv /\ FollowJobs /\ Next
  BY DEF SnapshotInv, QueueStep
<1>2. /\ DOMAIN jobOf \subseteq 0 .. counter /\ counter \in Nat /\ jobs \in Nat
      /\ \A i \in DOMAIN jobOf : jobOf[i] \in 1 .. jobs
  BY DEF SnapshotInv, SnapshotTypeOK, TypeOK, TypeScalars
<1>3. counter' = counter \/ counter' = counter + 1
  BY <1>1, QueueInvStep DEF Flow
<1>4. CASE counter' = counter
  BY <1>1, <1>4 DEF FollowJobs, NewestJob
<1>5. CASE counter' = counter + 1
  <2>1. /\ DOMAIN jobOf' = DOMAIN jobOf \cup {counter'} /\ jobs' = jobs + 1
        /\ jobOf'[counter'] = jobs'
        /\ \A i \in DOMAIN jobOf : jobOf'[i] = jobOf[i]
    BY <1>1, <1>2, <1>5 DEF FollowJobs
  <2>2. NewestJob'
    BY <2>1 DEF NewestJob
  <2>3. ASSUME NEW i \in DOMAIN jobOf', NEW j \in DOMAIN jobOf', i < j
        PROVE  jobOf'[i] < jobOf'[j]
    <3>1. i \in DOMAIN jobOf
      BY <1>2, <1>5, <2>1, <2>3
    <3>2. CASE j = counter'
      BY <1>2, <2>1, <3>1, <3>2
    <3>3. CASE j # counter'
      BY <2>1, <2>3, <3>1, <3>3 DEF Ascends
    <3> QED
      BY <3>2, <3>3
  <2> QED
    BY <2>1, <2>2, <2>3 DEF Ascends
<1> QED
  BY <1>3, <1>4, <1>5

LEMMA QueueStepOrder ==
  ASSUME SaveOrderInv, QueueStep
  PROVE  NewestJob' /\ SaveOrder'
<1>1. /\ SnapshotInv /\ ItemInv /\ TypeOK /\ ItemsKnown /\ NewestJob /\ SaveOrder
      /\ itemQueue \in Seq(Nat) /\ counter \in Nat /\ jobs \in Nat
      /\ DOMAIN jobOf \subseteq 0 .. counter
      /\ Queued \cup Hands \subseteq DOMAIN jobOf
  BY DEF SaveOrderInv, SnapshotInv, QueueInv, TypeInv, SnapshotTypeOK, TypeOK,
         TypeQueues, TypeScalars, ItemsKnown, Present
<1>2. UNCHANGED <<itemsFile, sItems, spc>>
  BY DEF QueueStep
<1>3. /\ Ascends(jobOf') /\ NewestJob'
      /\ \A i \in DOMAIN jobOf : jobOf'[i] = jobOf[i]
  BY <1>1, JobsFollow DEF SaveOrder
<1>4. /\ Ascends(itemQueue')
      /\ \A s \in Range(sItems), i \in Queued' : i \in DOMAIN jobOf /\ s < jobOf[i]
  <2>1. CASE itemQueue' = itemQueue
    BY <1>1, <2>1 DEF SaveOrder, Queued
  <2>2. CASE itemQueue # << >> /\ itemQueue' = Tail(itemQueue)
    <3>1. Ascends(itemQueue') /\ Queued' \subseteq Queued
      BY <1>1, <2>2, AscendsTail, Popped DEF SaveOrder
    <3> QED
      BY <1>1, <3>1 DEF SaveOrder
  <2>3. CASE counter \in Hands /\ itemQueue' = Append(itemQueue, counter)
    <3>1. \A i \in Queued : i < counter
      <4>1. counter \notin Queued
        BY <1>1, <2>3 DEF ItemInv, Apart, HandsApart, Hands
      <4>2. \A i \in 0 .. counter : i # counter => i < counter
        BY <1>1
      <4> QED
        BY <1>1, <4>1, <4>2
    <3>2. Ascends(itemQueue') /\ Queued' = Queued \cup {counter}
      BY <1>1, <2>3, <3>1, AppendRange, AscendsAppend DEF SaveOrder, Queued
    <3>3. \A s \in Range(sItems) : s < jobOf[counter]
      <4>1. jobOf[counter] = jobs
        BY <1>1, <2>3 DEF NewestJob
      <4>2. jobs \notin Range(sItems)
        BY <1>1, <2>3, <4>1
           DEF SnapshotInv, JobsApart, Here, JobsOf, Present
      <4>3. Range(sItems) \subseteq 1 .. jobs
        BY <1>1, JobSets
      <4>4. \A s \in 1 .. jobs : s # jobs => s < jobs
        BY <1>1
      <4> QED
        BY <4>1, <4>2, <4>3, <4>4
    <3> QED
      BY <1>1, <2>3, <3>2, <3>3 DEF SaveOrder
  <2> QED
    BY <1>1, <2>1, <2>2, <2>3, QueueMoves DEF SaveOrderInv, QueueStep
<1> QED
  BY <1>1, <1>2, <1>3, <1>4 DEF SaveOrder

LEMMA SaveTakesOrder ==
  ASSUME SaveOrderInv, SaveDrain, itemQueue # << >>
  PROVE  SaveOrder'
<1> DEFINE i == Head(itemQueue)
           j == jobOf[i]
<1>1. /\ itemQueue' = Tail(itemQueue) /\ sItems' = Append(sItems, j)
      /\ UNCHANGED <<jobOf, itemsFile>> /\ spc = "drain"
  BY DEF SaveDrain
<1>2. /\ ItemInv /\ TypeOK /\ SaveOrder /\ itemQueue \in Seq(Nat) /\ jobs \in Nat
      /\ Queued \subseteq DOMAIN jobOf /\ sItems \in Seq(1 .. jobs)
      /\ \A k \in DOMAIN jobOf : jobOf[k] \in 1 .. jobs
  BY DEF SaveOrderInv, SnapshotInv, QueueInv, TypeInv, SnapshotTypeOK, TypeOK,
         TypeQueues, ItemsKnown, Present
<1>3. /\ i \in Queued /\ Queued' \subseteq Queued /\ Ascends(itemQueue')
      /\ \A k \in Queued' : i < k
  BY <1>1, <1>2, Popped, AscendsTail DEF SaveOrder, Queued
<1>4. j \in 1 .. jobs /\ j \in Nat /\ sItems \in Seq(Nat)
  <2>1. sItems \in Seq(Nat)
    BY <1>2, WiderSeq
  <2> QED
    BY <1>2, <1>3, <2>1
<1>5. \A k \in Queued' : j < jobOf[k]
  BY <1>2, <1>3 DEF SaveOrder, Ascends
<1>6. \A s \in Range(sItems) : s < j
  BY <1>2, <1>3 DEF SaveOrder
<1>7. itemsFile' = << >> /\ Range(itemsFile)' = {} /\ Ascends(itemsFile')
  BY <1>1, <1>2 DEF SaveOrder, Range, Ascends
<1> HIDE DEF i, j
<1>8. Range(sItems') = Range(sItems) \cup {j} /\ Ascends(sItems')
  <2>1. Range(Append(sItems, j)) = Range(sItems) \cup {j}
    BY <1>4, AppendRange
  <2>2. Ascends(Append(sItems, j))
    BY <1>2, <1>4, <1>6, AscendsAppend DEF SaveOrder
  <2> QED
    BY <1>1, <2>1, <2>2
<1>9. \A s \in Range(sItems'), k \in Queued' : s < jobOf'[k]
  BY <1>1, <1>2, <1>3, <1>5, <1>8 DEF SaveOrder
<1> QED
  BY <1>1, <1>2, <1>3, <1>7, <1>8, <1>9 DEF SaveOrder

LEMMA SaveItemOrder ==
  ASSUME SaveOrderInv, SaveItem
  PROVE  SaveOrder'
<1> DEFINE j == Head(sItems)
<1>1. /\ itemsFile' = Append(itemsFile, j) /\ sItems' = Tail(sItems)
      /\ UNCHANGED <<itemQueue, jobOf, spc>> /\ sItems # << >> /\ spc = "write"
  BY DEF SaveItem, vars
<1>2. /\ SaveOrder /\ jobs \in Nat
      /\ sItems \in Seq(1 .. jobs) /\ itemsFile \in Seq(1 .. jobs)
  BY DEF SaveOrderInv, SnapshotInv, SnapshotTypeOK
<1>3. sItems \in Seq(Nat) /\ itemsFile \in Seq(Nat)
  BY <1>2, WiderSeq
<1>4. /\ Range(sItems) = Range(sItems') \cup {j} /\ j \in Nat
      /\ Ascends(sItems') /\ \A s \in Range(sItems') : j < s
  BY <1>1, <1>2, <1>3, TailPart, AscendsTail DEF SaveOrder
<1>5. \A f \in Range(itemsFile) : f < j
  BY <1>2, <1>4 DEF SaveOrder
<1> HIDE DEF j
<1>6. Range(itemsFile') = Range(itemsFile) \cup {j} /\ Ascends(itemsFile')
  <2>1. Range(Append(itemsFile, j)) = Range(itemsFile) \cup {j}
    BY <1>3, <1>4, AppendRange
  <2>2. Ascends(Append(itemsFile, j))
    BY <1>2, <1>3, <1>4, <1>5, AscendsAppend DEF SaveOrder
  <2> QED
    BY <1>1, <2>1, <2>2
<1>7. \A f \in Range(itemsFile'), s \in Range(sItems') : f < s
  BY <1>2, <1>4, <1>6 DEF SaveOrder
<1>8. \A s \in Range(sItems'), k \in Queued' : s < jobOf'[k]
  BY <1>1, <1>2, <1>4 DEF SaveOrder, Queued
<1> QED
  BY <1>1, <1>2, <1>4, <1>6, <1>7, <1>8 DEF SaveOrder

LEMMA SaveOrderStep ==
  ASSUME SaveOrderInv, Save
  PROVE  CallsAlone' /\ LastIssued' /\ NewestJob' /\ SaveOrder'
<1>1. SaveOrder /\ CallsAlone /\ LastIssued /\ NewestJob
  BY DEF SaveOrderInv
<1>2. UNCHANGED <<cpc, cId, counter, jobOf, jobs>>
  BY DEF Save, SaveBegin, SaveDrain, SaveItem, SaveResultsBegin,
         SaveDrainResults, SaveResult, SaveFails, vars
<1>3. CallsAlone' /\ LastIssued' /\ NewestJob'
  BY <1>1, <1>2 DEF CallsAlone, LastIssued, NewestJob
<1>4. Range(<< >>) = {} /\ Ascends(<< >>)
  BY DEF Range, Ascends
<1>5. CASE SaveBegin
  <2>1. itemsFile' = << >> /\ UNCHANGED <<itemQueue, jobOf, sItems>>
    BY <1>5 DEF SaveBegin, vars
  <2> QED
    BY <1>1, <1>3, <1>4, <2>1 DEF SaveOrder, Queued
<1>6. CASE SaveFails
  <2>1. /\ sItems' = << >> /\ spc' = "idle"
        /\ UNCHANGED <<itemQueue, jobOf, itemsFile>>
    BY <1>6 DEF SaveFails, vars
  <2> QED
    BY <1>1, <1>3, <1>4, <2>1 DEF SaveOrder, Queued
<1>7. CASE \/ SaveDrain /\ itemQueue = << >>
           \/ SaveResultsBegin
           \/ SaveDrainResults
           \/ SaveResult
  <2>1. UNCHANGED <<itemQueue, jobOf, sItems, itemsFile>> /\ spc' # "drain"
    BY <1>7 DEF SaveDrain, SaveResultsBegin, SaveDrainResults, SaveResult, vars
  <2> QED
    BY <1>1, <1>3, <2>1 DEF SaveOrder, Queued
<1> QED
  BY <1>3, <1>5, <1>6, <1>7, SaveTakesOrder, SaveItemOrder DEF Save

LEMMA RestartOrder ==
  ASSUME SaveOrderInv, Restart
  PROVE  CallsAlone' /\ LastIssued' /\ NewestJob' /\ SaveOrder'
<1>1. SaveOrder /\ SnapshotTypeOK
  BY DEF SaveOrderInv, SnapshotInv
<1>2. /\ \A c \in Callers : cpc'[c] = "idle"
      /\ sItems' = << >> /\ spc' = "idle" /\ itemsFile' = itemsFile
  BY DEF Restart
<1>3. CallsAlone' /\ LastIssued'
  BY <1>2 DEF CallsAlone, LastIssued
<1>4. Range(<< >>) = {} /\ Ascends(<< >>)
  BY DEF Range, Ascends
<1>5. PICK items \in Seq(1 .. jobs), results \in {resultsFile, << >>} :
        Opens(items, results) /\ (items = itemsFile \/ items = << >>)
  BY <1>1, RestartOpens, EmptyType DEF SnapshotTypeOK
<1>6. Ascends(itemQueue') /\ Ascends(jobOf')
  BY <1>1, <1>4, <1>5, OpensItems DEF SaveOrder
<1>7. counter' \notin DOMAIN jobOf'
  BY <1>5 DEF Opens
<1> QED
  BY <1>1, <1>2, <1>3, <1>4, <1>6, <1>7 DEF SaveOrder, NewestJob

LEMMA SaveOrderInitInv == SnapshotInit => SaveOrderInv
<1> SUFFICES ASSUME SnapshotInit PROVE SaveOrderInv
  OBVIOUS
<1>1. SnapshotInv
  BY SnapshotInitInv
<1>2. Range(<< >>) = {} /\ Ascends(<< >>) /\ DOMAIN << >> = {}
  BY DEF Range, Ascends
<1>3. CallsAlone /\ LastIssued
  BY DEF SnapshotInit, Init, CallsAlone, LastIssued
<1>4. /\ jobOf = << >> /\ itemQueue = << >> /\ sItems = << >>
      /\ itemsFile = << >>
  BY DEF SnapshotInit, Init
<1> QED
  BY <1>1, <1>2, <1>3, <1>4 DEF SaveOrderInv, SaveOrder, NewestJob

LEMMA SaveOrderKept ==
  ASSUME CallsInTurn
  PROVE  SaveOrderInv /\ [SnapshotNext]_snapshotVars => SaveOrderInv'
<1> SUFFICES ASSUME SaveOrderInv, [SnapshotNext]_snapshotVars PROVE SaveOrderInv'
  OBVIOUS
<1>1. SnapshotInv'
  BY SnapshotStep DEF SaveOrderInv
<1>2. CASE UNCHANGED snapshotVars
  BY <1>1, <1>2
     DEF snapshotVars, vars, SaveOrderInv, CallsAlone, LastIssued, NewestJob,
         SaveOrder, Queued
<1>3. CASE QueueStep
  <2>1. CallsAlone' /\ LastIssued'
    BY <1>3, CallsAloneStep, LastIssuedStep
       DEF SaveOrderInv, SnapshotInv, SnapshotTypeOK, QueueStep
  <2> QED
    BY <1>1, <1>3, <2>1, QueueStepOrder DEF SaveOrderInv
<1>4. CASE Save
  BY <1>1, <1>4, SaveOrderStep DEF SaveOrderInv
<1>5. CASE Restart
  BY <1>1, <1>5, RestartOrder DEF SaveOrderInv
<1> QED
  BY <1>2, <1>3, <1>4, <1>5 DEF SnapshotNext

(* Calls that come one at a time, from one caller or under the interpreter *)
(* lock, and never pending_items: items are saved, restored and queued     *)
(* again in the order of their pushes, in every life.                      *)
THEOREM SavesInOrder ==
  ASSUME CallsInTurn
  PROVE  SnapshotSpec => []SavedInOrder
<1>1. SaveOrderInv => SavedInOrder
  <2> SUFFICES ASSUME SaveOrderInv PROVE SavedInOrder
    OBVIOUS
  <2>1. SaveOrder /\ Queued \subseteq DOMAIN jobOf
    BY DEF SaveOrderInv, SnapshotInv, ItemsKnown, Present
  <2>2. Ascending(itemsFile) /\ Ascending(sItems)
    BY <2>1 DEF SaveOrder, Ascending, Ascends
  <2>3. ASSUME NEW k \in DOMAIN itemQueue, NEW m \in DOMAIN itemQueue, k < m
        PROVE  jobOf[itemQueue[k]] < jobOf[itemQueue[m]]
    <3>1. itemQueue[k] \in DOMAIN jobOf /\ itemQueue[m] \in DOMAIN jobOf
      BY <2>1 DEF Queued, Range
    <3> QED
      BY <2>1, <2>3, <3>1 DEF SaveOrder, Ascends
  <2>4. Ascending([k \in DOMAIN itemQueue |-> jobOf[itemQueue[k]]])
    BY <2>3 DEF Ascending
  <2> QED
    BY <2>2, <2>4 DEF SavedInOrder
<1>2. SnapshotSpec => []SaveOrderInv
  BY SaveOrderInitInv, SaveOrderKept, PTL DEF SnapshotSpec
<1> QED
  BY <1>1, <1>2, PTL
=============================================================================
