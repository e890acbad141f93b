---------------------------- MODULE SnapshotQueue ----------------------------
(***************************************************************************)
(* An AsyncQueue made by new_with_persistence, its save_to_disk and what a *)
(* process that opens the same directory later finds there.  One thread    *)
(* saves beside the callers and workers of AsyncQueue, whose steps are all *)
(* taken over.  A life is the time from one constructor call to the next.  *)
(*                                                                         *)
(* Neither ids nor GUIDs outlive a life, so an item is followed across     *)
(* lives by its job: the number of the push that brought it in.  A file is *)
(* the sequence of its records.  A record whose write fails half way is no *)
(* record: restore_from_disk stops at it, and nothing is written after it. *)
(* The process may end at any step; what it wrote stays.                   *)
(***************************************************************************)
EXTENDS AsyncQueue

CONSTANTS
  MaxLives,    \* bound: processes that open the directory in turn
  MaxJobs      \* bound: pushes in all lives

ASSUME LivesAssumption == MaxLives \in Nat \ {0} /\ MaxJobs \in Nat

VARIABLES
  itemsFile,       \* items.bin: the jobs whose data it holds
  resultsFile,     \* results.bin
  spc, sItems, sResults,   \* save_to_disk: place, items and results
  life,
  (* History: which job is which, and where it went.                       *)
  inSync,          \* this life restored items.bin and has not saved since
  jobs,            \* pushes so far, in all lives
  jobOf,           \* the job of each id issued in this life
  resultJobs,      \* the jobs of the results in resultQueue
  settled,         \* jobs begun or discarded in earlier lives
  lost             \* jobs gone with an ended process, in a failed write, or
                   \* by truncating a file that is not in sync

files == <<itemsFile, resultsFile>>
saver == <<spc, sItems, sResults>>
traces == <<inSync, jobs, jobOf, resultJobs, settled, lost>>
snapshotVars == <<vars, files, saver, life, traces>>

SaverPlaces == {"idle", "drain", "write", "drainResults", "writeResults"}

JobsOf(ids) == {jobOf[i] : i \in ids}

(* Jobs this life still owes: no worker has begun them. *)
Owed == Queued \cup (UNION {InHand(c) : c \in Callers})
               \cup (UNION {InWork(w) : w \in {v \in Workers : Unstarted(v)}})
InMemory == JobsOf(Owed) \cup Range(sItems)
Settled == settled \cup JobsOf(Range(ran) \cup dropped)

SnapshotInit ==
  /\ Init
  /\ itemsFile = << >> /\ resultsFile = << >>
  /\ spc = "idle" /\ sItems = << >> /\ sResults = << >>
  /\ life = 1 /\ jobs = 0 /\ inSync = FALSE
  /\ jobOf = << >> /\ resultJobs = << >> /\ settled = {} /\ lost = {}

-----------------------------------------------------------------------------
(* A step of AsyncQueue.  start borrows the queue exclusively, so it waits *)
(* for a save to return.  The history follows the item.                    *)

FollowJobs ==
  /\ IF counter' = counter
     THEN UNCHANGED <<jobs, jobOf>>
     ELSE /\ jobs < MaxJobs /\ jobs' = jobs + 1
          /\ jobOf' = [i \in DOMAIN jobOf \cup {counter'} |->
                         IF i = counter' THEN jobs' ELSE jobOf[i]]
  /\ resultJobs' =
       CASE Len(resultQueue') > Len(resultQueue) ->
              Append(resultJobs, jobOf[resultQueue'[Len(resultQueue')].id])
         [] Len(resultQueue') < Len(resultQueue) -> Tail(resultJobs)
         [] OTHER -> resultJobs

QueueStep ==
  /\ Next
  /\ spc # "idle" => workersStarted' = workersStarted
  /\ FollowJobs
  /\ UNCHANGED <<files, saver, life, inSync, settled, lost>>

-----------------------------------------------------------------------------
(* save_to_disk: create items.bin, drain the queue, write the records one  *)
(* by one, then the same for the results.  It returns at the first error   *)
(* and what it holds by then is gone.                                      *)

SaverGoto(place) == spc' = place

(* Variant: items.bin is opened to append.                                 *)
SaveBeginAppend ==
  /\ spc = "idle"
  /\ SaverGoto("drain")
  /\ UNCHANGED <<vars, files, sItems, sResults, life, traces>>

(* Variant: items.bin is left alone when there is nothing to save.         *)
SaveBeginUnlessEmpty ==
  /\ spc = "idle"
  /\ itemsFile' = IF itemQueue = << >> THEN itemsFile ELSE << >>
  /\ inSync' = (inSync /\ itemQueue = << >>)
  /\ lost' = IF inSync \/ itemQueue = << >> THEN lost
             ELSE lost \cup Range(itemsFile)
  /\ SaverGoto("drain")
  /\ UNCHANGED <<vars, resultsFile, sItems, sResults, life, jobs, jobOf,
                 resultJobs, settled>>

SaveBegin ==
  /\ spc = "idle"
  /\ itemsFile' = << >>
  /\ inSync' = FALSE
  /\ lost' = IF inSync THEN lost ELSE lost \cup Range(itemsFile)
  /\ SaverGoto("drain")
  /\ UNCHANGED <<vars, resultsFile, sItems, sResults, life, jobs, jobOf,
                 resultJobs, settled>>

SaveDrain ==
  /\ spc = "drain"
  /\ \/ /\ itemQueue # << >>
        /\ itemQueue' = Tail(itemQueue)
        /\ sItems' = Append(sItems, jobOf[Head(itemQueue)])
        /\ UNCHANGED spc
     \/ /\ itemQueue = << >>
        /\ SaverGoto("write")
        /\ UNCHANGED <<itemQueue, sItems>>
  /\ UNCHANGED <<resultQueue, counters, settings, guids, workers, callers,
                 history, files, sResults, life, traces>>

(* Variant: the records are popped off the end of the list.                *)
SaveItemBackwards ==
  /\ spc = "write" /\ sItems # << >>
  /\ itemsFile' = Append(itemsFile, sItems[Len(sItems)])
  /\ sItems' = SubSeq(sItems, 1, Len(sItems) - 1)
  /\ UNCHANGED <<vars, resultsFile, spc, sResults, life, traces>>

SaveItem ==
  /\ spc = "write" /\ sItems # << >>
  /\ itemsFile' = Append(itemsFile, Head(sItems))
  /\ sItems' = Tail(sItems)
  /\ UNCHANGED <<vars, resultsFile, spc, sResults, life, traces>>

(* Creating results.bin empties it. *)
SaveResultsBegin ==
  /\ spc = "write" /\ sItems = << >>
  /\ resultsFile' = << >>
  /\ SaverGoto("drainResults")
  /\ UNCHANGED <<vars, itemsFile, sItems, sResults, life, traces>>

SaveDrainResults ==
  /\ spc = "drainResults"
  /\ \/ /\ resultQueue # << >>
        /\ resultQueue' = Tail(resultQueue)
        /\ resultJobs' = Tail(resultJobs)
        /\ sResults' = Append(sResults, [result |-> Head(resultQueue),
                                         job |-> Head(resultJobs)])
        /\ UNCHANGED spc
     \/ /\ resultQueue = << >>
        /\ SaverGoto("writeResults")
        /\ UNCHANGED <<resultQueue, resultJobs, sResults>>
  /\ UNCHANGED <<itemQueue, counters, settings, guids, workers, callers,
                 history, files, sItems, life, inSync, jobs, jobOf, settled,
                 lost>>

SaveResult ==
  /\ spc = "writeResults"
  /\ \/ /\ sResults # << >>
        /\ resultsFile' = Append(resultsFile, Head(sResults))
        /\ sResults' = Tail(sResults)
        /\ UNCHANGED spc
     \/ /\ sResults = << >>
        /\ SaverGoto("idle")
        /\ UNCHANGED <<resultsFile, sResults>>
  /\ UNCHANGED <<vars, itemsFile, sItems, life, traces>>

(* A write, or the creation of results.bin, fails.  (When the creation of  *)
(* items.bin fails nothing has happened yet.)                              *)
SaveFails ==
  /\ \/ spc = "write"
     \/ spc = "writeResults" /\ sResults # << >>
  /\ SaverGoto("idle")
  /\ sItems' = << >> /\ sResults' = << >>
  /\ lost' = lost \cup Range(sItems)
  /\ UNCHANGED <<vars, files, life, inSync, jobs, jobOf, resultJobs, settled>>

Save ==
  \/ SaveBegin \/ SaveDrain \/ SaveItem \/ SaveResultsBegin
  \/ SaveDrainResults \/ SaveResult \/ SaveFails

-----------------------------------------------------------------------------
(* restore_from_disk in the constructor: items get the ids 0, 1, ... and   *)
(* no entry in the GUID index, results keep the ids they had.  The files   *)
(* stay as they are.                                                       *)

(* Variant: a record that ends at the end of the file is taken for a torn  *)
(* one.                                                                    *)
RestoredShort == IF itemsFile = << >> THEN << >>
                 ELSE SubSeq(itemsFile, 1, Len(itemsFile) - 1)

(* Every complete record is read. *)
Restored == itemsFile

(* The process ends, wherever its threads are, and the next one constructs *)
(* the queue with or without auto_restore.                                 *)
Restart ==
  /\ life < MaxLives /\ life' = life + 1
  /\ \E autoRestore \in BOOLEAN :
       /\ inSync' = autoRestore
       /\ LET items == IF autoRestore THEN Restored ELSE << >>
              results == IF autoRestore THEN resultsFile ELSE << >>
          IN /\ itemQueue' = [k \in 1 .. Len(items) |-> k - 1]
             /\ counter' = Len(items)
             /\ jobOf' = [i \in 0 .. Len(items) - 1 |-> items[i + 1]]
             /\ resultQueue' = [k \in DOMAIN results |-> results[k].result]
             /\ resultJobs' = [k \in DOMAIN results |-> results[k].job]
  /\ settled' = Settled
  /\ lost' = lost \cup (InMemory \ Range(itemsFile))
  /\ activeWorkers' = 0 /\ processedCount' = 0 /\ errorCount' = 0
  /\ removedCount' = 0
  /\ mode' \in Modes
  /\ isClosed' = FALSE /\ workersStarted' = FALSE /\ returnsResults' = FALSE
  /\ startedMode' = "none"
  /\ guidIndex' = {} /\ removedGuids' = {}
  /\ wpc' = [w \in Workers |-> "none"]
  /\ wItem' = [w \in Workers |-> 0]
  /\ wErr' = [w \in Workers |-> FALSE]
  /\ cpc' = [c \in Callers |-> "idle"]
  /\ cId' = [c \in Callers |-> 0]
  /\ cLeft' = [c \in Callers |-> 0]
  /\ cBuf' = [c \in Callers |-> << >>]
  /\ accepted' = {} /\ ran' = << >> /\ dropped' = {} /\ cancelled' = {}
  /\ delivered' = {}
  /\ SaverGoto("idle") /\ sItems' = << >> /\ sResults' = << >>
  /\ UNCHANGED <<files, jobs>>

SnapshotNext == QueueStep \/ Save \/ Restart

SnapshotSpec == SnapshotInit /\ [][SnapshotNext]_snapshotVars

-----------------------------------------------------------------------------
(* Types of what is added to AsyncQueue, whose own types are kept.         *)
SnapshotTypeOK ==
  /\ TypeOK
  /\ itemsFile \in Seq(1 .. jobs) /\ sItems \in Seq(1 .. jobs)
  /\ \A f \in {resultsFile, sResults} :
       f \in Seq([result : [id : Nat, error : BOOLEAN], job : 1 .. jobs])
  /\ spc \in SaverPlaces /\ life \in 1 .. MaxLives /\ jobs \in Nat
  /\ inSync \in BOOLEAN
  /\ DOMAIN jobOf \subseteq 0 .. counter /\ jobOf \in [DOMAIN jobOf -> 1 .. jobs]
  /\ resultJobs \in Seq(1 .. jobs) /\ Len(resultJobs) = Len(resultQueue)
  /\ settled \subseteq 1 .. jobs /\ lost \subseteq 1 .. jobs

(* save_to_disk and restore_from_disk lose no job by themselves, whatever  *)
(* pushes, pops and removals go on meanwhile: a job not yet begun is in    *)
(* memory or in items.bin, unless the process ended with it in memory, a   *)
(* write of it failed, or a save began over a file that held it and that   *)
(* this life had not restored, or had written by an earlier save.          *)
Accounted ==
  1 .. jobs = InMemory \cup Range(itemsFile) \cup Settled \cup lost

(* No life has two copies of a job, so none is begun twice in a life: what *)
(* items.bin holds when it is restored is there once.                      *)
OneCopyPerLife ==
  IsInjective(jobOf) /\ \A i \in Owed : jobOf[i] \notin Range(sItems)

(* A job never comes back both as an item to run and as its result: the    *)
(* two files are written at different times, possibly by different saves   *)
(* and lives, and never hold the same job; nor is a job still owed in this *)
(* life while its result waits to be fetched.                              *)
NeverBoth ==
  LET results == Range(resultJobs) \cup {r.job : r \in Range(sResults)}
  IN /\ Range(itemsFile) \cap {r.job : r \in Range(resultsFile)} = {}
     /\ JobsOf(Owed) \cap results = {}

(* One caller's items are saved, restored and queued again in the order of *)
(* their pushes, over any number of lives.                                 *)
Ascending(s) == \A i, j \in DOMAIN s : i < j => s[i] < s[j]
SavedInOrder ==
  /\ Ascending(itemsFile) /\ Ascending(sItems)
  /\ Ascending([k \in DOMAIN itemQueue |-> jobOf[itemQueue[k]]])
=============================================================================
