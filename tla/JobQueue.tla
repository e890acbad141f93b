------------------------------ MODULE JobQueue ------------------------------
(***************************************************************************)
(* What every queue of rst_queue promises about one item, whatever threads *)
(* and data structures implement it: an item is submitted once, is begun   *)
(* at most once, is finished only after it was begun, and an item that was *)
(* cancelled while it was still waiting is never begun.  Nothing is said   *)
(* about order, results or time.                                           *)
(*                                                                         *)
(* Items are natural numbers, and the state is the partition of the items  *)
(* submitted so far.  An item that is in none of the four sets does not    *)
(* exist yet.                                                              *)
(***************************************************************************)
EXTENDS Naturals

VARIABLES
  waiting,    \* submitted, no decision about it was taken yet
  running,    \* a worker has committed to run it and has not let go of it
  done,       \* ran to its end
  discarded,  \* dropped without being run
  cancelled   \* cancelled while it was waiting

jobVars == <<waiting, running, done, discarded, cancelled>>

Known == waiting \cup running \cup done \cup discarded

Init ==
  /\ waiting = {}
  /\ running = {}
  /\ done = {}
  /\ discarded = {}
  /\ cancelled = {}

(* A new item; written over the difference so that no set of items has to  *)
(* be fixed in advance.                                                    *)
Submit ==
  \E i \in waiting' \ waiting :
    /\ i \notin Known
    /\ waiting' = waiting \cup {i}
    /\ UNCHANGED <<running, done, discarded, cancelled>>

Cancel(i) ==
  /\ i \in waiting
  /\ cancelled' = cancelled \cup {i}
  /\ UNCHANGED <<waiting, running, done, discarded>>

Begin(i) ==
  /\ i \in waiting \ cancelled
  /\ waiting' = waiting \ {i}
  /\ running' = running \cup {i}
  /\ UNCHANGED <<done, discarded, cancelled>>

Finish(i) ==
  /\ i \in running
  /\ running' = running \ {i}
  /\ done' = done \cup {i}
  /\ UNCHANGED <<waiting, discarded, cancelled>>

Discard(i) ==
  /\ i \in waiting
  /\ waiting' = waiting \ {i}
  /\ discarded' = discarded \cup {i}
  /\ UNCHANGED <<running, done, cancelled>>

Next ==
  \/ Submit
  \/ \E i \in waiting : Cancel(i) \/ Begin(i) \/ Discard(i)
  \/ \E i \in running : Finish(i)

Spec == Init /\ [][Next]_jobVars
=============================================================================
