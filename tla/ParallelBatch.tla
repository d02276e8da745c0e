--------------------------- MODULE ParallelBatch ---------------------------
(***************************************************************************)
(* What a caller of a pool relies on: a dispatch runs one kernel on the    *)
(* items of one range, each item at most once and in any order, and it     *)
(* succeeds only when every item has been done.  Once it has returned it   *)
(* leaves the items alone, unless its failure has poisoned the pool: then  *)
(* Workers that have been told to terminate may still process some.  How   *)
(* the items are shared out, and by whom, does not show.                   *)
(***************************************************************************)
EXTENDS Integers, Sequences

CONSTANTS Capacity, Calls

VARIABLES running,  \* whether a dispatch is in progress
          call,     \* its arguments
          outcome,  \* how the latest call ended
          poisoned, \* whether the pool has been given up
          applied   \* the kernels run on each item since it began

Item == 0 .. Capacity - 1
Batch == call.start .. call.end - 1
Todo == {i \in Batch : applied[i] = <<>>}

Init == /\ running = FALSE
        /\ outcome = "none"
        /\ ~poisoned
        /\ call.start = call.end
        /\ applied = [i \in Item |-> <<>>]

Begin == /\ ~running /\ ~poisoned
         /\ running'
         /\ call' \in Calls
         /\ outcome' = "none"
         /\ applied' = [i \in Item |-> <<>>]
         /\ UNCHANGED poisoned

(* Some of the items that are left are processed. *)
Apply == /\ running \/ poisoned
         /\ \E S \in SUBSET Todo :
               applied' = [i \in Item |-> IF i \in S THEN <<call.kernel>>
                                          ELSE applied[i]]
         /\ UNCHANGED <<running, call, outcome, poisoned>>

Return == /\ running
          /\ ~running'
          /\ outcome' \in {"cancelled", "failed"}
                \cup (IF Todo = {} THEN {"ok"} ELSE {})
          /\ poisoned' \in BOOLEAN /\ (outcome' = "ok" => ~poisoned')
          /\ UNCHANGED <<call, applied>>

Reject == /\ ~running
          /\ outcome' = IF poisoned THEN "failed" ELSE "invalid"
          /\ UNCHANGED <<running, call, applied, poisoned>>

Next == Begin \/ Apply \/ Return \/ Reject

Spec == Init /\ [][Next]_<<running, call, outcome, poisoned, applied>>
=============================================================================
