----------------------------- MODULE Partition -----------------------------
(***************************************************************************)
(* How the Host divides a range of items among its Workers                 *)
(* (host_client.mbt, partition_weighted).                                  *)
(*                                                                         *)
(* partition_weighted gives each Worker a throughput weight and cuts the   *)
(* range where the running sum of the weights says.  The weights are       *)
(* floating-point averages of measured times; what a slot is given depends *)
(* on their running sums only, so a weighting is represented by those:     *)
(* b[w] is the sum of the weights of the Workers before w, and b[N] the    *)
(* sum of all of them.  The weights are positive (non-positive ones are    *)
(* replaced by 1.0), hence b is strictly increasing.  The worker_end of w  *)
(* and the worker_start of w + 1 are computed from the same running sum by *)
(* the same expression, so rounding cuts both at the same item, as \div    *)
(* does here.                                                              *)
(***************************************************************************)
EXTENDS Integers

CONSTANT N        \* number of Workers

ASSUME NAssumption == N \in Nat \ {0}

Worker == 0 .. N - 1

(* The running sums of some list of N positive weights. *)
IsWeighting(b) == /\ b \in [0 .. N -> Nat]
                  /\ b[0] = 0
                  /\ \A w \in Worker : b[w] < b[w + 1]

(* Mutant of WorkerStart: the cut is not moved to the start of the range. *)
WorkerStartAtZero(b, start, end, w) == ((end - start) * b[w]) \div b[N]

(* The range the slot of w is given when the Host dispatches start .. end. *)
WorkerStart(b, start, end, w) == start + ((end - start) * b[w]) \div b[N]

(* Mutants of WorkerEnd: the length of the share is rounded instead of its *)
(* end; the end is taken for the last item.                                *)
WorkerEndOfShare(b, start, end, w) ==
    WorkerStart(b, start, end, w) + ((end - start) * (b[w + 1] - b[w])) \div b[N]
WorkerEndInclusive(b, start, end, w) ==
    IF w + 1 = N THEN end ELSE WorkerStart(b, start, end, w + 1) + 1

WorkerEnd(b, start, end, w) ==
    IF w + 1 = N THEN end ELSE WorkerStart(b, start, end, w + 1)

(* The items start, ..., end - 1 of a half-open range. *)
Items(start, end) == start .. end - 1
=============================================================================
