---------------------------- MODULE MCDispatch ----------------------------
(* Values for the constants of Dispatch that a configuration cannot write. *)
EXTENDS Dispatch, TLC

Call(api, kernel, start, end, grain) ==
    [api |-> api, kernel |-> kernel, start |-> start, end |-> end,
     grain |-> grain]

(* Statically partitioned: a range, an empty one, a reduction, a range that *)
(* is not one, and a kernel the guest does not serve.                       *)
StaticCalls ==
    {Call("kernel", 1, 0, Capacity, 0), Call("range", 2, 1, Capacity, 0),
     Call("kernel", 2, 1, 1, 0), Call("reduce", 1, 0, Capacity - 1, 0),
     Call("kernel", 1, 2, 1, 0), Call("kernel", 3, 0, 1, 0)}

(* Dynamically scheduled in chunks of one and of two. *)
DynamicCalls ==
    {Call("kernel", 1, 0, Capacity, 1), Call("kernel", 2, 1, Capacity, 2)}

(* Static calls that may time out: different kernels, the same range and a  *)
(* part of it.                                                              *)
TimeoutCalls == {Call("kernel", 1, 0, Capacity, 0),
                 Call("reduce", 2, 0, Capacity, 0),
                 Call("reduce", 1, 1, Capacity, 0)}

(* One of each mode, for liveness. *)
MixedCalls == {Call("kernel", 1, 0, 2, 1), Call("kernel", 2, 0, 2, 0)}

(* Two kernels over the same range. *)
ChunkCalls == {Call("kernel", k, 0, Capacity, 1) : k \in {1, 2}}

(* Equal weights, and a first Worker that is three times as fast. *)
Equal == [w \in 0 .. N |-> w]
Skewed == [w \in 0 .. N |-> IF w = 0 THEN 0 ELSE w + 2]
Weightings == {Equal, Skewed}
EqualOnly == {Equal}
=============================================================================
