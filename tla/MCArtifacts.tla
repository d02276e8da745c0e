---------------------------- MODULE MCArtifacts ----------------------------
(***************************************************************************)
(* Artifacts.tla for TLC: one schema and its neighbours, each of which     *)
(* differs from it in one thing the contract has to catch.                 *)
(***************************************************************************)
EXTENDS Artifacts, TLC

Field(name, type) == [name |-> name, type |-> type]
Frame(fields)     == [name |-> "Frame", fields |-> fields]

Sum(id)          == [name |-> "sum", id |-> id, kind |-> "reduce",
                     argument |-> "none", layout |-> "Frame"]
Scale(id, arg)   == [name |-> "scale", id |-> id, kind |-> "map",
                     argument |-> arg, layout |-> "none"]
Made(manifest, fields, kernels) ==
    [manifest |-> manifest, layouts |-> <<Frame(fields)>>, kernels |-> kernels]

Two    == <<Field("size", "i32"), Field("cells", "slice_i32")>>
TwoRev == <<Field("cells", "slice_i32"), Field("size", "i32")>>
Base   == Made("m", Two, <<Sum(1), Scale(2, "none")>>)

(* The layout in another order, the ids the other way round, an argument   *)
(* more; a keyword for a field, and two kernels with one id.               *)
SomeSchemas ==
    {Base,
     Made("m", TwoRev, <<Sum(1), Scale(2, "none")>>),
     Made("m", Two, <<Sum(2), Scale(1, "none")>>),
     Made("m", Two, <<Sum(1), Scale(2, "by")>>),
     Made("m", <<Field("fn", "i32")>>, <<Sum(1), Scale(2, "none")>>),
     Made("m", Two, <<Sum(1), Scale(1, "none")>>)}

SomeEntries == {<<"sum", "scale">>, <<"scale", "sum">>}

(* One contract is like another. *)
Symmetry == Permutations(Contracts)

Config(hasSchema, hasDescriptor, artifacts) ==
    [schema |-> hasSchema, descriptor |-> hasDescriptor, artifacts |-> artifacts]

(* A whole build, one without a schema, and one parseBuildConfig refuses.  *)
SomeConfigs == {Config(TRUE, TRUE, <<"guest", "host", "wasm">>),
                Config(FALSE, FALSE, <<"host">>),
                Config(TRUE, FALSE, <<"guest">>)}
=============================================================================
