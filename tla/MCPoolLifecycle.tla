-------------------------- MODULE MCPoolLifecycle --------------------------
(* Values for the constants of PoolLifecycle. *)
EXTENDS PoolLifecycle

Pool(recovery, guest) == [recovery |-> recovery, guest |-> guest]
RestartedJs == {Pool("RestartWorkers", "js")}
OtherPools == {Pool("PoisonPool", "js"), Pool("PoisonPool", "wasm"),
               Pool("RestartWorkers", "wasm")}

(* Pool::run_async / Pool::run, ThreadPool::par_for / Pool::run_kernel. *)
AnyCall == [api : {"range", "kernel"}, sync : BOOLEAN]
Awaited == [api : {"range", "kernel"}, sync : {FALSE}]
=============================================================================
