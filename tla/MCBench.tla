------------------------------ MODULE MCBench ------------------------------
(***************************************************************************)
(* The two programs of the benchmark that run the benchmark Worker, the    *)
(* contended counter and the message pool, for TLC: a run executes one.    *)
(***************************************************************************)
EXTENDS ContendedCounter, MessagePool

VARIABLE program

vars == <<program, workerVars, counterVars, poolVars>>

Init == /\ program \in {"counter", "pool"}
        /\ WorkerInit /\ CounterInit /\ PoolInit

Counting == program = "counter" /\ UNCHANGED <<program, poolVars>>
Pooling  == program = "pool" /\ UNCHANGED <<program, counterVars>>

CounterHost   == Counting /\ CounterHostStep
CounterLimit  == Counting /\ CounterTimeout
CounterWorker(w) == Counting /\ WorkerStep(w) /\ UNCHANGED counterVars

PoolHost      == Pooling /\ PoolNext
PoolWorker(w) == Pooling /\ PoolWorkerStep(w)

Next == \/ CounterHost \/ CounterLimit \/ PoolHost
        \/ \E w \in Worker : CounterWorker(w) \/ PoolWorker(w)

(* The event loop of the Host runs its handlers, timers expire, and every  *)
(* Worker is a thread of its own.                                          *)
Fairness == /\ WF_vars(CounterHost)
            /\ WF_vars(Pooling /\ PoolHandlers)
            /\ WF_vars(Pooling /\ Overdue)
            /\ \A w \in Worker : WF_vars(CounterWorker(w)) /\ WF_vars(PoolWorker(w))

Spec     == Init /\ [][Next]_vars
FairSpec == Spec /\ Fairness
=============================================================================
