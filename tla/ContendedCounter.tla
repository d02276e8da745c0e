-------------------------- MODULE ContendedCounter --------------------------
(***************************************************************************)
(* runContendedCounter (bench/harness.ts): the Host starts N Workers,      *)
(* sends each through online, initialized and ready, opens the gate when   *)
(* all are ready, and waits for N results, an error or the deadline.  All  *)
(* handlers belong to one Promise, which settles once; the Workers are     *)
(* terminated after it has.                                                *)
(***************************************************************************)
EXTENDS BenchWorker

VARIABLES cpc,          \* where the Host is: idle, running, returned
          readyCount, resultCount,
          settled       \* what the Promise has settled to

counterVars == <<cpc, readyCount, resultCount, settled>>

CounterInit == /\ cpc = "idle"
               /\ readyCount = 0 /\ resultCount = 0
               /\ settled = "no"

(* The executor creates the Workers and their handlers in one go.          *)
CreateWorkers == /\ cpc = "idle"
                 /\ cpc' = "running"
                 /\ wpc' = [w \in Worker |-> "boot"]
                 /\ UNCHANGED <<inbox, outbox, wordVars, data, localVars,
                                readyCount, resultCount, settled>>

Settle(outcome) == settled' = IF settled = "no" THEN outcome ELSE settled

(* The last one ready opens the gate: the store and the notification are   *)
(* one step, since a Worker that parks compares the word first.            *)
OnReady(w) ==
    /\ Head(outbox[w]).type = "ready"
    /\ readyCount' = readyCount + 1
    /\ IF readyCount' = N THEN start' = 1 /\ wpc' = Wake(wpc)
                          ELSE UNCHANGED <<start, wpc>>
    /\ UNCHANGED <<inbox, resultCount, settled>>

(* Mutant of OnResult: one result too few is enough. *)
OnResultEarly(w) ==
    /\ Head(outbox[w]).type = "result"
    /\ resultCount' = resultCount + 1
    /\ IF resultCount' + 1 >= N THEN Settle("ok") ELSE UNCHANGED settled
    /\ UNCHANGED <<wpc, inbox, start, readyCount>>

OnResult(w) ==
    /\ Head(outbox[w]).type = "result"
    /\ resultCount' = resultCount + 1
    /\ IF resultCount' = N THEN Settle("ok") ELSE UNCHANGED settled
    /\ UNCHANGED <<wpc, inbox, start, readyCount>>

Answer(w, from, m) == /\ Head(outbox[w]).type = from
                      /\ inbox' = [inbox EXCEPT ![w] = Append(@, m)]
                      /\ UNCHANGED <<wpc, start, readyCount, resultCount, settled>>

OnError(w) == /\ Head(outbox[w]).type = "error"
              /\ Settle("failed")
              /\ UNCHANGED <<wpc, inbox, start, readyCount, resultCount>>

(* worker.onmessage and worker.onerror; they stay installed after the      *)
(* Promise has settled.                                                    *)
OnCounterEvent(w) ==
    /\ cpc = "running" /\ outbox[w] # <<>>
    /\ outbox' = [outbox EXCEPT ![w] = Tail(@)]
    /\ \/ Answer(w, "online", [type |-> "init", id |-> w])
       \/ Answer(w, "initialized", [type |-> "counter"])
       \/ OnReady(w)
       \/ OnResult(w)
       \/ OnError(w)
    /\ UNCHANGED <<cpc, lock, counter, data, localVars>>

CounterTimeout == /\ cpc = "running" /\ settled = "no"
                  /\ settled' = "failed"
                  /\ UNCHANGED <<workerVars, cpc, readyCount, resultCount>>

(* The await returns or throws; finally terminates every Worker.           *)
CounterReturn == /\ cpc = "running" /\ settled # "no"
                 /\ cpc' = "returned"
                 /\ wpc' = [w \in Worker |-> "stopped"]
                 /\ inbox' = [w \in Worker |-> <<>>]
                 /\ outbox' = [w \in Worker |-> <<>>]
                 /\ UNCHANGED <<wordVars, data, localVars, readyCount,
                                resultCount, settled>>

CounterHostStep == \/ CreateWorkers \/ CounterReturn
                   \/ \E w \in Worker : OnCounterEvent(w)

CounterNext == CounterHostStep \/ CounterTimeout

-----------------------------------------------------------------------------
(* The critical section of mutex.mbt: no two Workers are between a         *)
(* successful compare-exchange and the store that gives the lock back, and *)
(* the lock word says whether one is.                                      *)
MutualExclusion ==
    /\ \A v, w \in Worker : wpc[v] \in Holding /\ wpc[w] \in Holding => v = w
    /\ (\E w \in Worker : wpc[w] \in Holding) => lock = 1

(* A run that settles well has counted every increment of every Worker,    *)
(* which benchmark.ts (line 92) insists on, and no Worker is still at it.  *)
CounterExact ==
    settled = "ok" => /\ counter = N * Iterations
                      /\ lock = 0
                      /\ \A w \in Worker : wpc[w] \notin InCounter

(* No Worker sleeps through the opening of the gate or the release of the  *)
(* lock: a run ends without its deadline having to pass.                   *)
CounterEnds == cpc = "running" ~> cpc = "returned"
=============================================================================
