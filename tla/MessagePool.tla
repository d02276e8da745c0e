---------------------------- MODULE MessagePool ----------------------------
(***************************************************************************)
(* MoonbitMessagePool (bench/message_pool.ts), the pool the library is     *)
(* compared with: a batch is one "transform" message per Worker and one    *)
(* awaited answer from each.                                               *)
(*                                                                         *)
(* waitForMessage is a listener: it waits for one message of one Worker    *)
(* that its predicate accepts, for an error of that Worker or for its own  *)
(* deadline, and then removes itself.  Promise.all goes on without the     *)
(* other listeners when one rejects; they stay until their own end.        *)
(***************************************************************************)
EXTENDS BenchWorker

CONSTANTS Counts,      \* element counts the batches are asked for
          MaxBatches,  \* bound on the batches of a run
          MaxTimeouts  \* bound on the deadlines that pass

ASSUME PoolAssumption == /\ Counts \subseteq 0 .. Elements
                         /\ MaxBatches \in Nat /\ MaxTimeouts \in Nat

VARIABLES ppc,        \* what the Host is doing
          listeners,  \* the pending waitForMessage calls
          busy, batchId,
          asked,      \* the elementCount of the last batch
          outcome,    \* how it ended
          closed,
          timeouts,   \* deadlines that have passed under a live Worker
          hits        \* ghost: the transforms of each item, by batch

poolVars == <<ppc, listeners, busy, batchId, asked, outcome, closed, timeouts, hits>>

Batch == 1 .. MaxBatches
Listener == [worker : Worker, type : {"online", "initialized", "transformed"},
             batch : 0 .. MaxBatches]

Listen(type, batch) == {[worker |-> w, type |-> type, batch |-> batch] : w \in Worker}

PoolInit == /\ ppc = "none" /\ listeners = {}
            /\ busy = FALSE /\ batchId = 0 /\ asked = 0 /\ outcome = "none"
            /\ closed = FALSE /\ timeouts = 0
            /\ hits = [b \in Batch |-> [i \in Item |-> 0]]

(* create starts every Worker and waits for all of them to be online.      *)
Create == /\ ppc = "none"
          /\ ppc' = "online"
          /\ wpc' = [w \in Worker |-> "boot"]
          /\ listeners' = Listen("online", 0)
          /\ UNCHANGED <<inbox, outbox, wordVars, data, localVars, busy, batchId,
                         asked, outcome, closed, timeouts, hits>>

(* The listeners of the Promise.all the Host awaits.                       *)
Awaited(l) == \/ ppc \in {"online", "initialized"} /\ l.type = ppc
              \/ ppc = "batch" /\ l.batch = batchId

(* Mutant of Matches: an answer to an earlier batch is taken.              *)
MatchesAnyBatch(l, w, m) == l.worker = w /\ l.type = m.type

(* The predicates given to waitForMessage.                                 *)
Matches(l, w, m) == /\ l.worker = w /\ l.type = m.type
                    /\ m.type = "transformed" => m.batch = l.batch

(* The last awaited listener has resolved, so Promise.all does: create     *)
(* goes on to "init", then to the pool; transform returns.                 *)
Resolve(rest) ==
    \/ /\ ppc = "online"
       /\ ppc' = "initialized"
       /\ listeners' = rest \cup Listen("initialized", 0)
       /\ inbox' = [w \in Worker |-> Append(inbox[w], [type |-> "init", id |-> w])]
       /\ UNCHANGED <<busy, outcome>>
    \/ /\ ppc = "initialized"
       /\ ppc' = "ready" /\ listeners' = rest
       /\ UNCHANGED <<inbox, busy, outcome>>
    \/ /\ ppc = "batch"
       /\ ppc' = "ready" /\ listeners' = rest
       /\ busy' = FALSE /\ outcome' = "ok"
       /\ UNCHANGED inbox

(* A message that one listener of the Worker accepts, or nobody.           *)
OnPoolMessage(w) ==
    /\ ppc # "none" /\ outbox[w] # <<>> /\ Head(outbox[w]).type # "error"
    /\ outbox' = [outbox EXCEPT ![w] = Tail(@)]
    /\ LET taken == {l \in listeners : Matches(l, w, Head(outbox[w]))}
           rest  == listeners \ taken
       IN  IF (\E l \in taken : Awaited(l)) /\ ~ (\E l \in rest : Awaited(l))
           THEN Resolve(rest)
           ELSE /\ listeners' = rest
                /\ UNCHANGED <<inbox, ppc, busy, outcome>>
    /\ UNCHANGED <<wpc, wordVars, data, localVars, batchId, asked, closed,
                   timeouts, hits>>

Stop(stopped) == /\ wpc' = [w \in Worker |-> IF w \in stopped THEN "stopped" ELSE wpc[w]]
                 /\ inbox' = [w \in Worker |-> IF w \in stopped THEN <<>> ELSE inbox[w]]
                 /\ outbox' = [w \in Worker |-> IF w \in stopped THEN <<>> ELSE outbox[w]]

(* Mutant of Reject: an error or a deadline does not settle the wait. *)
RejectIgnored(w, event, rejected) ==
    /\ outbox' = event
    /\ UNCHANGED <<wpc, inbox, wordVars, data, localVars, ppc, listeners, busy,
                   batchId, asked, outcome, closed, hits>>

(* Listeners of w reject, by an error of w or by a deadline, and with one  *)
(* that is awaited, Promise.all: createWorker terminates its own Worker, a *)
(* failed "init" phase all of them, a failed batch none.  event is what    *)
(* the channels hold after the event.                                      *)
Reject(w, event, rejected) ==
    /\ listeners' = listeners \ rejected
    /\ LET awaited == \E l \in rejected : Awaited(l)
           stopped == CASE awaited /\ ppc = "initialized" -> Worker
                        [] \E l \in rejected : l.type = "online" -> {w}
                        [] OTHER -> {}
       IN  /\ wpc' = [v \in Worker |-> IF v \in stopped THEN "stopped" ELSE wpc[v]]
           /\ inbox' = [v \in Worker |-> IF v \in stopped THEN <<>> ELSE inbox[v]]
           /\ outbox' = [v \in Worker |-> IF v \in stopped THEN <<>> ELSE event[v]]
           /\ CASE awaited /\ ppc = "batch" ->
                        ppc' = "ready" /\ busy' = FALSE /\ outcome' = "failed"
                [] awaited /\ ppc # "batch" ->
                        ppc' = "failed" /\ UNCHANGED <<busy, outcome>>
                [] OTHER -> UNCHANGED <<ppc, busy, outcome>>
    /\ UNCHANGED <<wordVars, data, localVars, batchId, asked, closed, hits>>

OnPoolError(w) == /\ ppc # "none" /\ outbox[w] # <<>> /\ Head(outbox[w]).type = "error"
                  /\ Reject(w, [outbox EXCEPT ![w] = Tail(@)],
                            {l \in listeners : l.worker = w})
                  /\ UNCHANGED timeouts

ListenerTimeout(l) == /\ l \in listeners
                      /\ \/ /\ timeouts < MaxTimeouts
                            /\ timeouts' = timeouts + 1
                         \/ wpc[l.worker] = "stopped" /\ UNCHANGED timeouts
                      /\ Reject(l.worker, outbox, {l})

-----------------------------------------------------------------------------
(* Mutant of Share: the end of a range is rounded up. *)
ShareUp(n, w) == [start |-> (n * w) \div N, end |-> (n * (w + 1) + N - 1) \div N]

Share(n, w) == [start |-> (n * w) \div N, end |-> (n * (w + 1)) \div N]

(* transform: a call during a batch is refused before it changes anything. *)
Transform(n) ==
    /\ ppc = "ready" /\ ~ busy /\ batchId < MaxBatches
    /\ ppc' = "batch" /\ busy' = TRUE
    /\ batchId' = batchId + 1
    /\ asked' = n
    /\ outcome' = "none"
    /\ listeners' = listeners \cup Listen("transformed", batchId')
    /\ inbox' = [w \in Worker |->
                    IF wpc[w] = "stopped" THEN inbox[w]
                    ELSE Append(inbox[w], [type |-> "transform", batch |-> batchId',
                                           start |-> Share(n, w).start,
                                           end |-> Share(n, w).end])]
    /\ UNCHANGED <<wpc, outbox, wordVars, data, localVars, closed, timeouts, hits>>

(* close; it neither looks at a batch in flight nor forbids a later one.   *)
Close == /\ ppc \in {"ready", "batch"} /\ ~ closed
         /\ closed' = TRUE
         /\ Stop(Worker)
         /\ UNCHANGED <<wordVars, data, localVars, ppc, listeners, busy, batchId,
                        asked, outcome, timeouts, hits>>

(* A step of a Worker of the pool, with the ghost: a store counts for the  *)
(* batch the Worker is serving.                                            *)
CountHits(w) == hits' = [hits EXCEPT ![task[w].batch][task[w].start] = @ + 1]

PoolWorkerStep(w) ==
    /\ WorkerStep(w)
    /\ IF wpc[w] = "store" THEN CountHits(w) ELSE UNCHANGED hits
    /\ UNCHANGED <<ppc, listeners, busy, batchId, asked, outcome, closed, timeouts>>

PoolHandlers == \E w \in Worker : OnPoolMessage(w) \/ OnPoolError(w)

(* The deadline of a listener whose Worker has been terminated.            *)
Overdue == \E l \in listeners : wpc[l.worker] = "stopped" /\ ListenerTimeout(l)

PoolNext == \/ Create \/ PoolHandlers \/ Close
            \/ \E n \in Counts : Transform(n)
            \/ \E l \in listeners : ListenerTimeout(l)

-----------------------------------------------------------------------------
(* A batch that succeeds has transformed exactly the items it was asked    *)
(* for, each once, whatever answers to earlier batches that timed out      *)
(* (message_pool.ts line 131) arrived meanwhile.                           *)
BatchExact ==
    outcome = "ok" =>
        hits[batchId] = [i \in Item |-> IF i < asked THEN 1 ELSE 0]

(* The sum of one count for each batch.                                    *)
Total(counts) == LET upTo[b \in 0 .. MaxBatches] ==
                         IF b = 0 THEN 0 ELSE upTo[b - 1] + counts[b]
                 IN  upTo[MaxBatches]

(* The transforms that were run on an item.                                *)
Transforms(i) == Total([b \in Batch |-> hits[b][i]])

(* While no deadline has passed, no update is lost to another Worker: an   *)
(* item has been through as many transforms as were run on it.  After a    *)
(* deadline it may: transform clears #busy under the Workers that are late *)
(* (message_pool.ts line 148).                                             *)
NoLostUpdate ==
    timeouts = 0 =>
        \A i \in Item : data[i] = Transforms(i)

(* A batch always ends: by its answers, by the deadline of a listener      *)
(* whose Worker was terminated by close, or earlier by any deadline.       *)
BatchEnds == ppc = "batch" ~> ppc = "ready"
=============================================================================
