---------------------------- MODULE BenchWorker ----------------------------
(***************************************************************************)
(* The benchmark Worker (worker/main.mbt, mutex.mbt, transform.mbt): a     *)
(* script that says it is online, then serves one message after the other. *)
(* A "counter" message makes it increment a shared counter under a mutex   *)
(* built of Atomics; a "transform" message makes it update a range of      *)
(* shared items with plain loads and stores.                               *)
(*                                                                         *)
(* inbox[w] and outbox[w] are the two directions of the channel between    *)
(* the Host and Worker w, which postMessage delivers in order.  The Host   *)
(* may also find an "error" event there, when the script failed to load.   *)
(* The value of an item is represented by the number of transforms it has  *)
(* been through.                                                           *)
(***************************************************************************)
EXTENDS Integers, Sequences

CONSTANTS N,            \* number of Workers
          Iterations,   \* increments each Worker is asked for
          Elements      \* length of the buffer the transforms work on

ASSUME BenchAssumption == /\ N \in Nat \ {0}
                          /\ Iterations \in Nat \ {0}
                          /\ Elements \in Nat

Worker == 0 .. N - 1
Item   == 0 .. Elements - 1

VARIABLES wpc,       \* where each Worker is
          inbox,     \* messages the Host has posted to it
          outbox,    \* messages and events the Host has yet to handle
          lock, counter, start,  \* the words of the contended counter
          data,      \* the items of the message pool
          todo,      \* increments left to do
          seen,      \* the value a Worker has loaded and not stored yet
          task       \* the rest of the transform a Worker is serving

workerVars == <<wpc, inbox, outbox, lock, counter, start, data, todo, seen, task>>
wordVars   == <<lock, counter, start>>
localVars  == <<todo, seen, task>>

NoTask == [start |-> 0, end |-> 0, batch |-> 0]

InCounter == {"gate", "gateWait", "gateParked", "lock", "lockWait", "lockParked",
              "read", "write", "unlock", "notify", "report"}
InTransform == {"load", "store"}
Holding     == {"read", "write", "unlock"}

WorkerInit == /\ wpc = [w \in Worker |-> "none"]
              /\ inbox = [w \in Worker |-> <<>>]
              /\ outbox = [w \in Worker |-> <<>>]
              /\ lock = 0 /\ counter = 0 /\ start = 0
              /\ data = [i \in Item |-> 0]
              /\ todo = [w \in Worker |-> 0]
              /\ seen = [w \in Worker |-> 0]
              /\ task = [w \in Worker |-> NoTask]

Goto(w, label)  == wpc' = [wpc EXCEPT ![w] = label]
PostToHost(w, m) == outbox' = [outbox EXCEPT ![w] = Append(@, m)]

(* The script runs, installs its handler and says so; or fails to load.    *)
LoadScript(w) == /\ wpc[w] = "boot"
                 /\ \/ Goto(w, "idle") /\ PostToHost(w, [type |-> "online"])
                    \/ Goto(w, "dead") /\ PostToHost(w, [type |-> "error"])
                 /\ UNCHANGED <<inbox, wordVars, data, localVars>>

(* onmessage. *)
Receive(w) ==
    /\ wpc[w] = "idle" /\ inbox[w] # <<>>
    /\ inbox' = [inbox EXCEPT ![w] = Tail(@)]
    /\ LET m == Head(inbox[w]) IN
       \/ /\ m.type = "init"
          /\ PostToHost(w, [type |-> "initialized", id |-> m.id])
          /\ UNCHANGED <<wpc, todo, task>>
       \/ /\ m.type = "counter"
          /\ PostToHost(w, [type |-> "ready"])
          /\ Goto(w, "gate")
          /\ todo' = [todo EXCEPT ![w] = Iterations]
          /\ UNCHANGED task
       \/ /\ m.type = "transform"
          /\ Goto(w, "load")
          /\ task' = [task EXCEPT ![w] = [start |-> m.start, end |-> m.end,
                                          batch |-> m.batch]]
          /\ UNCHANGED <<outbox, todo>>
    /\ UNCHANGED <<wordVars, data, seen>>

-----------------------------------------------------------------------------
(* The contended counter. *)

(* wait_for_start: load the start word, park while it is 0. *)
Gate(w) == /\ \/ wpc[w] = "gate" /\ Goto(w, IF start = 0 THEN "gateWait" ELSE "lock")
              \/ wpc[w] = "gateWait" /\ Goto(w, IF start = 0 THEN "gateParked" ELSE "gate")
           /\ UNCHANGED <<inbox, outbox, wordVars, data, localVars>>

(* Mutant of TryLock: what the exchange returned is not looked at. *)
TryLockBlind(w) == /\ wpc[w] = "lock"
                   /\ Goto(w, "read")
                   /\ lock' = 1
                   /\ UNCHANGED <<inbox, outbox, counter, start, data, localVars>>

(* lock: try to exchange 0 for 1, park while the word is 1. *)
TryLock(w) == /\ wpc[w] = "lock"
              /\ Goto(w, IF lock = 0 THEN "read" ELSE "lockWait")
              /\ lock' = 1
              /\ UNCHANGED <<inbox, outbox, counter, start, data, localVars>>

LockWait(w) == /\ wpc[w] = "lockWait"
               /\ Goto(w, IF lock = 1 THEN "lockParked" ELSE "lock")
               /\ UNCHANGED <<inbox, outbox, wordVars, data, localVars>>

ReadCounter(w) == /\ wpc[w] = "read"
                  /\ seen' = [seen EXCEPT ![w] = counter]
                  /\ Goto(w, "write")
                  /\ UNCHANGED <<inbox, outbox, wordVars, data, todo, task>>

WriteCounter(w) == /\ wpc[w] = "write"
                   /\ counter' = seen[w] + 1
                   /\ Goto(w, "unlock")
                   /\ UNCHANGED <<inbox, outbox, lock, start, data, localVars>>

Unlock(w) == /\ wpc[w] = "unlock"
             /\ lock' = 0
             /\ Goto(w, "notify")
             /\ UNCHANGED <<inbox, outbox, counter, start, data, localVars>>

Parked == {w \in Worker : wpc[w] = "lockParked"}

(* Mutant of NotifyOne: nobody is woken. *)
NotifyNone(w) ==
    /\ wpc[w] = "notify"
    /\ todo' = [todo EXCEPT ![w] = @ - 1]
    /\ Goto(w, IF todo[w] = 1 THEN "report" ELSE "lock")
    /\ UNCHANGED <<inbox, outbox, wordVars, data, seen, task>>

(* Atomics.notify(..., 1) at the end of unlock; the loop of run_counter.   *)
NotifyOne(w) ==
    /\ wpc[w] = "notify"
    /\ todo' = [todo EXCEPT ![w] = @ - 1]
    /\ LET next == IF todo[w] = 1 THEN "report" ELSE "lock"
       IN  \/ Parked = {} /\ Goto(w, next)
           \/ \E v \in Parked : wpc' = [wpc EXCEPT ![w] = next, ![v] = "lock"]
    /\ UNCHANGED <<inbox, outbox, wordVars, data, seen, task>>

Report(w) == /\ wpc[w] = "report"
             /\ PostToHost(w, [type |-> "result", observed |-> counter])
             /\ Goto(w, "idle")
             /\ UNCHANGED <<inbox, wordVars, data, localVars>>

-----------------------------------------------------------------------------
(* run_transform: one plain load and one plain store per item. *)

LoadItem(w) == /\ wpc[w] = "load" /\ task[w].start < task[w].end
               /\ seen' = [seen EXCEPT ![w] = data[task[w].start]]
               /\ Goto(w, "store")
               /\ UNCHANGED <<inbox, outbox, wordVars, data, todo, task>>

StoreItem(w) == /\ wpc[w] = "store"
                /\ data' = [data EXCEPT ![task[w].start] = seen[w] + 1]
                /\ task' = [task EXCEPT ![w].start = @ + 1]
                /\ Goto(w, "load")
                /\ UNCHANGED <<inbox, outbox, wordVars, todo, seen>>

Transformed(w) == /\ wpc[w] = "load" /\ task[w].start >= task[w].end
                  /\ PostToHost(w, [type |-> "transformed", id |-> w,
                                    batch |-> task[w].batch])
                  /\ Goto(w, "idle")
                  /\ UNCHANGED <<inbox, wordVars, data, localVars>>

-----------------------------------------------------------------------------
(* What the Hosts do to Workers. *)

Wake(v) == [w \in Worker |-> IF v[w] = "gateParked" THEN "gate" ELSE v[w]]

CounterStep(w) == \/ Gate(w) \/ TryLock(w) \/ LockWait(w) \/ ReadCounter(w)
                  \/ WriteCounter(w) \/ Unlock(w) \/ NotifyOne(w) \/ Report(w)

TransformStep(w) == LoadItem(w) \/ StoreItem(w) \/ Transformed(w)

WorkerStep(w) == LoadScript(w) \/ Receive(w) \/ CounterStep(w) \/ TransformStep(w)
=============================================================================
