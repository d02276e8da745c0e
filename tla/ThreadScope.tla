---------------------------- MODULE ThreadScope ----------------------------
(***************************************************************************)
(* ThreadPool::scope, ThreadScope::spawn and spawn_chunks and              *)
(* JoinHandle::join (thread_pool.mbt) over the permit of the pool: the     *)
(* coroutines that want to dispatch, and the order in which they get to.   *)
(*                                                                         *)
(* Call <<s, k>> is the k-th spawned in scope s, and <<s, 0>> the call the *)
(* body of the scope makes itself (par_for, par_chunks, par_reduce).  Each *)
(* spawned call is a task that first waits for the one before it.  The     *)
(* semaphore and the task group are the async library's: the permit goes   *)
(* to the longest waiting, and the group waits for every task of its       *)
(* body.  That a body which raises cancels its tasks is left out.          *)
(***************************************************************************)
EXTENDS Integers, Sequences, FiniteSets, Functions

CONSTANTS Scopes,    \* scopes opened over the pool
          MaxTasks   \* bound on the calls they spawn, all together

ASSUME ScopeAssumption == MaxTasks \in Nat \ {0}

VARIABLES body,     \* where the body of each scope is
          joins,    \* the call it is waiting for in join
          spawned,  \* how many calls each has spawned
          state,    \* where each call is
          waiters,  \* the calls waiting for the permit, first come first
          permit    \* whether it is free

scopeVars == <<body, joins, spawned, state, waiters, permit>>

Direct(s) == <<s, 0>>
Tasks == Scopes \X (1 .. MaxTasks)
Calls == Tasks \cup {Direct(s) : s \in Scopes}
Ended == {"returned", "raised"}

ScopeInit == /\ body = [s \in Scopes |-> "running"]
             /\ joins = [s \in Scopes |-> 0]
             /\ spawned = [s \in Scopes |-> 0]
             /\ state = [c \in Calls |-> "none"]
             /\ waiters = <<>>
             /\ permit = TRUE

(* Mutant of Previous: the tail is not moved on to the new task. *)
FirstTask(s, k) == IF k = 1 THEN {} ELSE {<<s, 1>>}

(* self.tail when a task is spawned. *)
Previous(s, k) == IF k = 1 THEN {} ELSE {<<s, k - 1>>}

Spawn(s) == /\ body[s] = "running" /\ FoldFunction(+, 0, spawned) < MaxTasks
            /\ spawned' = [spawned EXCEPT ![s] = @ + 1]
            /\ state' = [state EXCEPT ![<<s, spawned[s] + 1>>] = "chained"]
            /\ UNCHANGED <<body, joins, waiters, permit>>

(* permit.acquire. *)
Acquire(c) == IF permit
              THEN /\ permit' = FALSE
                   /\ state' = [state EXCEPT ![c] = "dispatching"]
                   /\ UNCHANGED waiters
              ELSE /\ waiters' = Append(waiters, c)
                   /\ state' = [state EXCEPT ![c] = "queued"]
                   /\ UNCHANGED permit

(* The task has waited for the one before it, however that ended.  Its     *)
(* call may be of another manifest, or its grain negative: it raises.      *)
TaskRuns(s, k) ==
    /\ state[<<s, k>>] = "chained"
    /\ \A c \in Previous(s, k) : state[c] \in Ended
    /\ \/ Acquire(<<s, k>>)
       \/ state' = [state EXCEPT ![<<s, k>>] = "raised"] /\ UNCHANGED <<waiters, permit>>
    /\ UNCHANGED <<body, joins, spawned>>

(* The body makes a call of its own and waits for it. *)
CallDirectly(s) == /\ body[s] = "running" /\ state[Direct(s)] = "none"
                   /\ body' = [body EXCEPT ![s] = "calling"]
                   /\ Acquire(Direct(s))
                   /\ UNCHANGED <<joins, spawned>>

Called(s) == /\ body[s] = "calling" /\ state[Direct(s)] \in Ended
             /\ body' = [body EXCEPT ![s] = "running"]
             /\ UNCHANGED <<joins, spawned, state, waiters, permit>>

(* Mutant of DispatchEnds: an error path that keeps the permit. *)
DispatchLeaks(c) ==
    /\ state[c] = "dispatching"
    /\ \/ /\ state' = [state EXCEPT ![c] = "raised"]
          /\ UNCHANGED <<waiters, permit>>
       \/ /\ waiters = <<>>
          /\ state' = [state EXCEPT ![c] = "returned"]
          /\ permit' = TRUE /\ UNCHANGED waiters
    /\ UNCHANGED <<body, joins, spawned>>

(* run_kernel_async or run_reducer_async returns or raises; the permit,    *)
(* released in either case, goes to the first of the waiters.              *)
DispatchEnds(c) ==
    /\ state[c] = "dispatching"
    /\ \E result \in Ended :
          IF waiters = <<>>
          THEN /\ state' = [state EXCEPT ![c] = result]
               /\ permit' = TRUE /\ UNCHANGED waiters
          ELSE /\ state' = [state EXCEPT ![c] = result, ![Head(waiters)] = "dispatching"]
               /\ waiters' = Tail(waiters) /\ UNCHANGED permit
    /\ UNCHANGED <<body, joins, spawned>>

(* The body waits for a handle, or comes to its end. *)
Join(s, k) == /\ body[s] = "running" /\ k \in 1 .. spawned[s]
              /\ state[<<s, k>>] \notin Ended
              /\ body' = [body EXCEPT ![s] = "joining"]
              /\ joins' = [joins EXCEPT ![s] = k]
              /\ UNCHANGED <<spawned, state, waiters, permit>>

Joined(s) == /\ body[s] = "joining" /\ state[<<s, joins[s]>>] \in Ended
             /\ body' = [body EXCEPT ![s] = "running"]
             /\ joins' = [joins EXCEPT ![s] = 0]
             /\ UNCHANGED <<spawned, state, waiters, permit>>

BodyEnds(s) == /\ body[s] = "running"
               /\ body' = [body EXCEPT ![s] = "ended"]
               /\ UNCHANGED <<joins, spawned, state, waiters, permit>>

(* with_task_group returns when the tasks of the group have ended.         *)
ScopeReturns(s) == /\ body[s] = "ended"
                   /\ \A k \in 1 .. spawned[s] : state[<<s, k>>] \in Ended
                   /\ body' = [body EXCEPT ![s] = "returned"]
                   /\ UNCHANGED <<joins, spawned, state, waiters, permit>>

(* What the scheduler and the Workers will do in time. *)
Runtime == \/ \E s \in Scopes : \/ Called(s) \/ Joined(s) \/ ScopeReturns(s)
                                \/ \E k \in 1 .. MaxTasks : TaskRuns(s, k)
           \/ \E c \in Calls : DispatchEnds(c)

ScopeNext == \/ Runtime
             \/ \E s \in Scopes : \/ Spawn(s) \/ CallDirectly(s) \/ BodyEnds(s)
                                  \/ \E k \in 1 .. MaxTasks : Join(s, k)

-----------------------------------------------------------------------------
Admitted == {"queued", "dispatching"} \cup Ended

(* Calls of a scope come to the permit in the order they were spawned in,  *)
(* each after the one before it has ended, whoever else dispatches in      *)
(* between and whichever of them raised; and the pool has one dispatch at  *)
(* a time, which the control slots (Dispatch.tla) rely on.                 *)
ScopeOrder ==
    /\ \A s \in Scopes, j, k \in 1 .. MaxTasks :
          j < k /\ state[<<s, k>>] \in Admitted => state[<<s, j>>] \in Ended
    /\ \A c, d \in Calls :
          state[c] = "dispatching" /\ state[d] = "dispatching" => c = d

(* A scope whose body has come to its end returns: neither a chain of      *)
(* tasks, nor one that raised, nor the callers of another scope hold the   *)
(* permit back from it for ever.                                           *)
ScopeEnds == \A s \in Scopes : body[s] = "ended" ~> body[s] = "returned"
=============================================================================
