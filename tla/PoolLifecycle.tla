--------------------------- MODULE PoolLifecycle ---------------------------
(***************************************************************************)
(* The life of a Mayo pool: launching its Workers (launch_workers and the  *)
(* handshakes of host_runtime_js.mbt), dispatching, what follows a         *)
(* failure (poison, restart_workers, recover_runtime_failure) and close.   *)
(*                                                                         *)
(* A dispatch is one publication of all slots and one answer per Worker;   *)
(* what happens in between is the subject of Dispatch.  A Worker goes on    *)
(* for a while after Worker.terminate(), but it is assumed to be gone when *)
(* a new one is started for its slot.  Everything the Host does between    *)
(* two awaits is one step; close can only be called when the Host's thread *)
(* is free, that is during an await or between calls.                      *)
(* EpochMax is the width of the epoch counter (2147483647 in the code).    *)
(***************************************************************************)
EXTENDS Integers

CONSTANTS
    N,              \* number of Workers
    EpochMax,
    Pools,          \* the pools considered: RecoveryPolicy and kind of Worker
                    \* ("js": start.mbt, "wasm": wasm/guest_runtime.js)
    Modes,          \* how the program dispatches: [api, sync]
    BlockingReady,  \* whether wait_for_worker_ready blocks the Host's thread
    MayFailLaunch,  \* whether starting a Worker may time out or fail
    MayFail,        \* whether kernels may throw or report a failed status
    SlowWorkers     \* whether timeout_ms may be too short for a live Worker

ASSUME LifecycleAssumption ==
    /\ N \in Nat \ {0}
    /\ EpochMax \in Nat \ {0, 1}
    /\ Pools \subseteq [recovery : {"PoisonPool", "RestartWorkers"},
                        guest : {"js", "wasm"}]
    /\ Modes \subseteq [api : {"range", "kernel"}, sync : BOOLEAN]
    /\ {BlockingReady, MayFailLaunch, MayFail, SlowWorkers} \subseteq BOOLEAN

Worker == 0 .. N - 1

OK == 0
UNKNOWN == -1
RUNTIME_FAILED == -3

VARIABLES
    pool,     \* the options the pool was created with
    hpc,      \* Host: "start", "init", "ready" (in launch_workers), "idle",
              \* "wait" (in wait_run) or "gone" (Pool::create raised)
    at,       \* Host: the Worker launch_workers is at
    why,      \* Host: "create" or "restart", the caller of launch_workers
    launched, \* Host: the Workers launch_workers has started so far
    workers,  \* Host: the Workers in Pool.workers
    mode,     \* Host: how the current dispatch was called
    epoch,    \* Host: Pool.epoch
    failure,  \* Host: whether Pool.failure is set
    closed,   \* Host: Pool.closed
    outcome,  \* Host: how the latest call ended
    epochW, doneW, statusW, stopW,     \* words of the control slots
    wpc,      \* Worker: control state
    doomed,   \* the Workers terminate() was called on that are not gone yet
    seen,     \* Worker: seen_epoch
    acked     \* the Workers whose "initialized" message the Host has

hostVars == <<pool, hpc, at, why, launched, workers, mode, epoch, failure, closed,
              outcome>>
wordVars == <<epochW, doneW, statusW, stopW>>
workerVars == <<wpc, doomed, seen, acked>>
vars == <<hostVars, wordVars, workerVars>>

Init ==
    /\ pool \in Pools
    /\ hpc = "start" /\ at = 0 /\ why = "create"
    /\ launched = {} /\ workers = {}
    /\ mode \in Modes
    /\ epoch = 0 /\ failure = FALSE /\ closed = FALSE /\ outcome = "none"
    /\ epochW = [w \in Worker |-> 0] /\ doneW = [w \in Worker |-> 0]
    /\ statusW = [w \in Worker |-> OK] /\ stopW = [w \in Worker |-> FALSE]
    /\ wpc = [w \in Worker |-> "none"]
    /\ doomed = {}
    /\ seen = [w \in Worker |-> 0]
    /\ acked = {}

-----------------------------------------------------------------------------
(* A Worker is there from new Worker() until terminate() has taken effect;  *)
(* it serves dispatches until it leaves its loop or terminate() is called.  *)
Exists(w) == wpc[w] # "none"
Serving(w) == Exists(w) /\ wpc[w] # "exited" /\ w \notin doomed

(* terminate_workers *)
Terminate(ws) == doomed' = doomed \cup {w \in ws : Exists(w)}

(* launch_workers: first every Worker is started, one after the other ...   *)
StartWorker ==
    /\ hpc = "start" /\ ~Exists(at)
    /\ wpc' = [wpc EXCEPT ![at] = "boot"]
    /\ acked' = acked \ {at}
    /\ UNCHANGED <<hostVars, wordVars, doomed, seen>>

(* The next step of a phase that visits the Workers in order. *)
Advance(next) ==
    IF at + 1 = N THEN hpc' = next /\ at' = 0
                  ELSE hpc' = hpc  /\ at' = at + 1

Online ==
    /\ hpc = "start" /\ wpc[at] = "online"
    /\ launched' = launched \cup {at}
    /\ Advance("init")
    /\ UNCHANGED <<pool, why, workers, mode, epoch, failure, closed, outcome,
                   wordVars, workerVars>>

(* ... then initialized ... *)
PostInit ==
    /\ hpc = "init" /\ wpc[at] = "online"
    /\ wpc' = [wpc EXCEPT ![at] = "init"]
    /\ UNCHANGED <<hostVars, wordVars, doomed, seen, acked>>

Initialized ==
    /\ hpc = "init" /\ at \in acked
    /\ Advance("ready")
    /\ UNCHANGED <<pool, why, launched, workers, mode, epoch, failure, closed,
                   outcome, wordVars, workerVars>>

(* ... then awaited until its done word is -1.  Pool::create returns the    *)
(* pool; a dispatch that has restarted the Workers reports its failure.     *)
Ready ==
    /\ hpc = "ready" /\ doneW[at] = -1
    /\ Advance("idle")
    /\ IF at + 1 = N
       THEN /\ workers' = launched /\ launched' = {}
            /\ outcome' = IF why = "restart" THEN "failed" ELSE "none"
       ELSE UNCHANGED <<workers, launched, outcome>>
    /\ UNCHANGED <<pool, why, mode, epoch, failure, closed, wordVars,
                   workerVars>>

(* A step of the launch fails: the Workers launched so far are terminated   *)
(* (by start_host_worker and launch_workers) and Pool::create raises; a     *)
(* restart poisons the pool, whose workers array is empty by then.          *)
AbandonAfter(ws) ==
    /\ Terminate(ws)
    /\ launched' = {}
    /\ at' = 0
    /\ IF why = "create"
       THEN hpc' = "gone" /\ UNCHANGED <<failure, outcome>>
       ELSE hpc' = "idle" /\ failure' = TRUE /\ outcome' = "failed"
    /\ UNCHANGED <<pool, why, workers, mode, epoch, closed, wordVars, wpc, seen,
                   acked>>

(* Mutant of AbandonLaunch: only the Worker that failed is terminated. *)
AbandonAlone == AbandonAfter({at})

AbandonLaunch ==
    AbandonAfter(launched \cup (IF hpc = "start" THEN {at} ELSE {}))

LaunchFails ==
    /\ \/ hpc = "start" /\ wpc[at] \in {"boot", "online"} /\ at \notin doomed
          /\ MayFailLaunch
       \/ hpc = "init" /\ wpc[at] # "online" /\ at \notin acked /\ MayFailLaunch
       \/ hpc = "ready" /\ doneW[at] # -1 /\ SlowWorkers
    /\ AbandonLaunch

-----------------------------------------------------------------------------
(* Dispatches. *)

(* Mutant of NextEpoch: the counter never wraps. *)
NextEpochUnbounded(e) == e + 1

NextEpoch(e) == IF e = EpochMax THEN 1 ELSE e + 1

Begin(m) ==
    /\ hpc = "idle" /\ ~failure /\ ~closed
    /\ pool.guest = "wasm" => m.api = "range"
    /\ epoch' = NextEpoch(epoch)
    /\ mode' = m
    /\ hpc' = "wait" /\ outcome' = "none"
    /\ epochW' = [w \in Worker |-> IF w \in workers THEN epoch' ELSE epochW[w]]
    /\ statusW' = [w \in Worker |-> IF w \in workers THEN OK ELSE statusW[w]]
    /\ stopW' = [w \in Worker |-> w \notin workers /\ stopW[w]]
    /\ UNCHANGED <<pool, at, why, launched, workers, failure, closed, doneW,
                   workerVars>>

Reject ==
    /\ hpc = "idle" /\ (failure \/ closed)
    /\ outcome' = IF failure THEN "failed" ELSE "closed"
    /\ UNCHANGED <<pool, hpc, at, why, launched, workers, mode, epoch, failure,
                   closed, wordVars, workerVars>>

Reported(w) == doneW[w] = epoch
RuntimeFailed == \E w \in workers : Reported(w) /\ statusW[w] = RUNTIME_FAILED
AllReported == \A w \in workers : Reported(w)
StatusFailed == \E w \in workers : statusW[w] # OK

(* poison *)
Poison ==
    /\ failure' = TRUE
    /\ Terminate(workers)
    /\ hpc' = "idle" /\ outcome' = "failed"
    /\ UNCHANGED <<at, why, launched, workers>>

(* Mutant of Restart: the array is cleared first and nothing is terminated. *)
RestartClearsFirst ==
    /\ workers' = {} /\ launched' = {}
    /\ hpc' = "start" /\ at' = 0 /\ why' = "restart"
    /\ UNCHANGED <<failure, outcome, doomed>>

(* restart_workers, up to launch_workers *)
Restart ==
    /\ Terminate(workers)
    /\ workers' = {} /\ launched' = {}
    /\ hpc' = "start" /\ at' = 0 /\ why' = "restart"
    /\ UNCHANGED <<failure, outcome>>

(* Mutant of Recover: every call poisons the pool, whatever its policy. *)
RecoverByPoison == Poison

(* Pool::run and Pool::run_kernel poison the pool whatever its policy; the  *)
(* async calls go by recover_runtime_failure.                               *)
Recover == IF mode.sync \/ pool.recovery = "PoisonPool" THEN Poison ELSE Restart

Fail(recover) ==
    /\ hpc = "wait"
    /\ IF recover THEN Recover
       ELSE /\ hpc' = "idle" /\ outcome' = "failed"
            /\ UNCHANGED <<at, why, launched, workers, failure, doomed>>
    /\ UNCHANGED <<pool, mode, epoch, closed, wordVars, wpc, seen, acked>>

(* Mutants of ReturnRuntimeFailure and ReturnStatus: the failure is        *)
(* reported, and the pool goes on as it is.                                 *)
ReturnRuntimeFailureOnly == RuntimeFailed /\ Fail(FALSE)
ReturnStatusOnly == AllReported /\ ~RuntimeFailed /\ StatusFailed /\ Fail(FALSE)

(* An uncaught kernel failure, and a failed status: only the range calls    *)
(* recover from that.                                                       *)
ReturnRuntimeFailure == RuntimeFailed /\ Fail(TRUE)

ReturnStatus == /\ AllReported /\ ~RuntimeFailed /\ StatusFailed
                /\ Fail(mode.api = "range")

ReturnOk ==
    /\ hpc = "wait" /\ AllReported /\ ~StatusFailed
    /\ hpc' = "idle" /\ outcome' = "ok"
    /\ UNCHANGED <<pool, at, why, launched, workers, mode, epoch, failure,
                   closed, wordVars, workerVars>>

(* A pending Worker that will not report by itself. *)
Stuck == \E w \in workers :
            /\ ~Reported(w)
            /\ \/ ~Serving(w)
               \/ wpc[w] = "check" /\ epochW[w] = seen[w]

Timeout ==
    /\ hpc = "wait" /\ ~AllReported /\ ~RuntimeFailed
    /\ SlowWorkers \/ Stuck
    /\ hpc' = "idle" /\ outcome' = "timeout"
    /\ UNCHANGED <<pool, at, why, launched, workers, mode, epoch, failure,
                   closed, wordVars, workerVars>>

(* close *)
HostThreadFree == \/ hpc = "idle"
                  \/ hpc = "wait" /\ ~mode.sync
                  \/ hpc \in {"start", "init"} /\ why = "restart"
                  \/ hpc = "ready" /\ why = "restart" /\ ~BlockingReady

(* Mutant of Close: the Workers are left to a stop word that nothing        *)
(* publishes.                                                               *)
CloseUnpublished ==
    /\ HostThreadFree /\ ~closed
    /\ closed' = TRUE
    /\ stopW' = [w \in Worker |-> w \in workers \/ stopW[w]]
    /\ UNCHANGED <<pool, hpc, at, why, launched, workers, mode, epoch, failure,
                   outcome, epochW, doneW, statusW, workerVars>>

Close ==
    /\ HostThreadFree /\ ~closed
    /\ closed' = TRUE
    /\ stopW' = [w \in Worker |-> w \in workers \/ stopW[w]]
    /\ epochW' = [w \in Worker |-> IF w \in workers THEN epochW[w] + 1
                                   ELSE epochW[w]]
    /\ Terminate(workers)
    /\ UNCHANGED <<pool, hpc, at, why, launched, workers, mode, epoch, failure,
                   outcome, doneW, statusW, wpc, seen, acked>>

-----------------------------------------------------------------------------
(* The Worker: what start.mbt and mayo.mbt, or guest_runtime.js, do.        *)

Move(w, from, to) == wpc[w] = from /\ wpc' = [wpc EXCEPT ![w] = to]

(* The module has been evaluated: "online" is posted. *)
Boot(w) ==
    /\ Move(w, "boot", "online")
    /\ UNCHANGED <<hostVars, wordVars, doomed, seen, acked>>

(* Mutant of OnInit: a Wasm Worker, too, acknowledges before it touches its *)
(* slot.                                                                    *)
OnInitEarly(w) ==
    /\ Move(w, "init", "load")
    /\ acked' = acked \cup {w}
    /\ UNCHANGED <<hostVars, wordVars, doomed, seen>>

(* onmessage.  A JavaScript Worker posts "initialized" before it touches    *)
(* its slot, a Wasm Worker after.                                           *)
OnInit(w) ==
    /\ Move(w, "init", "load")
    /\ acked' = IF pool.guest = "js" THEN acked \cup {w} ELSE acked
    /\ UNCHANGED <<hostVars, wordVars, doomed, seen>>

LoadEpoch(w) ==
    /\ Move(w, "load", "hello")
    /\ seen' = [seen EXCEPT ![w] = epochW[w]]
    /\ UNCHANGED <<hostVars, wordVars, doomed, acked>>

(* Mutant of SayReady: the done word is left alone. *)
SayReadySilently(w) ==
    /\ Move(w, "hello", IF pool.guest = "js" THEN "check" ELSE "ack")
    /\ UNCHANGED <<hostVars, wordVars, doomed, seen, acked>>

SayReady(w) ==
    /\ Move(w, "hello", IF pool.guest = "js" THEN "check" ELSE "ack")
    /\ doneW' = [doneW EXCEPT ![w] = -1]
    /\ UNCHANGED <<hostVars, epochW, statusW, stopW, doomed, seen, acked>>

Ack(w) ==
    /\ Move(w, "ack", "check")
    /\ acked' = acked \cup {w}
    /\ UNCHANGED <<hostVars, wordVars, doomed, seen>>

(* A new epoch ends the wait; the stop word ends the Worker. *)
TakeUp(w) ==
    /\ epochW[w] # seen[w]
    /\ Move(w, "check", IF stopW[w] THEN "exited" ELSE "run")
    /\ seen' = [seen EXCEPT ![w] = epochW[w]]
    /\ UNCHANGED <<hostVars, wordVars, doomed, acked>>

Answer(w, status, done, next) ==
    /\ Move(w, "run", next)
    /\ statusW' = [statusW EXCEPT ![w] = status]
    /\ doneW' = [doneW EXCEPT ![w] = done]
    /\ UNCHANGED <<hostVars, epochW, stopW, doomed, seen, acked>>

(* A Wasm Worker leaves its loop after a failed status. *)
Finish(w) == \/ Answer(w, OK, seen[w], "check")
             \/ /\ MayFail
                /\ Answer(w, UNKNOWN, seen[w],
                          IF pool.guest = "wasm" THEN "exited" ELSE "check")

(* The kernel throws: a JavaScript Worker answers whatever the epoch word   *)
(* holds by now, a Wasm Worker the epoch it serves.  Both are done for.     *)
Throw(w) ==
    /\ MayFail
    /\ Answer(w, RUNTIME_FAILED,
              IF pool.guest = "js" THEN epochW[w] ELSE seen[w], "exited")

(* terminate() takes effect. *)
Gone(w) ==
    /\ w \in doomed
    /\ doomed' = doomed \ {w}
    /\ wpc' = [wpc EXCEPT ![w] = "none"]
    /\ UNCHANGED <<hostVars, wordVars, seen, acked>>

-----------------------------------------------------------------------------
HostStep == \/ StartWorker \/ Online \/ PostInit \/ Initialized \/ Ready
            \/ ReturnRuntimeFailure \/ ReturnStatus \/ ReturnOk \/ Timeout

WorkerStep(w) == \/ Boot(w) \/ OnInit(w) \/ LoadEpoch(w) \/ SayReady(w)
                 \/ Ack(w) \/ TakeUp(w) \/ Finish(w) \/ Throw(w) \/ Gone(w)

Next == \/ HostStep \/ LaunchFails \/ Reject \/ Close
        \/ \E m \in Modes : Begin(m)
        \/ \E w \in Worker : WorkerStep(w)

Spec == Init /\ [][Next]_vars

(* The Host goes on with a call it has begun, every Worker's thread runs,   *)
(* and a Worker told to terminate does.  Whether the program dispatches     *)
(* again or closes the pool, and whether a launch fails, is left open.      *)
Fairness == WF_vars(HostStep) /\ \A w \in Worker : WF_vars(WorkerStep(w))
FairSpec == Spec /\ Fairness

-----------------------------------------------------------------------------
(* Types of the variables. *)
TypeOK ==
    /\ pool \in Pools
    /\ hpc \in {"start", "init", "ready", "idle", "wait", "gone"}
    /\ at \in Worker /\ why \in {"create", "restart"}
    /\ launched \subseteq Worker /\ workers \subseteq Worker
    /\ mode \in Modes
    /\ epoch \in 0 .. EpochMax
    /\ failure \in BOOLEAN /\ closed \in BOOLEAN
    /\ outcome \in {"none", "ok", "failed", "timeout", "closed"}
    /\ epochW \in [Worker -> 0 .. EpochMax + 1]
    /\ doneW \in [Worker -> -1 .. EpochMax + 1]
    /\ statusW \in [Worker -> {OK, UNKNOWN, RUNTIME_FAILED}]
    /\ stopW \in [Worker -> BOOLEAN]
    /\ wpc \in [Worker -> {"none", "boot", "online", "init", "load", "hello",
                           "ack", "check", "run", "exited"}]
    /\ seen \in [Worker -> 0 .. EpochMax + 1]
    /\ doomed \subseteq Worker /\ acked \subseteq Worker

Undoomed == {w \in Worker : Exists(w) /\ w \notin doomed}

(* No Worker is lost track of: one that runs and has not been told to       *)
(* terminate is in Pool.workers, in the array launch_workers fills, or the  *)
(* one it is starting.  terminate_workers can reach no other.               *)
Owned ==
    Undoomed \subseteq workers \cup launched
                       \cup (IF hpc = "start" THEN {at} ELSE {})

(* "Any Worker started before a construction failure is terminated", and a  *)
(* poisoned pool has terminated its Workers, also when it is a relaunch     *)
(* that failed half way.                                                    *)
FailedMeansStopped == hpc = "gone" \/ (hpc = "idle" /\ failure) => Undoomed = {}

(* close "stops every Worker": no Worker is left running in a closed pool   *)
(* once no call is in progress.                                             *)
ClosedMeansStopped == closed /\ hpc = "idle" => Undoomed = {}

(* The same of the pools that have not been relaunched.                     *)
ClosedMeansStoppedAtFirst == why = "create" => ClosedMeansStopped

(* Between dispatches: a Worker that is there to stay and waits for the     *)
(* next epoch.  It has answered the last one, or has been launched since.   *)
Rested(w) == /\ w \notin doomed /\ wpc[w] = "check" /\ seen[w] = epochW[w]
             /\ \/ doneW[w] = epoch
                \/ doneW[w] = -1 /\ outcome \in {"none", "failed"}

(* "An uncaught kernel failure fails its dispatch; PoisonPool terminates    *)
(* the pool, RestartWorkers recreates the complete Worker set": a pool that *)
(* takes calls has its full set of Workers, each waiting for its next epoch *)
(* with no answer outstanding.                                              *)
IdlePoolHealthy ==
    hpc = "idle" /\ ~failure /\ ~closed =>
        workers = Worker /\ \A w \in Worker : Rested(w)

(* After a recovery "a later dispatch may proceed": as long as timeout_ms   *)
(* is long enough for the kernels, a dispatch only times out because the    *)
(* pool was closed under it.                                                *)
TimeoutOnlyIfClosed == outcome = "timeout" => closed

(* "Policy applied after an uncaught Worker kernel failure": a pool with    *)
(* RestartWorkers whose calls are awaited is only poisoned by a relaunch    *)
(* that fails, which leaves its array of Workers empty.                     *)
RecoveryHonoured ==
    pool.recovery = "RestartWorkers" /\ failure /\ ~mode.sync => workers = {}

(* Every call ends: Pool::create, a dispatch with what it takes to recover  *)
(* from its failure.                                                        *)
OperationEnds == hpc \notin {"idle", "gone"} ~> hpc \in {"idle", "gone"}
=============================================================================
