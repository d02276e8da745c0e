-------------------------- MODULE LifecycleProofs --------------------------
(***************************************************************************)
(* What is proved about the life of a pool, for every number of Workers,   *)
(* every width of the epoch and every set of pools: no Worker is lost      *)
(* track of, and a pool that failed or was closed has none left.  A pool   *)
(* that goes on is healthy: that is proved of the pools that relaunch no   *)
(* JavaScript Workers, and when timeout_ms is long enough.                 *)
(***************************************************************************)
EXTENDS PoolLifecycle, TLAPS

Launching == hpc \in {"start", "init", "ready"}

(* Closing adds one to the words, once. *)
EpochsFit == ~ closed => \A w \in Worker : epochW[w] <= EpochMax

(* While Workers are launched they are in the array launch_workers fills,  *)
(* and otherwise in that of the pool: whoever terminates one of the two    *)
(* has terminated all of them.                                             *)
OneArray == /\ Launching => workers = {}
            /\ ~ Launching => launched = {}

(* A failure is final. *)
FailureRests == failure => hpc = "idle"

ClosedAtFirst ==
    closed /\ why = "create" => hpc \in {"idle", "wait"} /\ Undoomed = {}

LifeInv == /\ TypeOK /\ EpochsFit /\ OneArray /\ Owned /\ FailureRests
           /\ FailedMeansStopped /\ ClosedAtFirst /\ RecoveryHonoured

-----------------------------------------------------------------------------
LEMMA WorkerIndex == 0 \in Worker /\ \A w \in Worker : w + 1 # N => w + 1 \in Worker
  BY LifecycleAssumption DEF Worker

(* terminate_workers leaves the others. *)
LEMMA Terminated ==
    ASSUME NEW ws, Terminate(ws), UNCHANGED wpc
    PROVE  Undoomed' = Undoomed \ ws
  BY DEF Terminate, Undoomed, Exists

LEMMA LifeStarts == ASSUME Init PROVE LifeInv
<1>1. TypeOK
  <2>1. 0 \in 0 .. EpochMax + 1 /\ 0 \in -1 .. EpochMax + 1 /\ 0 \in 0 .. EpochMax
    BY LifecycleAssumption
  <2>2. /\ epochW \in [Worker -> 0 .. EpochMax + 1] /\ doneW \in [Worker -> -1 .. EpochMax + 1]
        /\ seen \in [Worker -> 0 .. EpochMax + 1] /\ statusW \in [Worker -> {OK}]
        /\ stopW \in [Worker -> BOOLEAN] /\ wpc \in [Worker -> {"none"}]
    BY <2>1 DEF Init
  <2> QED
    BY <2>1, <2>2, WorkerIndex DEF Init, TypeOK
<1>2. Undoomed = {}
  BY DEF Init, Undoomed, Exists
<1> QED
  BY <1>1, <1>2, LifecycleAssumption
  DEF Init, LifeInv, EpochsFit, OneArray, Launching, Owned, FailureRests,
      FailedMeansStopped, ClosedAtFirst, RecoveryHonoured

LEMMA LaunchKeeps ==
    ASSUME LifeInv, StartWorker \/ Online \/ PostInit \/ Initialized \/ Ready
    PROVE  LifeInv'
<1> USE WorkerIndex, LifecycleAssumption
    DEF LifeInv, TypeOK, EpochsFit, OneArray, Launching, Owned, FailureRests,
        FailedMeansStopped, ClosedAtFirst, RecoveryHonoured, Undoomed, Exists,
        hostVars, wordVars, workerVars
<1>1. CASE StartWorker
  BY <1>1 DEF StartWorker
<1>2. CASE Online
  BY <1>2 DEF Online, Advance
<1>3. CASE PostInit
  BY <1>3 DEF PostInit
<1>4. CASE Initialized
  BY <1>4 DEF Initialized, Advance
<1>5. CASE Ready
  BY <1>5 DEF Ready, Advance
<1> QED
  BY <1>1, <1>2, <1>3, <1>4, <1>5

LEMMA AbandonKeeps == ASSUME LifeInv, LaunchFails PROVE LifeInv'
<1>1. Launching /\ workers = {}
  BY DEF LifeInv, LaunchFails, OneArray, Launching
<1>2. AbandonAfter(launched \cup (IF hpc = "start" THEN {at} ELSE {}))
  BY DEF LaunchFails, AbandonLaunch
<1>3. Undoomed' = {}
  BY <1>1, <1>2, Terminated DEF AbandonAfter, LifeInv, Owned
<1>4. TypeOK'
  BY <1>2, WorkerIndex DEF AbandonAfter, Terminate, LifeInv, TypeOK, wordVars
<1>5. EpochsFit' /\ OneArray' /\ FailureRests' /\ RecoveryHonoured' /\ ClosedAtFirst'
  BY <1>1, <1>2, <1>3
  DEF AbandonAfter, LifeInv, TypeOK, EpochsFit, OneArray, Launching, FailureRests,
      RecoveryHonoured, ClosedAtFirst, wordVars
<1> QED
  BY <1>3, <1>4, <1>5 DEF LifeInv, Owned, FailedMeansStopped

LEMMA EpochAdvances ==
    ASSUME NEW e \in 0 .. EpochMax
    PROVE  NextEpoch(e) \in 1 .. EpochMax /\ NextEpoch(e) # e
  BY LifecycleAssumption DEF NextEpoch

LEMMA DispatchKeeps ==
    ASSUME LifeInv, \/ \E m \in Modes : Begin(m)
                    \/ Reject \/ ReturnRuntimeFailure \/ ReturnStatus \/ ReturnOk \/ Timeout
    PROVE  LifeInv'
<1> USE WorkerIndex, LifecycleAssumption
    DEF LifeInv, OneArray, Launching, FailureRests
<1>1. ASSUME NEW m \in Modes, Begin(m) PROVE LifeInv'
  <2>1. epoch' \in 1 .. EpochMax
    BY <1>1, EpochAdvances DEF Begin, TypeOK
  <2>2. TypeOK' /\ EpochsFit'
    BY <1>1, <2>1 DEF Begin, TypeOK, EpochsFit, workerVars, OK
  <2> QED
    BY <1>1, <2>2
    DEF Begin, workerVars, Owned, FailedMeansStopped, ClosedAtFirst, RecoveryHonoured,
        Undoomed, Exists
<1>2. CASE Reject \/ ReturnOk \/ Timeout
  BY <1>2
  DEF Reject, ReturnOk, Timeout, TypeOK, EpochsFit, wordVars, workerVars, Owned,
      FailedMeansStopped, ClosedAtFirst, RecoveryHonoured, Undoomed, Exists
<1>3. ASSUME NEW recover \in BOOLEAN, Fail(recover) PROVE LifeInv'
  <2>1. hpc = "wait" /\ launched = {} /\ ~ failure /\ Undoomed \subseteq workers
        /\ UNCHANGED <<pool, mode, epoch, closed, wordVars, wpc, seen, acked>>
    BY <1>3 DEF Fail, Owned
  <2>2. CASE recover /\ Poison
    <3>1. Undoomed' = {}
      BY <2>1, <2>2, Terminated DEF Poison
    <3>2. mode.sync \/ pool.recovery = "PoisonPool"
      BY <1>3, <2>2 DEF Fail, Recover, Restart, Poison
    <3>3. TypeOK' /\ EpochsFit'
      BY <2>1, <2>2 DEF Poison, Terminate, TypeOK, EpochsFit, wordVars
    <3> QED
      BY <2>1, <2>2, <3>1, <3>2, <3>3
      DEF Poison, Owned, FailedMeansStopped, ClosedAtFirst, RecoveryHonoured
  <2>3. CASE recover /\ Restart
    <3>1. Undoomed' = {}
      BY <2>1, <2>3, Terminated DEF Restart
    <3>2. TypeOK' /\ EpochsFit'
      BY <2>1, <2>3 DEF Restart, Terminate, TypeOK, EpochsFit, wordVars
    <3> QED
      BY <2>1, <2>3, <3>1, <3>2
      DEF Restart, Owned, FailedMeansStopped, ClosedAtFirst, RecoveryHonoured
  <2>4. CASE ~ recover
    BY <1>3, <2>1, <2>4
    DEF Fail, TypeOK, EpochsFit, wordVars, Owned, FailedMeansStopped, ClosedAtFirst,
        RecoveryHonoured, Undoomed, Exists
  <2> QED
    BY <1>3, <2>2, <2>3, <2>4 DEF Fail, Recover
<1> QED
  BY <1>1, <1>2, <1>3 DEF ReturnRuntimeFailure, ReturnStatus

LEMMA CloseKeeps == ASSUME LifeInv, Close PROVE LifeInv'
<1> USE DEF LifeInv, OneArray, Launching, FailureRests
<1>1. Undoomed' = Undoomed \ workers
  BY Terminated DEF Close
<1>2. \A w \in Worker : epochW[w] <= EpochMax
  BY DEF Close, EpochsFit
<1>3. TypeOK'
  BY <1>2, LifecycleAssumption DEF Close, Terminate, TypeOK
<1>4. EpochsFit'
  BY DEF Close, EpochsFit
<1> QED
  BY <1>1, <1>3, <1>4
  DEF Close, HostThreadFree, Owned, FailedMeansStopped, ClosedAtFirst, RecoveryHonoured, TypeOK

LEMMA WorkerKeeps == ASSUME LifeInv, NEW w \in Worker, WorkerStep(w) PROVE LifeInv'
<1> USE LifecycleAssumption
    DEF LifeInv, OneArray, Launching, FailureRests, EpochsFit, Owned, FailedMeansStopped,
        ClosedAtFirst, RecoveryHonoured, hostVars, wordVars
<1>1. Undoomed' = Undoomed
  <2>1. CASE Gone(w)
    BY <2>1 DEF Gone, Undoomed, Exists, TypeOK
  <2>2. CASE ~ Gone(w)
    <3>1. /\ doomed' = doomed /\ wpc[w] # "none"
          /\ \E to \in {"online", "load", "hello", "ack", "check", "run", "exited"} :
                wpc' = [wpc EXCEPT ![w] = to]
      BY <2>2
      DEF WorkerStep, Boot, OnInit, LoadEpoch, SayReady, Ack, TakeUp, Finish, Throw, Answer, Move
    <3> QED
      BY <3>1 DEF Undoomed, Exists, TypeOK
  <2> QED
    BY <2>1, <2>2
<1>2. UNCHANGED <<hostVars, epochW, stopW>>
  BY DEF WorkerStep, Boot, OnInit, LoadEpoch, SayReady, Ack, TakeUp, Finish, Throw, Answer, Gone
<1>3. TypeOK'
  <2> USE DEF TypeOK, Move
  <2>1. CASE Boot(w) \/ OnInit(w) \/ LoadEpoch(w) \/ SayReady(w)
    BY <2>1 DEF Boot, OnInit, LoadEpoch, SayReady
  <2>2. CASE Ack(w) \/ TakeUp(w) \/ Gone(w)
    BY <2>2 DEF Ack, TakeUp, Gone
  <2>3. CASE Finish(w) \/ Throw(w)
    BY <2>3 DEF Finish, Throw, Answer, OK, UNKNOWN, RUNTIME_FAILED
  <2> QED
    BY <2>1, <2>2, <2>3 DEF WorkerStep
<1> QED
  BY <1>1, <1>2, <1>3

LEMMA LifeStep == ASSUME LifeInv, [Next]_vars PROVE LifeInv'
<1>1. CASE UNCHANGED vars
  BY <1>1
  DEF vars, hostVars, wordVars, workerVars, LifeInv, TypeOK, EpochsFit, OneArray, Launching,
      Owned, FailureRests, FailedMeansStopped, ClosedAtFirst, RecoveryHonoured, Undoomed, Exists
<1> QED
  BY <1>1, LaunchKeeps, AbandonKeeps, DispatchKeeps, CloseKeeps, WorkerKeeps DEF Next, HostStep

LEMMA LifeInvHolds == Spec => []LifeInv
  BY LifeStarts, LifeStep, PTL DEF Spec

-----------------------------------------------------------------------------
(* The variables have their types: above all, no epoch word leaves the     *)
(* range of its counter by more than the one that close adds.              *)
THEOREM TypeCorrect == Spec => []TypeOK
<1>1. LifeInv => TypeOK
  BY DEF LifeInv
<1> QED
  BY <1>1, LifeInvHolds, PTL

(* Every Worker that runs and was not told to terminate can be reached by  *)
(* one who terminates the Workers of an array (host_client.mbt).           *)
THEOREM OwnedHolds == Spec => []Owned
<1>1. LifeInv => Owned
  BY DEF LifeInv
<1> QED
  BY <1>1, LifeInvHolds, PTL

(* A construction that failed and a pool that was poisoned, by whichever   *)
(* path, have left no Worker running.                                      *)
THEOREM FailedMeansStoppedHolds == Spec => []FailedMeansStopped
<1>1. LifeInv => FailedMeansStopped
  BY DEF LifeInv
<1> QED
  BY <1>1, LifeInvHolds, PTL

(* Nor has a pool that was closed, if it was never relaunched.             *)
THEOREM ClosedMeansStoppedAtFirstHolds == Spec => []ClosedMeansStoppedAtFirst
<1>1. LifeInv => ClosedMeansStoppedAtFirst
  BY DEF LifeInv, ClosedAtFirst, ClosedMeansStoppedAtFirst, ClosedMeansStopped
<1> QED
  BY <1>1, LifeInvHolds, PTL

(* A pool with RestartWorkers whose calls are awaited is poisoned by a     *)
(* relaunch that fails and by nothing else.                                *)
THEOREM RecoveryHonouredHolds == Spec => []RecoveryHonoured
<1>1. LifeInv => RecoveryHonoured
  BY DEF LifeInv
<1> QED
  BY <1>1, LifeInvHolds, PTL

-----------------------------------------------------------------------------
(* A pool that takes calls is healthy, and its dispatches do not time out: *)
(* so if timeout_ms is long enough for its kernels, and as long as it does *)
(* not relaunch JavaScript Workers, whose done words may still be -1 from  *)
(* their first launch (run restart_lost).                                  *)
Patient == SlowWorkers = FALSE
NoJsRestart == \A p \in Pools : ~ (p.recovery = "RestartWorkers" /\ p.guest = "js")

Js == pool.guest = "js"

(* A slot whose Worker of before has yet to go, or that has none.          *)
Old(w) == \/ ~ Exists(w) /\ w \notin doomed
          \/ ~ Js /\ w \in doomed /\ wpc[w] \in {"check", "run", "exited"}

(* A Worker of this launch: it has served nothing yet, and acknowledged    *)
(* init only when it had got that far.                                     *)
Launched(w) == /\ w \notin doomed
               /\ wpc[w] \in {"boot", "online", "init", "load", "hello", "ack", "check"}
               /\ wpc[w] \in {"hello", "ack", "check"} => seen[w] = epoch
               /\ w \in acked => wpc[w] \in IF Js THEN {"load", "hello", "check"} ELSE {"check"}

Starting == /\ launched = {w \in Worker : w < at}
            /\ \A w \in Worker : IF w < at THEN Launched(w)
                                 ELSE Old(w) \/ (w = at /\ Launched(w))
Initializing == /\ launched = Worker
                /\ \A w \in Worker : Launched(w) /\ (w < at => w \in acked)
AwaitingReady == /\ launched = Worker
                 /\ \A w \in Worker : /\ Launched(w) /\ w \in acked
                                      /\ w < at => wpc[w] = "check" /\ doneW[w] = -1

(* During one: before, at and after its work.  One that has left its loop  *)
(* has left a status that the Host recovers from.                          *)
Dispatched(w) ==
    /\ w \notin doomed
    /\ \/ wpc[w] = "check" /\ seen[w] # epoch /\ doneW[w] # epoch
       \/ wpc[w] = "run" /\ seen[w] = epoch /\ doneW[w] # epoch
       \/ wpc[w] = "check" /\ seen[w] = epoch /\ doneW[w] = epoch
       \/ /\ wpc[w] = "exited" /\ seen[w] = epoch /\ doneW[w] = epoch
          /\ statusW[w] = RUNTIME_FAILED \/ (~ Js /\ statusW[w] = UNKNOWN)

HealthInv ==
    /\ ~ closed =>
          /\ \A w \in Worker : epochW[w] = epoch /\ ~ stopW[w]
          /\ Js /\ Launching => why = "create"
                                /\ \A w \in Worker : doneW[w] = -1 => wpc[w] = "check"
          /\ hpc = "start" => Starting
          /\ hpc = "init" => Initializing
          /\ hpc = "ready" => AwaitingReady
          /\ hpc = "idle" /\ ~ failure => workers = Worker /\ \A w \in Worker : Rested(w)
          /\ hpc = "wait" => /\ workers = Worker /\ \A w \in Worker : Dispatched(w)
                             /\ ~ Js => mode.api = "range"
    /\ TimeoutOnlyIfClosed
LEMMA HealthStarts == ASSUME Init PROVE HealthInv
  BY LifecycleAssumption
  DEF Init, HealthInv, Launching, Starting, Old, Exists, TimeoutOnlyIfClosed, Worker

LEMMA LaunchHealthy ==
    ASSUME LifeInv, HealthInv, StartWorker \/ Online \/ PostInit \/ Initialized \/ Ready
    PROVE  HealthInv'
<1> USE LifecycleAssumption
    DEF LifeInv, TypeOK, OneArray, Launching, HealthInv, TimeoutOnlyIfClosed, Js, Old, Exists,
        Launched, hostVars, wordVars, workerVars
<1>1. CASE StartWorker
  <2>1. hpc' = "start" /\ UNCHANGED <<hostVars, wordVars, doomed, seen>>
    BY <1>1 DEF StartWorker
  <2>2. \A w \in Worker \ {at} : wpc'[w] = wpc[w] /\ (w \in acked' <=> w \in acked)
    BY <1>1 DEF StartWorker
  <2>3. wpc'[at] = "boot" /\ at \notin acked'
    BY <1>1 DEF StartWorker
  <2>4. ~ closed => Starting'
    <3> SUFFICES ASSUME ~ closed PROVE Starting'
      OBVIOUS
    <3>1. Starting
      BY <2>1
    <3>2. at \notin doomed
      BY <1>1, <3>1 DEF StartWorker, Starting
    <3>3. Launched(at)'
      BY <2>1, <2>3, <3>2
    <3>4. \A w \in Worker \ {at} : (Launched(w) => Launched(w)') /\ (Old(w) => Old(w)')
      BY <2>1, <2>2
    <3> QED
      BY <2>1, <3>1, <3>3, <3>4 DEF Starting, Worker
  <2>5. Js /\ ~ closed => \A w \in Worker : doneW'[w] = -1 => wpc'[w] = "check"
    BY <2>1, <2>2, <2>3, <1>1 DEF StartWorker
  <2> QED
    BY <2>1, <2>4, <2>5
<1>2. CASE Online
  <2>1. ~ closed => Starting /\ Launched(at)
    BY <1>2 DEF Online, Starting, Worker
  <2>2. /\ UNCHANGED <<pool, why, epoch, failure, closed, outcome, wordVars, workerVars>>
        /\ launched' = launched \cup {at}
        /\ IF at + 1 = N THEN hpc' = "init" /\ at' = 0
                          ELSE hpc' = "start" /\ at' = at + 1
    BY <1>2 DEF Online, Advance
  <2>3. ~ closed /\ at + 1 = N => Initializing'
    BY <2>1, <2>2 DEF Starting, Initializing, Worker
  <2>4. ~ closed /\ at + 1 # N => Starting'
    <3> SUFFICES ASSUME ~ closed, at + 1 # N PROVE Starting'
      OBVIOUS
    <3>1. \A w \in Worker : (Launched(w) => Launched(w)') /\ (Old(w) => Old(w)')
      BY <2>2
    <3>2. \A w \in Worker : w < at' <=> w < at \/ w = at
      BY <2>2 DEF Worker
    <3> QED
      BY <2>1, <2>2, <3>1, <3>2 DEF Starting
  <2> QED
    BY <1>2, <2>2, <2>3, <2>4 DEF Online
<1>3. CASE PostInit
  BY <1>3 DEF PostInit, Initializing
<1>4. CASE Initialized
  <2>1. /\ hpc = "init" /\ at \in acked
        /\ UNCHANGED <<pool, why, launched, workers, mode, epoch, failure, closed,
                       outcome, wordVars, workerVars>>
        /\ IF at + 1 = N THEN hpc' = "ready" /\ at' = 0
                         ELSE hpc' = "init" /\ at' = at + 1
    BY <1>4 DEF Initialized, Advance
  <2>2. \A w \in Worker : Launched(w) => Launched(w)'
    BY <2>1
  <2>3. \A w \in Worker : w < at + 1 <=> w < at \/ w = at
    BY DEF Worker
  <2>4. ~ closed => launched = Worker /\ \A w \in Worker : Launched(w) /\ (w < at + 1 => w \in acked)
    BY <2>1, <2>3 DEF Initializing
  <2>5. ~ closed /\ at + 1 = N => AwaitingReady'
    BY <2>1, <2>2, <2>4 DEF AwaitingReady, Worker
  <2>6. ~ closed /\ at + 1 # N => Initializing'
    BY <2>1, <2>2, <2>4 DEF Initializing
  <2> QED
    BY <2>1, <2>5, <2>6
<1>5. CASE Ready
  BY <1>5 DEF Ready, Advance, AwaitingReady, Rested, Worker
<1> QED
  BY <1>1, <1>2, <1>3, <1>4, <1>5

LEMMA AbandonHealthy ==
    ASSUME Patient, LifeInv, HealthInv, LaunchFails PROVE HealthInv'
  BY DEF Patient, LifeInv, TypeOK, HealthInv, TimeoutOnlyIfClosed, LaunchFails, AbandonLaunch,
         AbandonAfter, Launching, wordVars

LEMMA DispatchHealthy ==
    ASSUME Patient, NoJsRestart, LifeInv, HealthInv,
           \/ \E m \in Modes : Begin(m)
           \/ Reject \/ ReturnRuntimeFailure \/ ReturnStatus \/ ReturnOk \/ Timeout
    PROVE  HealthInv'
<1> USE LifecycleAssumption DEF LifeInv, TypeOK, HealthInv, TimeoutOnlyIfClosed, Launching, Js
<1>1. ASSUME NEW m \in Modes, Begin(m) PROVE HealthInv'
  <2>1. epoch' # epoch /\ epoch' # -1
    BY <1>1, EpochAdvances DEF Begin
  <2> QED
    BY <1>1, <2>1 DEF Begin, Rested, Dispatched, workerVars
<1>2. CASE Reject
  BY <1>2 DEF Reject, wordVars, workerVars, FailureRests
<1>3. CASE ReturnOk
  BY <1>3 DEF ReturnOk, wordVars, workerVars, AllReported, Reported, StatusFailed,
              Dispatched, Rested, OK, UNKNOWN, RUNTIME_FAILED
<1>4. CASE Timeout
  BY <1>4 DEF Timeout, Patient, wordVars, workerVars, AllReported, Reported, Stuck, Serving,
              Exists, Dispatched
<1>5. CASE ReturnRuntimeFailure \/ ReturnStatus
  <2>1. hpc = "wait" /\ UNCHANGED <<pool, epoch, closed, wordVars, wpc, seen, acked>>
    BY <1>5 DEF ReturnRuntimeFailure, ReturnStatus, Fail
  <2>2. CASE Poison
    BY <2>1, <2>2 DEF Poison, wordVars
  <2>3. CASE Restart /\ pool.recovery = "RestartWorkers"
    <3>1. ~ Js' /\ hpc' = "start" /\ TimeoutOnlyIfClosed'
      BY <2>1, <2>3 DEF Restart, NoJsRestart
    <3>2. ~ closed => Starting'
      BY <2>1, <2>3, <3>1 DEF Restart, Terminate, Starting, Old, Exists, Dispatched, Worker
    <3> QED
      BY <2>1, <3>1, <3>2 DEF wordVars
  <2>4. CASE Fail(FALSE) /\ AllReported /\ ~ RuntimeFailed /\ (Js \/ mode.api # "range")
    BY <2>1, <2>4 DEF Fail, wordVars, AllReported, RuntimeFailed, Reported, Dispatched, Rested,
                      UNKNOWN, RUNTIME_FAILED
  <2>5. pool.recovery # "PoisonPool" => pool.recovery = "RestartWorkers"
    BY LifecycleAssumption
  <2> QED
    BY <1>5, <2>2, <2>3, <2>4, <2>5
    DEF ReturnRuntimeFailure, ReturnStatus, Fail, Recover
<1> QED
  BY <1>1, <1>2, <1>3, <1>4, <1>5

LEMMA CloseHealthy == ASSUME LifeInv, HealthInv, Close PROVE HealthInv'
  BY DEF HealthInv, TimeoutOnlyIfClosed, Close

LEMMA WorkerHealthy ==
    ASSUME LifeInv, HealthInv, NEW w \in Worker, WorkerStep(w) PROVE HealthInv'
<1> USE LifecycleAssumption
    DEF LifeInv, TypeOK, Launching, HealthInv, TimeoutOnlyIfClosed, Js, Old, Exists, Launched,
        Starting, Initializing, AwaitingReady, Rested, Dispatched, Move, hostVars, wordVars
<1>1. CASE Boot(w)
  BY <1>1 DEF Boot
<1>2. CASE OnInit(w)
  BY <1>2 DEF OnInit
<1>3. CASE LoadEpoch(w)
  BY <1>3 DEF LoadEpoch
<1>4. CASE SayReady(w)
  BY <1>4 DEF SayReady
<1>5. CASE Ack(w)
  BY <1>5 DEF Ack
<1>6. CASE TakeUp(w)
  BY <1>6 DEF TakeUp
<1>7. CASE Finish(w)
  BY <1>7 DEF Finish, Answer
<1>8. CASE Throw(w)
  BY <1>8 DEF Throw, Answer
<1>9. CASE Gone(w)
  BY <1>9 DEF Gone
<1> QED
  BY <1>1, <1>2, <1>3, <1>4, <1>5, <1>6, <1>7, <1>8, <1>9 DEF WorkerStep

LEMMA HealthStep ==
    ASSUME Patient, NoJsRestart, LifeInv, HealthInv, [Next]_vars PROVE HealthInv'
<1>1. CASE UNCHANGED vars
  BY <1>1
  DEF vars, hostVars, wordVars, workerVars, HealthInv, TimeoutOnlyIfClosed, Launching, Js,
      Starting, Initializing, AwaitingReady, Old, Exists, Launched, Rested, Dispatched
<1> QED
  BY <1>1, LaunchHealthy, AbandonHealthy, DispatchHealthy, CloseHealthy, WorkerHealthy
  DEF Next, HostStep
LEMMA HealthInvHolds == ASSUME Patient, NoJsRestart PROVE Spec => [](LifeInv /\ HealthInv)
<1>1. Init => LifeInv /\ HealthInv
  BY LifeStarts, HealthStarts
<1>2. LifeInv /\ HealthInv /\ [Next]_vars => (LifeInv /\ HealthInv)'
  BY LifeStep, HealthStep
<1> QED
  BY <1>1, <1>2, PTL DEF Spec

(* A pool that takes calls has its full set of Workers, and each waits at   *)
(* the head of its loop for its next epoch, with no answer outstanding:     *)
(* whatever failed before has been recovered from.                          *)
THEOREM IdlePoolHealthyHolds ==
    ASSUME Patient, NoJsRestart PROVE Spec => []IdlePoolHealthy
<1>1. HealthInv => IdlePoolHealthy
  BY DEF HealthInv, IdlePoolHealthy, Rested, Serving, Exists
<1> QED
  BY <1>1, HealthInvHolds, PTL

(* A dispatch only times out because the pool was closed under it: neither *)
(* a failure nor a recovery leaves a Worker that never reports.            *)
THEOREM TimeoutOnlyIfClosedHolds ==
    ASSUME Patient, NoJsRestart PROVE Spec => []TimeoutOnlyIfClosed
<1>1. HealthInv => TimeoutOnlyIfClosed
  BY DEF HealthInv
<1> QED
  BY <1>1, HealthInvHolds, PTL
=============================================================================
