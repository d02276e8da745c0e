------------------------------ MODULE Dispatch ------------------------------
(***************************************************************************)
(* One pool of Mayo Workers executing data-parallel dispatches: the Host   *)
(* side (host_client.mbt start_run, wait_run, cancel_active and the        *)
(* Pool::run* callers) and the Worker loop (mayo.mbt run_dispatch_worker), *)
(* which share the control words of protocol.mbt in one SharedArrayBuffer. *)
(*                                                                         *)
(* Every Atomics access that another thread can observe is a step.         *)
(* A dispatch is started by writing the slots one word after the other     *)
(* (WriteWord) and publishing each slot by its epoch word (Publish).       *)
(* Bounds, all named: EpochMax and CancelMax are the widths of the two     *)
(* generation counters (2147483647 in the code; both wrap to 1 here as     *)
(* there), MaxCancels the calls of cancel_active during one dispatch and   *)
(* MaxTimeouts the consecutive dispatches that may time out.               *)
(***************************************************************************)
EXTENDS Partition, Sequences

CONSTANTS
    Capacity,       \* words of the shared data region
    Calls,          \* the dispatches the program may ask for
    Cuts,           \* the weightings the pool may have measured
    GuestKernels,   \* the kernel ids the guest artifact serves
    EpochMax, CancelMax, MaxCancels, MaxTimeouts,
    MayThrow        \* whether a kernel may throw

ASSUME DispatchAssumption ==
    /\ Capacity \in Nat
    /\ \A c \in Calls : /\ {c.start, c.end, c.kernel} \subseteq Int
                        /\ c.grain \in Nat
                        /\ c.api \in {"range", "kernel", "reduce"}
                        /\ c.api # "kernel" => c.grain = 0
    /\ \A b \in Cuts : IsWeighting(b)
    /\ EpochMax \in Nat \ {0, 1}
    /\ CancelMax \in Nat \ {0}
    /\ MaxCancels \in 0 .. CancelMax - 1
    /\ MaxTimeouts \in 0 .. EpochMax - 2
    /\ MayThrow \in BOOLEAN

OK == 0
UNKNOWN == -1
RUNTIME_FAILED == -3
CANCELLED == -4

Item == 0 .. Capacity - 1

(* The words of a control slot, but for the Worker's partial result, its   *)
(* elapsed time and STOP; "kernel" stands for kernel id, layout hash and   *)
(* argument, which always travel together.                                 *)
Word == {"epoch", "done", "start", "end", "kernel", "status", "cursor",
         "grain", "baseline"}

(* Mutants of WriteOrder: a slot keeps its old cursor, its old baseline.   *)
WriteOrderKeepsCursor == <<"start", "end", "kernel", "status", "grain",
                           "baseline", "epoch">>
WriteOrderKeepsBaseline == <<"start", "end", "kernel", "status", "cursor",
                             "grain", "epoch">>

(* The order in which start_run writes a slot, its epoch last. *)
WriteOrder == <<"start", "end", "kernel", "status", "cursor", "grain",
                "baseline", "epoch">>

(* The order in which a Worker that saw a new epoch reads its slot. *)
ReadOrder == <<"start", "end", "kernel", "grain", "baseline">>

VARIABLES
    ctl,        \* the control words: [Worker -> [Word -> Int]]
    partial,    \* CONTROL_RESULT: the kernel that stored a slot's result, and
                \* the items the result covers
    cancelSeq,  \* CONTROL_CANCEL_SEQUENCE, and the Host's cancel_sequence
    hpc,        \* Host: "idle", "write" (in start_run) or "wait" (in wait_run)
    slot,       \* Host: the slot start_run is writing
    step,       \* Host: the word of WriteOrder it writes next
    call,       \* Host: the arguments of the latest dispatch
    cuts,       \* Host: the weighting it is partitioned by
    epoch,      \* Host: Pool.epoch
    active,     \* Host: Pool.active_epoch
    failure,    \* Host: whether Pool.failure is set
    outcome,    \* Host: how the latest call ended
    collected,  \* Host: the partial results par_reduce combined, in order
    wpc,        \* Worker: control state
    seen,       \* Worker: seen_epoch
    nread,      \* Worker: how many words of ReadOrder it has read
    loc,        \* Worker: its copies of those words
    off,        \* Worker: offset of the victim it scans
    vend,       \* Worker: victim_end
    chunk,      \* Worker: the range it was last given or claimed
    wstatus,    \* Worker: the status it will report
    applied,    \* ghost: the kernels run on each item since start_run
    cancels,    \* ghost: calls of cancel_active during this dispatch
    late,       \* ghost: chunks each Worker claimed after the first of them
    timeouts    \* ghost: consecutive dispatches that timed out

hostVars == <<hpc, slot, step, call, cuts, epoch, active, failure, outcome,
              collected, timeouts>>
localVars == <<seen, nread, loc, off, vend, chunk, wstatus>>
workerVars == <<wpc, localVars>>
vars == <<ctl, partial, cancelSeq, hostVars, workerVars, applied, cancels,
          late>>

NoItems == <<0, 0>>
NoResult == [from |-> 0, to |-> 0, kernel |-> 0]
NoLocals == [f \in Word |-> 0]
NoCall == [start |-> 0, end |-> 0, kernel |-> 0, grain |-> 0, api |-> "kernel"]
Untouched == [i \in Item |-> <<>>]

(* A pool as Pool::create leaves it: every Worker has loaded its epoch     *)
(* word, reported -1 and is about to check for a dispatch.                 *)
Init ==
    /\ ctl = [w \in Worker |-> [f \in Word |-> IF f = "done" THEN -1 ELSE 0]]
    /\ partial = [w \in Worker |-> NoResult]
    /\ cancelSeq = 0
    /\ hpc = "idle" /\ slot = 0 /\ step = 1
    /\ call = NoCall /\ cuts \in Cuts
    /\ epoch = 0 /\ active = 0 /\ failure = FALSE
    /\ outcome = "none" /\ collected = <<>>
    /\ wpc = [w \in Worker |-> "check"]
    /\ seen = [w \in Worker |-> 0]
    /\ nread = [w \in Worker |-> 0]
    /\ loc = [w \in Worker |-> NoLocals]
    /\ off = [w \in Worker |-> 0]
    /\ vend = [w \in Worker |-> 0]
    /\ chunk = [w \in Worker |-> NoItems]
    /\ wstatus = [w \in Worker |-> OK]
    /\ applied = Untouched
    /\ cancels = 0 /\ late = [w \in Worker |-> 0] /\ timeouts = 0

-----------------------------------------------------------------------------
(* The Host.  start_run is synchronous code: once it has begun, nothing    *)
(* else happens on the Host until it has published the last slot.          *)

Valid(c) == 0 <= c.start /\ c.start <= c.end /\ c.end <= Capacity

(* Mutant of NextEpoch: the counter does not wrap. *)
NextEpochUnbounded(e) == e + 1

NextEpoch(e) == IF e = EpochMax THEN 1 ELSE e + 1
NextCancel(s) == IF s = CancelMax THEN 1 ELSE s + 1

(* What start_run writes into the slot of w. *)
Descriptor(w) ==
    LET start == WorkerStart(cuts, call.start, call.end, w)
    IN  [f \in Word |->
            CASE f = "start"    -> start
              [] f = "end"      -> WorkerEnd(cuts, call.start, call.end, w)
              [] f = "kernel"   -> call.kernel
              [] f = "cursor"   -> start
              [] f = "grain"    -> call.grain
              [] f = "baseline" -> cancelSeq
              [] f = "epoch"    -> epoch
              [] OTHER          -> OK]

(* start_run up to its loop; the weighting is whatever was measured by now. *)
Begin(c) ==
    /\ hpc = "idle" /\ ~failure /\ Valid(c)
    /\ epoch' = NextEpoch(epoch)
    /\ active' = epoch'
    /\ call' = c
    /\ cuts' \in Cuts
    /\ hpc' = "write" /\ slot' = 0 /\ step' = 1
    /\ outcome' = "none" /\ collected' = <<>>
    /\ applied' = Untouched
    /\ cancels' = 0 /\ late' = [w \in Worker |-> 0]
    /\ UNCHANGED <<ctl, partial, cancelSeq, failure, timeouts, workerVars>>

(* The checks at the top of start_run turn the call down. *)
Reject(c) ==
    /\ hpc = "idle" /\ (failure \/ ~Valid(c))
    /\ outcome' = IF failure THEN "failed" ELSE "invalid"
    /\ UNCHANGED <<ctl, partial, cancelSeq, hpc, slot, step, call, cuts, epoch,
                   active, failure, collected, timeouts, workerVars, applied,
                   cancels, late>>

(* One atomic_store of start_run's loop; CONTROL_RESULT is cleared with    *)
(* the status, before any word its owner waits for.                        *)
WriteWord ==
    LET f == WriteOrder[step] IN
    /\ hpc = "write" /\ f # "epoch"
    /\ ctl' = [ctl EXCEPT ![slot][f] = Descriptor(slot)[f]]
    /\ partial' = IF f = "status" THEN [partial EXCEPT ![slot] = NoResult]
                                  ELSE partial
    /\ step' = step + 1
    /\ UNCHANGED <<cancelSeq, hpc, slot, call, cuts, epoch, active, failure,
                   outcome, collected, timeouts, workerVars, applied, cancels,
                   late>>

(* Mutant of Publish: the parked Worker is not notified. *)
PublishSilently ==
    /\ hpc = "write" /\ WriteOrder[step] = "epoch"
    /\ ctl' = [ctl EXCEPT ![slot]["epoch"] = epoch]
    /\ slot' = slot + 1
    /\ step' = 1
    /\ hpc' = IF slot + 1 = N THEN "wait" ELSE "write"
    /\ UNCHANGED <<partial, cancelSeq, call, cuts, epoch, active, failure,
                   outcome, collected, timeouts, workerVars, applied, cancels,
                   late>>

(* The epoch word, and the notification of the Worker parked on it. *)
Publish ==
    /\ hpc = "write" /\ WriteOrder[step] = "epoch"
    /\ ctl' = [ctl EXCEPT ![slot]["epoch"] = epoch]
    /\ wpc' = [wpc EXCEPT ![slot] = IF @ = "parked" THEN "check" ELSE @]
    /\ slot' = slot + 1
    /\ step' = 1
    /\ hpc' = IF slot + 1 = N THEN "wait" ELSE "write"
    /\ UNCHANGED <<partial, cancelSeq, call, cuts, epoch, active, failure,
                   outcome, collected, timeouts, localVars, applied, cancels,
                   late>>

(* cancel_active, called by other Host code while the dispatch is awaited. *)
CancelActive ==
    /\ hpc = "wait" /\ active # 0 /\ cancels < MaxCancels
    /\ cancelSeq' = NextCancel(cancelSeq)
    /\ cancels' = cancels + 1
    /\ UNCHANGED <<ctl, partial, hostVars, workerVars, applied, late>>

(* Mutants of Reported and AllReported: the epoch the Host published is    *)
(* taken for the Worker's answer; one answer is taken for all.             *)
ReportedOnPublish(w) == ctl[w]["epoch"] = epoch
AnyReported == \E w \in Worker : ctl[w]["done"] = epoch

(* What one scan of wait_run sees.  A scan is not atomic, but during a     *)
(* dispatch a done word becomes the epoch once and stays, so a scan that   *)
(* finds a failure or no pending slot finds it at the state it ends in.    *)
Reported(w) == ctl[w]["done"] = epoch
RuntimeFailed == \E w \in Worker : /\ Reported(w)
                                   /\ ctl[w]["status"] = RUNTIME_FAILED
AllReported == \A w \in Worker : Reported(w)

(* first_failed_status: the status of the lowest slot that is not OK. *)
FailedStatus == LET bad == {w \in Worker : ctl[w]["status"] # OK}
                IN  IF bad = {} THEN OK
                    ELSE ctl[CHOOSE w \in bad : \A v \in bad : w <= v]["status"]

(* The dispatch ends with outcome o and finish_run.  Poisoning the pool    *)
(* tells all of its Workers to terminate, which takes effect in Gone:      *)
(* until then they go on.                                                  *)
Return(o, poison) ==
    /\ hpc' = "idle" /\ active' = 0
    /\ outcome' = o
    /\ failure' = poison
    /\ UNCHANGED <<ctl, partial, cancelSeq, slot, step, call, cuts, epoch,
                   workerVars, applied, cancels, late>>

ReturnRuntimeFailure ==
    /\ hpc = "wait" /\ RuntimeFailed
    /\ Return("failed", TRUE)
    /\ timeouts' = 0
    /\ UNCHANGED collected

(* Only Pool::run and run_async poison the pool for a status that is not a *)
(* runtime failure.                                                        *)
ReturnStatus ==
    /\ hpc = "wait" /\ AllReported /\ ~RuntimeFailed /\ FailedStatus # OK
    /\ Return(IF FailedStatus = CANCELLED THEN "cancelled" ELSE "failed",
              call.api = "range")
    /\ timeouts' = 0
    /\ UNCHANGED collected

(* What par_reduce has combined of the slots before n: the results of those *)
(* with a nonempty range, in ascending order.                              *)
Combined[n \in 0 .. N] ==
    IF n = 0 THEN <<>>
    ELSE IF ctl[n - 1]["start"] < ctl[n - 1]["end"]
         THEN Append(Combined[n - 1], partial[n - 1])
         ELSE Combined[n - 1]

ReturnOk ==
    /\ hpc = "wait" /\ AllReported /\ FailedStatus = OK
    /\ Return("ok", FALSE)
    /\ timeouts' = 0
    /\ collected' = IF call.api = "reduce" THEN Combined[N] ELSE collected

(* The deadline passes while some slot is pending; the permit is released. *)
Timeout ==
    /\ hpc = "wait" /\ ~AllReported /\ ~RuntimeFailed
    /\ timeouts < MaxTimeouts
    /\ Return("timeout", FALSE)
    /\ timeouts' = timeouts + 1
    /\ UNCHANGED collected

Poll == ReturnRuntimeFailure \/ ReturnStatus \/ ReturnOk

-----------------------------------------------------------------------------
(* A Worker. *)

Goto(w, pc) == wpc' = [wpc EXCEPT ![w] = pc]

(* Mutant of Park: it does not compare the word again before it parks. *)
ParkBlindly(w) ==
    /\ wpc[w] = "check"
    /\ Goto(w, "parked")
    /\ UNCHANGED <<ctl, partial, cancelSeq, hostVars, localVars, applied,
                   cancels, late>>

(* Atomics.wait parks only while the word still has the seen value. *)
Park(w) ==
    /\ wpc[w] = "check" /\ ctl[w]["epoch"] = seen[w]
    /\ Goto(w, "parked")
    /\ UNCHANGED <<ctl, partial, cancelSeq, hostVars, localVars, applied,
                   cancels, late>>

(* The new epoch; the STOP word is zero until the pool is closed. *)
Observe(w) ==
    /\ wpc[w] = "check" /\ ctl[w]["epoch"] # seen[w]
    /\ seen' = [seen EXCEPT ![w] = ctl[w]["epoch"]]
    /\ Goto(w, "read")
    /\ UNCHANGED <<ctl, partial, cancelSeq, hostVars, nread, loc, off, vend,
                   chunk, wstatus, applied, cancels, late>>

ReadWord(w) ==
    /\ wpc[w] = "read" /\ nread[w] < Len(ReadOrder)
    /\ LET f == ReadOrder[nread[w] + 1] IN
       loc' = [loc EXCEPT ![w][f] = ctl[w][f]]
    /\ nread' = [nread EXCEPT ![w] = @ + 1]
    /\ UNCHANGED <<ctl, partial, cancelSeq, hostVars, wpc, seen, off, vend,
                   chunk, wstatus, applied, cancels, late>>

(* A zero grain: the slot's range is one kernel call. *)
StartStatic(w) ==
    /\ wpc[w] = "read" /\ nread[w] = Len(ReadOrder) /\ loc[w]["grain"] <= 0
    /\ chunk' = [chunk EXCEPT ![w] = <<loc[w]["start"], loc[w]["end"]>>]
    /\ Goto(w, "kernel")
    /\ UNCHANGED <<ctl, partial, cancelSeq, hostVars, seen, nread, loc, off,
                   vend, wstatus, applied, cancels, late>>

StartDynamic(w) ==
    /\ wpc[w] = "read" /\ nread[w] = Len(ReadOrder) /\ loc[w]["grain"] > 0
    /\ Goto(w, "victim")
    /\ UNCHANGED <<ctl, partial, cancelSeq, hostVars, localVars, applied,
                   cancels, late>>

Victim(w) == (w + off[w]) % N

(* The next shard to take chunks from, or none is left. *)
NextVictim(w) ==
    /\ wpc[w] = "victim"
    /\ IF off[w] < N
       THEN /\ vend' = [vend EXCEPT ![w] = ctl[Victim(w)]["end"]]
            /\ Goto(w, "poll")
       ELSE /\ Goto(w, "result")
            /\ UNCHANGED vend
    /\ UNCHANGED <<ctl, partial, cancelSeq, hostVars, seen, nread, loc, off,
                   chunk, wstatus, applied, cancels, late>>

(* Mutant of CancelSeen: the sequence is assumed never to wrap. *)
CancelSeenIfGreater(w) == cancelSeq > loc[w]["baseline"]

CancelSeen(w) == cancelSeq # loc[w]["baseline"]

(* The cancellation check at the top of the claim loop. *)
CheckCancel(w) ==
    /\ wpc[w] = "poll"
    /\ IF CancelSeen(w)
       THEN /\ wstatus' = [wstatus EXCEPT ![w] = CANCELLED]
            /\ Goto(w, "result")
       ELSE /\ Goto(w, "claim")
            /\ UNCHANGED wstatus
    /\ UNCHANGED <<ctl, partial, cancelSeq, hostVars, seen, nread, loc, off,
                   vend, chunk, applied, cancels, late>>

(* atomic_claim_chunk, at its successful compareExchange. *)
Claim(w) ==
    LET v    == Victim(w)
        from == ctl[v]["cursor"]
        next == from + loc[w]["grain"]
        to   == IF next < vend[w] THEN next ELSE vend[w]
    IN  /\ wpc[w] = "claim" /\ from < vend[w]
        /\ ctl' = [ctl EXCEPT ![v]["cursor"] = to]
        /\ chunk' = [chunk EXCEPT ![w] = <<from, to>>]
        /\ late' = [late EXCEPT ![w] = IF cancels > 0 THEN @ + 1 ELSE @]
        /\ Goto(w, "kernel")
        /\ UNCHANGED <<partial, cancelSeq, hostVars, seen, nread, loc, off,
                       vend, wstatus, applied, cancels>>

(* The cursor is past the victim's end. *)
Exhausted(w) ==
    /\ wpc[w] = "claim" /\ ctl[Victim(w)]["cursor"] >= vend[w]
    /\ off' = [off EXCEPT ![w] = @ + 1]
    /\ Goto(w, "victim")
    /\ UNCHANGED <<ctl, partial, cancelSeq, hostVars, seen, nread, loc, vend,
                   chunk, wstatus, applied, cancels, late>>

(* The kernel w runs has been run on the items before upto of its chunk. *)
ApplyUpTo(w, upto) ==
    applied' = [i \in Item |-> IF i \in Items(chunk[w][1], upto)
                               THEN Append(applied[i], loc[w]["kernel"])
                               ELSE applied[i]]

(* The kernel returns.  In the dynamic mode the cancel sequence is read    *)
(* once more before the next chunk.                                        *)
KernelReturns(w) ==
    /\ wpc[w] = "kernel" /\ loc[w]["kernel"] \in GuestKernels
    /\ ApplyUpTo(w, chunk[w][2])
    /\ IF loc[w]["grain"] > 0
       THEN IF CancelSeen(w)
            THEN /\ wstatus' = [wstatus EXCEPT ![w] = CANCELLED]
                 /\ Goto(w, "result")
            ELSE /\ Goto(w, "poll")
                 /\ UNCHANGED wstatus
       ELSE /\ Goto(w, "result")
            /\ UNCHANGED wstatus
    /\ UNCHANGED <<ctl, partial, cancelSeq, hostVars, seen, nread, loc, off,
                   vend, chunk, cancels, late>>

(* Mutant of KernelUnknown: a missing entry is not an error. *)
KernelUnknownIgnored(w) ==
    /\ wpc[w] = "kernel" /\ loc[w]["kernel"] \notin GuestKernels
    /\ Goto(w, "result")
    /\ UNCHANGED <<ctl, partial, cancelSeq, hostVars, localVars, applied,
                   cancels, late>>

(* No entry of the guest has the kernel id and the layout hash. *)
KernelUnknown(w) ==
    /\ wpc[w] = "kernel" /\ loc[w]["kernel"] \notin GuestKernels
    /\ wstatus' = [wstatus EXCEPT ![w] = UNKNOWN]
    /\ Goto(w, "result")
    /\ UNCHANGED <<ctl, partial, cancelSeq, hostVars, seen, nread, loc, off,
                   vend, chunk, applied, cancels, late>>

(* The kernel throws, somewhere in its chunk. *)
KernelThrows(w) ==
    /\ MayThrow
    /\ wpc[w] = "kernel" /\ loc[w]["kernel"] \in GuestKernels
    /\ \E upto \in chunk[w][1] .. chunk[w][2] : ApplyUpTo(w, upto)
    /\ Goto(w, "catch")
    /\ UNCHANGED <<ctl, partial, cancelSeq, hostVars, localVars, cancels, late>>

(* The handler of install_atomic_worker reports the failure for the epoch  *)
(* word as it finds it.                                                    *)
Catch(w) ==
    /\ wpc[w] = "catch"
    /\ seen' = [seen EXCEPT ![w] = ctl[w]["epoch"]]
    /\ wstatus' = [wstatus EXCEPT ![w] = RUNTIME_FAILED]
    /\ Goto(w, "status")
    /\ UNCHANGED <<ctl, partial, cancelSeq, hostVars, nread, loc, off, vend,
                   chunk, applied, cancels, late>>

StoreResult(w) ==
    /\ wpc[w] = "result"
    /\ partial' = [partial EXCEPT ![w] =
                      IF wstatus[w] = UNKNOWN THEN NoResult
                      ELSE [from |-> chunk[w][1], to |-> chunk[w][2],
                            kernel |-> loc[w]["kernel"]]]
    /\ Goto(w, "status")
    /\ UNCHANGED <<ctl, cancelSeq, hostVars, localVars, applied, cancels, late>>

StoreStatus(w) ==
    /\ wpc[w] = "status"
    /\ ctl' = [ctl EXCEPT ![w]["status"] = wstatus[w]]
    /\ Goto(w, "done")
    /\ UNCHANGED <<partial, cancelSeq, hostVars, localVars, applied, cancels,
                   late>>

(* Mutant of StoreDone: it answers with the epoch word as it is now. *)
StoreDoneForCurrent(w) ==
    /\ wpc[w] = "done"
    /\ ctl' = [ctl EXCEPT ![w]["done"] = ctl[w]["epoch"]]
    /\ Goto(w, IF wstatus[w] = RUNTIME_FAILED THEN "dead" ELSE "check")
    /\ nread' = [nread EXCEPT ![w] = 0]
    /\ loc' = [loc EXCEPT ![w] = NoLocals]
    /\ off' = [off EXCEPT ![w] = 0]
    /\ vend' = [vend EXCEPT ![w] = 0]
    /\ chunk' = [chunk EXCEPT ![w] = NoItems]
    /\ wstatus' = [wstatus EXCEPT ![w] = OK]
    /\ UNCHANGED <<partial, cancelSeq, hostVars, seen, applied, cancels, late>>

(* The done word.  The loop's locals end here; a Worker that reported a    *)
(* runtime failure has left the loop.                                      *)
StoreDone(w) ==
    /\ wpc[w] = "done"
    /\ ctl' = [ctl EXCEPT ![w]["done"] = seen[w]]
    /\ Goto(w, IF wstatus[w] = RUNTIME_FAILED THEN "dead" ELSE "check")
    /\ nread' = [nread EXCEPT ![w] = 0]
    /\ loc' = [loc EXCEPT ![w] = NoLocals]
    /\ off' = [off EXCEPT ![w] = 0]
    /\ vend' = [vend EXCEPT ![w] = 0]
    /\ chunk' = [chunk EXCEPT ![w] = NoItems]
    /\ wstatus' = [wstatus EXCEPT ![w] = OK]
    /\ UNCHANGED <<partial, cancelSeq, hostVars, seen, applied, cancels, late>>

(* Worker.terminate() takes effect, wherever the Worker is.                *)
Gone(w) ==
    /\ failure /\ wpc[w] # "dead"
    /\ Goto(w, "dead")
    /\ UNCHANGED <<ctl, partial, cancelSeq, hostVars, localVars, applied,
                   cancels, late>>

WorkerStep(w) ==
    \/ Park(w) \/ Observe(w) \/ ReadWord(w) \/ StartStatic(w)
    \/ StartDynamic(w) \/ NextVictim(w) \/ CheckCancel(w) \/ Claim(w)
    \/ Exhausted(w) \/ KernelReturns(w) \/ KernelUnknown(w) \/ KernelThrows(w)
    \/ Catch(w) \/ StoreResult(w) \/ StoreStatus(w) \/ StoreDone(w)
    \/ Gone(w)

HostStep == WriteWord \/ Publish \/ Poll

Next ==
    \/ \E c \in Calls : Begin(c) \/ Reject(c)
    \/ HostStep
    \/ CancelActive
    \/ Timeout
    \/ \E w \in Worker : WorkerStep(w)

Spec == Init /\ [][Next]_vars

(* The Host's thread and every Worker's run when they can.  Nothing makes  *)
(* the program dispatch, cancel, or a deadline pass.                       *)
Fairness == WF_vars(HostStep) /\ \A w \in Worker : WF_vars(WorkerStep(w))

FairSpec == Spec /\ Fairness

-----------------------------------------------------------------------------
(* What the protocol promises. *)

WorkerPc == {"check", "parked", "read", "victim", "poll", "claim", "kernel",
             "catch", "result", "status", "done", "dead"}
Outcome == {"none", "ok", "cancelled", "failed", "timeout", "invalid"}
Status == {OK, UNKNOWN, RUNTIME_FAILED, CANCELLED}

MemoryTypeOK ==
    /\ ctl \in [Worker -> [Word -> Int]]
    /\ cancelSeq \in 0 .. CancelMax

HostTypeOK ==
    /\ hpc \in {"idle", "write", "wait"}
    /\ slot \in 0 .. N /\ step \in 1 .. Len(WriteOrder)
    /\ (hpc = "write") => slot \in Worker
    /\ call \in Calls \cup {NoCall} /\ cuts \in Cuts
    /\ epoch \in 0 .. EpochMax /\ active \in 0 .. EpochMax
    /\ failure \in BOOLEAN
    /\ outcome \in Outcome
    /\ cancels \in 0 .. MaxCancels
    /\ timeouts \in 0 .. MaxTimeouts

(* A Worker that looks at a shard looks at one that exists. *)
ControlTypeOK ==
    /\ wpc \in [Worker -> WorkerPc]
    /\ off \in [Worker -> 0 .. N]
    /\ \A w \in Worker : off[w] = N => wpc[w] \in {"victim", "result",
                                                 "status", "done", "dead"}

LocalTypeOK ==
    /\ seen \in [Worker -> Int]
    /\ nread \in [Worker -> 0 .. Len(ReadOrder)]
    /\ loc \in [Worker -> [Word -> Int]]
    /\ vend \in [Worker -> Int]
    /\ chunk \in [Worker -> Int \X Int]
    /\ wstatus \in [Worker -> Status]

(* The shapes of all variables. *)
TypeOK == MemoryTypeOK /\ HostTypeOK /\ ControlTypeOK /\ LocalTypeOK

(* The items of the latest dispatch. *)
Batch == Items(call.start, call.end)

Succeeded == hpc = "idle" /\ outcome = "ok"

(* A dispatch that succeeds has run its kernel on every item of its range  *)
(* exactly once, no other kernel on any item, and nothing outside of it.   *)
ExactlyOnce ==
    Succeeded => \A i \in Item :
                    applied[i] = IF i \in Batch THEN <<call.kernel>> ELSE <<>>

(* A dispatch that succeeds has run its kernel on every item of its range  *)
(* (par_chunks: chunks are claimed "until the range is exhausted").        *)
Covered ==
    Succeeded => \A i \in Batch : call.kernel \in {applied[i][k] :
                                                    k \in DOMAIN applied[i]}

(* "Dispatched worker ranges never overlap, so this access is deliberately *)
(* non-atomic" (SharedSlice::load and store): no item is in the running    *)
(* chunks of two Workers.                                                  *)
RangesNeverOverlap ==
    \A v, w \in Worker :
        v # w /\ wpc[v] = "kernel" /\ wpc[w] = "kernel"
            => Items(chunk[v][1], chunk[v][2]) \cap
               Items(chunk[w][1], chunk[w][2]) = {}

(* A Worker that waits for its next dispatch, or never will again. *)
Quiet(w) == \/ wpc[w] \in {"check", "parked"} /\ seen[w] = ctl[w]["epoch"]
            \/ wpc[w] = "dead"

(* "The Host waits for every Worker before reusing a slot": while          *)
(* start_run writes a slot, the Worker it belongs to is not running an     *)
(* earlier dispatch.                                                       *)
SlotsReusedQuiet ==
    hpc = "write" => \A w \in slot .. N - 1 : Quiet(w)

(* Why it holds when no dispatch times out: a slot the Host has settled,   *)
(* is about to write, or has published to a Worker that may be at work.    *)
(* The slots of a poisoned pool stay as they were published.               *)
Settled(w) == /\ ctl[w]["epoch"] = epoch
              /\ ctl[w]["done"] \in {-1, epoch}
              /\ Quiet(w)

Fresh(w) == /\ ctl[w]["epoch"] # epoch
            /\ ctl[w]["done"] # epoch
            /\ Quiet(w)

Published(w) == /\ ctl[w]["epoch"] = epoch
                /\ seen[w] = epoch \/ wpc[w] \in {"check", "dead"}
                /\ ctl[w]["done"] = epoch => Quiet(w)

SlotInv ==
    /\ failure => hpc = "idle"
    /\ hpc = "idle" /\ ~failure => \A w \in Worker : Settled(w)
    /\ hpc = "write" => \A w \in Worker : IF w < slot THEN Published(w)
                                          ELSE Fresh(w)
    /\ hpc = "wait" \/ failure => \A w \in Worker : Published(w)

(* A dispatch is reported cancelled only if cancel_active was called while *)
(* it ran: a cancellation never leaks into the next dispatch.              *)
CancelledOnRequest == hpc = "idle" /\ outcome = "cancelled" => cancels > 0

(* Cancellation is observed between chunks: once it is requested, a Worker *)
(* takes at most the one chunk whose check it had already passed.          *)
PromptCancel == \A w \in Worker : late[w] <= 1

(* par_reduce combines partial results of its own kernel that cover the    *)
(* range from its start to its end, each item once and in ascending order. *)
ReduceTiles ==
    Succeeded /\ call.api = "reduce" =>
        LET n == Len(collected) IN
        /\ n = 0 <=> call.start = call.end
        /\ n > 0 => collected[1].from = call.start /\ collected[n].to = call.end
        /\ \A k \in 1 .. n - 1 : collected[k].to = collected[k + 1].from
        /\ \A k \in 1 .. n : collected[k].kernel = call.kernel

(* A dispatch during which a kernel threw, or which no guest entry served, *)
(* is never reported as a success.                                         *)
FailureReported ==
    Succeeded => /\ \A w \in Worker : wpc[w] # "dead"
                 /\ call.kernel \in GuestKernels

(* Every dispatch returns. *)
DispatchReturns == (hpc # "idle") ~> (hpc = "idle")

(* A Worker that has been given a dispatch answers it, with its epoch, or   *)
(* is gone: no notification is lost, also when the Host has not waited for  *)
(* the answer because another Worker failed.                               *)
NoLostWakeup ==
    \A w \in Worker, e \in 1 .. EpochMax :
        (ctl[w]["epoch"] = e /\ seen[w] # e) ~> (ctl[w]["done"] = e
                                                   \/ wpc[w] = "dead")

(* The dispatch as its caller sees it: see ParallelBatch. *)
PB == INSTANCE ParallelBatch WITH running <- hpc # "idle", poisoned <- failure
Refinement == PB!Spec
=============================================================================
