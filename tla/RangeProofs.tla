---------------------------- MODULE RangeProofs ----------------------------
(***************************************************************************)
(* What a call that succeeds has run, for any number of Workers, any calls *)
(* and any weights, with kernels that throw or are not served, as long as  *)
(* no dispatch times out.  Of calls that are partitioned statically        *)
(* (par_for, par_reduce, run and the kernel calls without a grain): every  *)
(* item of the range exactly once.  Of all calls, dynamic ones with their  *)
(* stealing included: every item.                                          *)
(***************************************************************************)
EXTENDS DispatchProofs

AllStatic == \A c \in Calls : c.grain = 0

(* A dispatch is in progress, or has poisoned the pool: then the Workers    *)
(* that have been told to terminate may still be at it.                     *)
Live == hpc # "idle" \/ failure

(* The items of w in the dispatch in progress. *)
Mine(w) == Share(cuts, call.start, call.end, w)

(* w has yet to run the kernel of the dispatch; it has run it, well.        *)
Before(w) == \/ wpc[w] \in {"read", "kernel"}
             \/ wpc[w] \in {"check", "parked"} /\ seen[w] # epoch

After(w) == \/ wpc[w] \in {"result", "status", "done"} /\ wstatus[w] = OK
            \/ /\ wpc[w] \in {"check", "parked"} /\ seen[w] = epoch
               /\ ctl[w]["status"] = OK

(* The items a Worker is given are untouched before it runs the kernel on   *)
(* them and done after; nobody touches an item outside the range.           *)
InRange == /\ call \in Calls /\ Valid(call)
           /\ \A i \in Item \ Batch : applied[i] = <<>>

Doing(w) == /\ Before(w) => \A i \in Mine(w) : applied[i] = <<>>
            /\ After(w) => /\ call.kernel \in GuestKernels
                           /\ \A i \in Mine(w) : applied[i] = <<call.kernel>>

OnePiece(w) ==
    /\ wpc[w] \notin {"victim", "poll", "claim"}
    /\ wpc[w] = "kernel" => chunk[w] = <<ctl[w]["start"], ctl[w]["end"]>>

StaticInv ==
    /\ Live => InRange
    /\ \A w \in Worker : OnePiece(w) /\ (Live => Doing(w))
    /\ Succeeded => Batch \subseteq Item
    /\ ExactlyOnce /\ FailureReported

Inv == DispatchInv /\ StaticInv

(* The shares of a valid call are items of the buffer, each item of the     *)
(* range in one of them.                                                    *)
LEMMA SharesOfCall ==
    ASSUME NEW b \in Cuts, NEW c \in Calls, Valid(c)
    PROVE  /\ Items(c.start, c.end) \subseteq Item
           /\ \A w \in Worker : Share(b, c.start, c.end, w) \subseteq Items(c.start, c.end)
           /\ \A v, w \in Worker : v # w =>
                 Share(b, c.start, c.end, v) \cap Share(b, c.start, c.end, w) = {}
           /\ \A i \in Items(c.start, c.end) :
                 \E w \in Worker : i \in Share(b, c.start, c.end, w)
<1>1. c.start \in Int /\ c.end \in Int /\ IsWeighting(b) /\ Capacity \in Nat
    BY DispatchAssumption
<1>2. c.start <= c.end /\ 0 <= c.start /\ c.end <= Capacity
    BY DEF Valid
<1>3. /\ \A v, w \in Worker : v # w =>
            Share(b, c.start, c.end, v) \cap Share(b, c.start, c.end, w) = {}
      /\ UNION {Share(b, c.start, c.end, w) : w \in Worker} = Items(c.start, c.end)
    BY <1>1, <1>2, SharesTile
<1>4. Items(c.start, c.end) \subseteq Item
    BY <1>1, <1>2 DEF Items, Item
<1> QED
    BY <1>3, <1>4

(* The same of the dispatch in progress.                                    *)
LEMMA MineTile ==
    ASSUME Inv, Live
    PROVE  /\ Batch \subseteq Item
           /\ \A w \in Worker : Mine(w) \subseteq Batch
           /\ \A v, w \in Worker : v # w => Mine(v) \cap Mine(w) = {}
           /\ \A i \in Batch : \E w \in Worker : i \in Mine(w)
<1>1. cuts \in Cuts /\ call \in Calls /\ Valid(call)
    BY DEF Inv, DispatchInv, TypeOK, HostTypeOK, StaticInv, InRange
<1> QED
    BY <1>1, SharesOfCall DEF Mine, Batch

(* A Worker past its reading has the words of its slot, which are those of  *)
(* its share.                                                               *)
LEMMA WorksOnCall ==
    ASSUME DispatchInv, NEW w \in Worker, wpc[w] \in Busy, nread[w] = 5
    PROVE  /\ Mine(w) = Items(ctl[w]["start"], ctl[w]["end"])
           /\ ctl[w]["end"] = Descriptor(w)["end"]
           /\ loc[w]["start"] = ctl[w]["start"] /\ loc[w]["end"] = ctl[w]["end"]
           /\ loc[w]["kernel"] = call.kernel /\ loc[w]["grain"] = call.grain
<1>1. Given(w)
    BY BusyIsOut DEF DispatchInv, HandOver, SlotHolds
<1>2. \A k \in 1 .. 5 : loc[w][ReadOrder[k]] = ctl[w][ReadOrder[k]]
    BY DEF DispatchInv, HandOver, CopyAgrees
<1>3. \A f \in Arguments : loc[w][f] = ctl[w][f]
    BY <1>2, ReadOrderWords
<1> QED
    BY <1>1, <1>3 DEF Given, Descriptor, Arguments, Word, Mine, Share

LEMMA WorksOnMine ==
    ASSUME Inv, Live, NEW w \in Worker, wpc[w] \in Busy, nread[w] = 5
    PROVE  /\ Mine(w) = Items(ctl[w]["start"], ctl[w]["end"])
           /\ loc[w]["start"] = ctl[w]["start"] /\ loc[w]["end"] = ctl[w]["end"]
           /\ loc[w]["kernel"] = call.kernel /\ loc[w]["grain"] = call.grain
    BY WorksOnCall DEF Inv

(* Between dispatches a Worker can only park.                               *)
LEMMA IdleParks ==
    ASSUME DispatchInv, NEW w \in Worker, WorkerStep(w), ~Live
    PROVE  Park(w)
<1>1. wpc[w] # "dead"
    BY DeadStops
<1>2. Settled(w)
    BY DEF DispatchInv, SlotInv, Live
<1>3. wpc[w] \in {"check", "parked"} /\ seen[w] = ctl[w]["epoch"]
    BY <1>1, <1>2 DEF Settled, Quiet
<1> QED
    BY <1>3 DEF WorkerStep, Observe, ReadWord, StartStatic, StartDynamic,
       NextVictim, CheckCancel, Claim, Exhausted, KernelReturns,
       KernelUnknown, KernelThrows, Catch, StoreResult, StoreStatus, StoreDone,
       Gone, Live

(* During a dispatch nobody schedules dynamically.                          *)
LEMMA StaticSteps ==
    ASSUME AllStatic, Inv, NEW w \in Worker, WorkerStep(w)
    PROVE  \/ Park(w)
           \/ /\ Live
              /\ \/ Observe(w) \/ ReadWord(w) \/ StartStatic(w)
                 \/ KernelReturns(w) \/ KernelUnknown(w) \/ KernelThrows(w)
                 \/ Catch(w) \/ StoreResult(w) \/ StoreStatus(w) \/ StoreDone(w)
                 \/ Gone(w)
<1>2. CASE ~Live
    BY <1>2, IdleParks DEF Inv
<1>3. CASE Live
    <2>1. ~StartDynamic(w)
        <3> SUFFICES ASSUME StartDynamic(w) PROVE FALSE
            OBVIOUS
        <3>1. wpc[w] \in Busy /\ nread[w] = 5 /\ loc[w]["grain"] > 0
            BY ReadOrderType DEF StartDynamic, Busy, WorkerPc
        <3>2. loc[w]["grain"] = call.grain
            BY <1>3, <3>1, WorksOnMine
        <3>3. call.grain = 0
            BY <1>3 DEF Inv, StaticInv, InRange, AllStatic
        <3> QED
            BY <3>1, <3>2, <3>3
    <2>2. wpc[w] \notin {"victim", "poll", "claim"}
        BY DEF Inv, StaticInv, OnePiece
    <2> QED
        BY <1>3, <2>1, <2>2
        DEF WorkerStep, NextVictim, CheckCancel, Claim, Exhausted
<1> QED
    BY <1>2, <1>3

(* A Worker applies the kernel of the dispatch, to items of its own.        *)
AppliesTo(S) == applied' = [i \in Item |-> IF i \in S THEN Append(applied[i], call.kernel)
                                           ELSE applied[i]]

LEMMA KernelAppliesToMine ==
    ASSUME Inv, Live, NEW w \in Worker
    PROVE  /\ KernelReturns(w) => AppliesTo(Mine(w))
           /\ KernelThrows(w) => \E S \in SUBSET Mine(w) : AppliesTo(S)
<1> SUFFICES ASSUME wpc[w] = "kernel"
             PROVE  /\ KernelReturns(w) => AppliesTo(Mine(w))
                    /\ KernelThrows(w) => \E S \in SUBSET Mine(w) : AppliesTo(S)
    BY DEF KernelReturns, KernelThrows
<1>1. wpc[w] \in Busy /\ nread[w] = 5
    BY DEF Busy, WorkerPc, Inv, DispatchInv, HandOver, CopyAgrees
<1>2. /\ chunk[w][1] = ctl[w]["start"] /\ chunk[w][2] = ctl[w]["end"]
    BY DEF Inv, StaticInv, OnePiece
<1>3. Mine(w) = Items(chunk[w][1], chunk[w][2]) /\ loc[w]["kernel"] = call.kernel
    BY <1>1, <1>2, WorksOnMine
<1>4. chunk[w][1] \in Int /\ chunk[w][2] \in Int
    BY DEF Inv, DispatchInv, TypeOK, LocalTypeOK
<1>5. ASSUME NEW upto \in chunk[w][1] .. chunk[w][2]
      PROVE  Items(chunk[w][1], upto) \in SUBSET Mine(w)
    BY <1>3, <1>4 DEF Items
<1> QED
    BY <1>3, <1>5 DEF KernelReturns, KernelThrows, ApplyUpTo, AppliesTo
-----------------------------------------------------------------------------
(* When the Host finds every slot reported without a failure, every Worker  *)
(* has run the kernel on its share.                                         *)
LEMMA AllDone ==
    ASSUME Inv, hpc = "wait", AllReported, FailedStatus = OK
    PROVE  /\ \A i \in Item : applied[i] = IF i \in Batch THEN <<call.kernel>>
                                          ELSE <<>>
           /\ \A w \in Worker : wpc[w] # "dead"
           /\ call.kernel \in GuestKernels
<1>1. ASSUME NEW w \in Worker
      PROVE  After(w) /\ wpc[w] # "dead"
    <2>1. ctl[w]["status"] = OK /\ ctl[w]["done"] = epoch
        BY FailedStatusFound DEF AllReported, Reported
    <2>2. Quiet(w) /\ ctl[w]["epoch"] = epoch
        BY <2>1 DEF Inv, DispatchInv, SlotInv, Published
    <2>3. wpc[w] # "dead"
        BY <2>1 DEF Inv, DispatchInv, HandOver, DeathReported, OK, RUNTIME_FAILED
    <2> QED
        BY <2>1, <2>2, <2>3 DEF After, Quiet
<1>2. \A w \in Worker : /\ call.kernel \in GuestKernels
                        /\ \A i \in Mine(w) : applied[i] = <<call.kernel>>
    BY <1>1 DEF Inv, StaticInv, Doing, Live
<1>3. \A i \in Batch : applied[i] = <<call.kernel>>
    BY <1>2, MineTile DEF Live
<1>4. \A i \in Item \ Batch : applied[i] = <<>>
    BY DEF Inv, StaticInv, InRange, Live
<1>5. 0 \in Worker
    BY NAssumption DEF Worker
<1> QED
    BY <1>1, <1>2, <1>3, <1>4, <1>5

LEMMA HostStaticInv ==
    ASSUME MaxTimeouts = 0, Inv,
           \/ \E c \in Calls : Begin(c) \/ Reject(c)
           \/ HostStep \/ CancelActive \/ Timeout
    PROVE  StaticInv'
<1>0. /\ MemoryTypeOK /\ HostTypeOK /\ ControlTypeOK /\ LocalTypeOK
      /\ SlotInv /\ HandOver /\ StaticInv
    BY DEF Inv, DispatchInv, TypeOK
<1> USE DEF workerVars, localVars, hostVars
<1>a. ASSUME hpc' # "idle" PROVE ~Succeeded' /\ ExactlyOnce' /\ FailureReported'
    BY <1>a DEF Succeeded, ExactlyOnce, FailureReported
<1>c. hpc # "idle" => Live /\ ~failure
    BY <1>0 DEF SlotInv, Live
<1>b. ASSUME outcome' # "ok" PROVE ~Succeeded' /\ ExactlyOnce' /\ FailureReported'
    BY <1>b DEF Succeeded, ExactlyOnce, FailureReported
<1>1. ASSUME NEW c \in Calls, Begin(c) PROVE StaticInv'
    <2>1. /\ hpc = "idle" /\ ~failure /\ Valid(c) /\ call' = c /\ cuts' \in Cuts
          /\ hpc' = "write" /\ applied' = Untouched /\ epoch' = NextEpoch(epoch)
          /\ UNCHANGED <<ctl, failure, workerVars>>
        BY <1>1 DEF Begin
    <2>2. /\ Batch' \subseteq Item
          /\ \A w \in Worker : Mine(w)' \subseteq Batch'
        BY <2>1, SharesOfCall DEF Mine, Batch
    <2>3. InRange'
        BY <2>1 DEF InRange, Valid, Untouched
    <2>4. ASSUME NEW w \in Worker PROVE OnePiece(w)' /\ Doing(w)'
        <3>1. Settled(w) /\ epoch' # epoch
            BY <1>0, <2>1, NextEpochFresh DEF SlotInv, HostTypeOK
        <3>2. \/ wpc'[w] \in {"check", "parked", "dead"} /\ seen'[w] # epoch'
              \/ wpc'[w] = "dead"
            BY <2>1, <3>1 DEF Settled, Quiet
        <3>3. ~After(w)'
            BY <3>2 DEF After
        <3>4. \A i \in Mine(w)' : applied'[i] = <<>>
            BY <2>1, <2>2 DEF Untouched
        <3> QED
            BY <3>2, <3>3, <3>4 DEF OnePiece, Doing
    <2> QED
        BY <2>1, <2>3, <2>4, <1>a DEF StaticInv
<1>2. ASSUME NEW c \in Calls, Reject(c) PROVE StaticInv'
    <2>1. /\ outcome' # "ok" /\ hpc' = "idle"
          /\ UNCHANGED <<ctl, hpc, call, cuts, epoch, failure, workerVars, applied>>
        BY <1>2 DEF Reject
    <2> QED
        BY <1>0, <2>1, <1>b DEF StaticInv, Live, InRange, Batch, Valid, OnePiece,
           Doing, Before, After, Mine
<1>3. CASE WriteWord
    <2>1. WriteOrder[step] \in Word \ {"epoch"} /\ slot \in Worker /\ hpc = "write"
          /\ UNCHANGED <<hpc, call, cuts, epoch, failure, workerVars, applied>>
        BY <1>0, <1>3, WriteOrderType DEF WriteWord, HostTypeOK
    <2>2. \A w \in Worker : w # slot => ctl'[w] = ctl[w]
        BY <1>0, <1>3, <2>1 DEF WriteWord, MemoryTypeOK
    <2>3. ASSUME NEW w \in Worker PROVE OnePiece(w)' /\ Doing(w)'
        <3>1. CASE w # slot
            BY <1>0, <1>c, <2>1, <2>2, <3>1
            DEF StaticInv, OnePiece, Doing, Before, After, Mine
        <3>2. CASE w = slot
            <4>1. Fresh(w)
                BY <1>0, <2>1, <3>2 DEF SlotInv, Worker
            <4>2. \/ wpc[w] = "dead"
                  \/ wpc[w] \in {"check", "parked"} /\ seen[w] # epoch
                BY <4>1 DEF Fresh, Quiet
            <4> QED
                BY <1>0, <1>c, <2>1, <4>2
                DEF StaticInv, OnePiece, Doing, Before, After, Mine
        <3> QED
            BY <3>1, <3>2
    <2> QED
        BY <1>0, <1>c, <2>1, <2>3, <1>a DEF StaticInv, InRange, Batch, Valid
<1>4. CASE Publish
    <2>1. slot \in Worker /\ hpc = "write" /\ hpc' # "idle"
          /\ UNCHANGED <<call, cuts, epoch, failure, localVars, applied>>
        BY <1>0, <1>4 DEF Publish, HostTypeOK
    <2>2. \A w \in Worker : \A f \in Word \ {"epoch"} : ctl'[w][f] = ctl[w][f]
        BY <1>0, <1>4, <2>1 DEF Publish, MemoryTypeOK
    <2>3. \A w \in Worker : wpc'[w] = wpc[w] \/ (wpc[w] = "parked" /\ wpc'[w] = "check")
        BY <1>0, <1>4 DEF Publish, ControlTypeOK
    <2>4. {"status", "start", "end"} \subseteq Word \ {"epoch"}
        BY DEF Word
    <2>5. ASSUME NEW w \in Worker PROVE OnePiece(w)' /\ Doing(w)'
        BY <1>0, <1>c, <2>1, <2>2, <2>3, <2>4
        DEF StaticInv, OnePiece, Doing, Before, After, Mine
    <2> QED
        BY <1>0, <1>c, <2>1, <2>5, <1>a DEF StaticInv, InRange, Batch, Valid
<1>5. CASE CancelActive
    <2>1. hpc' # "idle" /\ hpc # "idle"
          /\ UNCHANGED <<ctl, call, cuts, epoch, failure, workerVars, applied>>
        BY <1>5 DEF CancelActive
    <2>2. ASSUME NEW w \in Worker PROVE OnePiece(w)' /\ Doing(w)'
        BY <1>0, <1>c, <2>1 DEF StaticInv, OnePiece, Doing, Before, After, Mine
    <2> QED
        BY <1>0, <1>c, <2>1, <2>2, <1>a DEF StaticInv, InRange, Batch, Valid
<1>6. ASSUME NEW o, NEW p \in BOOLEAN, Return(o, p), hpc = "wait",
             o = "ok" => AllReported /\ FailedStatus = OK /\ ~p
      PROVE  StaticInv'
    <2>1. /\ hpc' = "idle" /\ outcome' = o /\ failure' = p
          /\ UNCHANGED <<ctl, call, cuts, epoch, workerVars, applied>>
        BY <1>6 DEF Return
    <2>0. InRange /\ \A w \in Worker : Doing(w)
        BY <1>0, <1>6, <1>c DEF StaticInv
    <2>a. InRange'
        BY <2>0, <2>1 DEF InRange, Batch, Valid
    <2>2. ASSUME NEW w \in Worker PROVE OnePiece(w)' /\ Doing(w)'
        BY <1>0, <2>0, <2>1
        DEF StaticInv, OnePiece, Doing, Before, After, Mine
    <2>3. CASE o = "ok"
        <3>1. ExactlyOnce' /\ FailureReported'
            BY <1>6, <2>1, <2>3, AllDone DEF ExactlyOnce, FailureReported, Batch
        <3>2. (Batch \subseteq Item)'
            BY <1>6, <1>c, <2>1, <2>3, MineTile DEF Batch, Item
        <3> QED
            BY <1>6, <2>1, <2>2, <2>a, <2>3, <3>1, <3>2 DEF StaticInv
    <2>4. CASE o # "ok"
        BY <2>1, <2>2, <2>a, <2>4, <1>b DEF StaticInv
    <2> QED
        BY <2>3, <2>4
<1>7. CASE Poll
    <2>1. (call.api = "range") \in BOOLEAN
        OBVIOUS
    <2>2. CASE ReturnRuntimeFailure
        BY <1>6, <2>2 DEF ReturnRuntimeFailure
    <2>3. CASE ReturnStatus
        BY <1>6, <2>1, <2>3 DEF ReturnStatus
    <2>4. CASE ReturnOk
        BY <1>6, <2>4 DEF ReturnOk
    <2> QED
        BY <1>7, <2>2, <2>3, <2>4 DEF Poll
<1>8. CASE Timeout
    BY <1>0, <1>8 DEF Timeout, HostTypeOK
<1> QED
    BY <1>1, <1>2, <1>3, <1>4, <1>5, <1>7, <1>8 DEF HostStep
LEMMA WorkerStaticInv ==
    ASSUME AllStatic, Inv, NEW w \in Worker, WorkerStep(w)
    PROVE  StaticInv'
<1>0. /\ MemoryTypeOK /\ HostTypeOK /\ ControlTypeOK /\ LocalTypeOK
      /\ SlotInv /\ HandOver /\ StaticInv /\ TypeOK
    BY DEF Inv, DispatchInv, TypeOK
<1>1. /\ UNCHANGED <<cancelSeq, hostVars, cancels>>
      /\ WordsKept(w) /\ LocalsKept(w)
    BY <1>0, WorkerFrame
<1>2. UNCHANGED <<hpc, call, cuts, epoch, failure, outcome>>
    BY <1>1 DEF hostVars
<1>a. ASSUME NEW pc, Goto(w, pc)
      PROVE  wpc'[w] = pc
    BY <1>0, <1>a DEF Goto, ControlTypeOK
<1>b. \A v \in Worker : /\ ctl'[v]["start"] = ctl[v]["start"]
                        /\ ctl'[v]["end"] = ctl[v]["end"]
                        /\ v # w => ctl'[v]["status"] = ctl[v]["status"]
    BY <1>1 DEF WordsKept, Word
<1>4. CASE Park(w)
    <2>1. UNCHANGED <<ctl, localVars, applied>> /\ wpc'[w] = "parked" /\ wpc[w] = "check"
        BY <1>4, <1>a DEF Park
    <2>2. ASSUME NEW v \in Worker PROVE OnePiece(v)' /\ (Live => Doing(v)')
        <3>1. CASE v = w
            BY <1>0, <1>2, <2>1, <3>1
            DEF StaticInv, OnePiece, Doing, Before, After, Mine, localVars
        <3>2. CASE v # w
            BY <1>0, <1>1, <1>2, <2>1, <3>2
            DEF LocalsKept, StaticInv, OnePiece, Doing, Before, After, Mine
        <3> QED
            BY <3>1, <3>2
    <2>3. FailureReported'
        BY <1>0, <1>1, <1>2, <2>1
        DEF LocalsKept, StaticInv, FailureReported, Succeeded
    <2> QED
        BY <1>0, <1>2, <2>1, <2>2, <2>3
        DEF StaticInv, InRange, Batch, Valid, Succeeded, ExactlyOnce, Live
<1>5. CASE Live /\ ~Park(w)
    <2>0. /\ \/ Observe(w) \/ ReadWord(w) \/ StartStatic(w)
             \/ KernelReturns(w) \/ KernelUnknown(w) \/ KernelThrows(w)
             \/ Catch(w) \/ StoreResult(w) \/ StoreStatus(w) \/ StoreDone(w)
             \/ Gone(w)
        BY <1>5, StaticSteps
    <2>d. ~Succeeded'
        BY <1>0, <1>2, <1>5 DEF HandOver, DeathReported, Live, Succeeded
    <2> DEFINE OnlyMine ==
                  /\ \A i \in Item \ Batch : applied'[i] = <<>>
                  /\ \A v \in Worker \ {w} : \A i \in Mine(v) : applied'[i] = applied[i]
    <2>1. OnlyMine
        <3>1. InRange
            BY <1>0, <1>5 DEF StaticInv
        <3>2. CASE applied' = applied
            BY <3>1, <3>2 DEF InRange
        <3>3. ASSUME NEW S \in SUBSET Mine(w), AppliesTo(S)
              PROVE  OnlyMine
            <4>1. \A i \in Item \ Batch : i \notin S
                BY <1>5, MineTile
            <4>2. \A v \in Worker \ {w} : \A i \in Mine(v) : i \in Item /\ i \notin S
                BY <1>5, MineTile
            <4> QED
                BY <3>1, <3>3, <4>1, <4>2 DEF InRange, AppliesTo
        <3>4. CASE KernelReturns(w)
            <4>1. Mine(w) \in SUBSET Mine(w) /\ AppliesTo(Mine(w))
                BY <1>5, <3>4, KernelAppliesToMine
            <4> QED
                BY <3>3, <4>1
        <3>5. CASE KernelThrows(w)
            <4>1. PICK S \in SUBSET Mine(w) : AppliesTo(S)
                BY <1>5, <3>5, KernelAppliesToMine
            <4> QED
                BY <3>3, <4>1
        <3> QED
            BY <2>0, <3>2, <3>4, <3>5 DEF Observe, ReadWord, StartStatic,
               KernelUnknown, Catch, StoreResult, StoreStatus, StoreDone, Gone
    <2>2. InRange'
        BY <1>0, <1>2, <1>5, <2>1 DEF StaticInv, InRange, Batch, Valid
    <2>3. ASSUME NEW v \in Worker \ {w} PROVE OnePiece(v)' /\ Doing(v)'
        BY <1>0, <1>1, <1>2, <1>5, <1>b, <2>1
        DEF LocalsKept, StaticInv, OnePiece, Doing, Before, After, Mine
    <2> SUFFICES OnePiece(w)' /\ Doing(w)'
        BY <2>d, <2>2, <2>3 DEF StaticInv, ExactlyOnce, FailureReported
    <2>a. Doing(w) /\ OnePiece(w) /\ Mine(w)' = Mine(w)
        BY <1>0, <1>2, <1>5 DEF StaticInv, Mine
    <2>b. wpc[w] \in Busy => seen[w] = epoch
        BY <1>5, BusyIsOut
           DEF Inv
    <2> USE DEF localVars
    <2>12. CASE Observe(w)
        <3>1. seen[w] # epoch
            <4>1. CASE IsOut(w)
                BY <1>0, <2>12, <4>1 DEF Observe, IsOut, SlotInv, Published
            <4>2. CASE ~IsOut(w)
                <5>1. Fresh(w)
                    BY <1>0, <1>5, <4>2 DEF IsOut, SlotInv, HostTypeOK, Live
                <5> QED
                    BY <2>12, <5>1 DEF Observe, Fresh, Quiet
            <4> QED
                BY <4>1, <4>2
        <3>2. wpc'[w] = "read" /\ applied' = applied /\ Before(w)
            BY <2>12, <3>1, <1>a DEF Observe, Before
        <3> QED
            BY <2>a, <3>2 DEF OnePiece, Doing, Before, After
    <2>4. CASE ReadWord(w)
        BY <2>4, <2>a DEF ReadWord, OnePiece, Doing, Before, After
    <2>5. CASE StartStatic(w)
        <3>1. wpc[w] = "read" /\ wpc'[w] = "kernel" /\ nread[w] = 5
              /\ applied' = applied
              /\ chunk'[w] = <<loc[w]["start"], loc[w]["end"]>>
            BY <1>0, <2>5, <1>a, ReadOrderType DEF StartStatic, LocalTypeOK
        <3>2. wpc[w] \in Busy
            BY <3>1 DEF Busy, WorkerPc
        <3>3. chunk'[w] = <<ctl'[w]["start"], ctl'[w]["end"]>>
            BY <1>5, <1>b, <3>1, <3>2, WorksOnMine
        <3> QED
            BY <2>a, <3>1, <3>3 DEF OnePiece, Doing, Before, After
    <2>6. CASE KernelReturns(w)
        <3>1. wpc[w] = "kernel" /\ nread[w] = 5 /\ wpc[w] \in Busy
            BY <1>0, <2>6 DEF KernelReturns, Busy, WorkerPc, HandOver, CopyAgrees
        <3>2. loc[w]["grain"] = call.grain /\ loc[w]["kernel"] = call.kernel
            BY <1>5, <3>1, WorksOnMine
        <3>3. call.grain = 0
            BY <1>0, <1>5 DEF StaticInv, InRange, AllStatic
        <3>4. wpc'[w] = "result" /\ call.kernel \in GuestKernels
            BY <2>6, <3>2, <3>3, <1>a DEF KernelReturns
        <3>5. AppliesTo(Mine(w))
            BY <1>5, <2>6, KernelAppliesToMine
        <3>6. Mine(w) \subseteq Item
            BY <1>5, MineTile
        <3>7. ASSUME NEW i \in Mine(w)
              PROVE  applied'[i] = <<call.kernel>>
            <4>1. applied[i] = <<>> /\ i \in Item
                BY <2>a, <3>1, <3>6 DEF Doing, Before
            <4>2. applied'[i] = Append(applied[i], call.kernel)
                BY <3>5, <4>1 DEF AppliesTo
            <4> QED
                BY <4>1, <4>2
        <3> QED
            BY <1>2, <2>a, <3>4, <3>7 DEF OnePiece, Doing, Before, After
    <2>7. CASE KernelUnknown(w)
        <3>1. wpc'[w] = "result" /\ wstatus'[w] = UNKNOWN
            BY <1>0, <2>7, <1>a DEF KernelUnknown, LocalTypeOK
        <3> QED
            BY <3>1 DEF OnePiece, Doing, Before, After, OK, UNKNOWN
    <2>8. CASE KernelThrows(w)
        BY <2>8, <1>a DEF KernelThrows, OnePiece, Doing, Before, After
    <2>9. CASE Catch(w)
        <3>1. wpc'[w] = "status" /\ wstatus'[w] = RUNTIME_FAILED
            BY <1>0, <2>9, <1>a DEF Catch, LocalTypeOK
        <3> QED
            BY <3>1 DEF OnePiece, Doing, Before, After, OK, RUNTIME_FAILED
    <2>10. CASE StoreResult(w) \/ StoreStatus(w)
        <3>1. /\ wpc[w] \in {"result", "status"} /\ wpc'[w] \in {"status", "done"}
              /\ wstatus'[w] = wstatus[w] /\ applied' = applied
            BY <2>10, <1>a DEF StoreResult, StoreStatus
        <3>2. After(w)' => After(w)
            BY <3>1 DEF After
        <3> QED
            BY <1>2, <2>a, <3>1, <3>2 DEF OnePiece, Doing, Before
    <2>11. CASE StoreDone(w)
        <3>1. /\ wpc'[w] \in {"check", "dead"} /\ seen'[w] = epoch
              /\ ctl'[w]["status"] = ctl[w]["status"] /\ applied' = applied
            BY <1>0, <2>11, <1>a, <2>b DEF StoreDone, MemoryTypeOK, Word, Busy, WorkerPc
        <3>2. ctl[w]["status"] = wstatus[w] /\ wpc[w] = "done"
            BY <1>0, <2>11 DEF StoreDone, HandOver, DeathReported
        <3> QED
            BY <1>2, <2>a, <3>1, <3>2 DEF OnePiece, Doing, Before, After
    <2>13. CASE Gone(w)
        BY <2>13, <1>a DEF Gone, OnePiece, Doing, Before, After
    <2> QED
        BY <2>0, <2>12, <2>4, <2>5, <2>6, <2>7, <2>8, <2>9, <2>10, <2>11, <2>13
<1> QED
    BY <1>4, <1>5, StaticSteps

LEMMA InvHolds ==
    ASSUME MaxTimeouts = 0, AllStatic
    PROVE  Spec => []Inv
<1>1. Init => StaticInv
    <2> SUFFICES ASSUME Init PROVE StaticInv
        OBVIOUS
    <2> QED
        BY DEF Init, StaticInv, Live, OnePiece, Succeeded, ExactlyOnce,
           FailureReported
<1>2. DispatchInv /\ StaticInv /\ [Next]_vars => StaticInv'
    <2> SUFFICES ASSUME Inv, [Next]_vars PROVE StaticInv'
        BY DEF Inv
    <2>1. CASE \E w \in Worker : WorkerStep(w)
        BY <2>1, WorkerStaticInv
    <2>2. CASE \/ \E c \in Calls : Begin(c) \/ Reject(c)
               \/ HostStep \/ CancelActive \/ Timeout
        BY <2>2, HostStaticInv
    <2>3. CASE UNCHANGED vars
        BY <2>3 DEF vars, hostVars, workerVars, localVars, Inv, StaticInv,
           Live, InRange, Batch, Valid, OnePiece, Doing, Before, After, Mine,
           Succeeded, ExactlyOnce, FailureReported
    <2> QED
        BY <2>1, <2>2, <2>3 DEF Next
<1> QED
    BY <1>1, <1>2, DispatchInvHolds, PTL DEF Spec, Inv

-----------------------------------------------------------------------------
(* A dispatch that succeeds has run its kernel on every item of its range   *)
(* exactly once and on nothing else (par_for, run_kernel): whichever Worker *)
(* was fast, however the range was cut, and whatever the dispatch before it *)
(* left in the slots.                                                       *)
THEOREM ExactlyOnceHolds ==
    ASSUME MaxTimeouts = 0, AllStatic
    PROVE  Spec => []ExactlyOnce
<1>1. Inv => ExactlyOnce
    BY DEF Inv, StaticInv
<1> QED
    BY <1>1, InvHolds, PTL

(* A dispatch during which a kernel threw on some Worker, or whose kernel   *)
(* no entry of the guest serves, is not reported as a success               *)
(* (first_failed_status, the handler of install_atomic_worker).             *)
THEOREM FailureReportedHolds ==
    ASSUME MaxTimeouts = 0, AllStatic
    PROVE  Spec => []FailureReported
<1>1. Inv => FailureReported
    BY DEF Inv, StaticInv
<1> QED
    BY <1>1, InvHolds, PTL

(* "Dispatched worker ranges never overlap", the reason SharedSlice gives   *)
(* for its plain loads and stores: no item is in the running chunks of two  *)
(* Workers.                                                                 *)
THEOREM RangesNeverOverlapHolds ==
    ASSUME MaxTimeouts = 0, AllStatic
    PROVE  Spec => []RangesNeverOverlap
<1>1. Inv => RangesNeverOverlap
    <2> SUFFICES ASSUME Inv, NEW v \in Worker, NEW w \in Worker, v # w,
                        wpc[v] = "kernel", wpc[w] = "kernel"
                 PROVE  Items(chunk[v][1], chunk[v][2]) \cap
                        Items(chunk[w][1], chunk[w][2]) = {}
        BY DEF RangesNeverOverlap
    <2>1. wpc[v] \in Busy /\ nread[v] = 5 /\ wpc[w] \in Busy /\ nread[w] = 5
        BY DEF Busy, WorkerPc, Inv, DispatchInv, HandOver, CopyAgrees
    <2>2. Live
        BY <2>1, BusyIsOut DEF IsOut, Inv, Live
    <2>3. Mine(v) = Items(chunk[v][1], chunk[v][2])
          /\ Mine(w) = Items(chunk[w][1], chunk[w][2])
        BY <2>1, <2>2, WorksOnMine DEF Inv, StaticInv, OnePiece
    <2> QED
        BY <2>2, <2>3, MineTile
<1> QED
    BY <1>1, InvHolds, PTL

-----------------------------------------------------------------------------
(* The refinement.  Host steps between the start of a dispatch and its      *)
(* return do not show; a kernel that returns or throws is an Apply.         *)

LEMMA HostRefines ==
    ASSUME MaxTimeouts = 0, Inv,
           \/ \E c \in Calls : Begin(c) \/ Reject(c)
           \/ HostStep \/ CancelActive \/ Timeout
    PROVE  PB!Next \/ UNCHANGED <<hpc # "idle", call, outcome, failure, applied>>
<1> USE DEF workerVars, localVars, hostVars
<1>1. ASSUME NEW c \in Calls, Begin(c) PROVE PB!Begin
    BY <1>1 DEF Begin, PB!Begin, Untouched, Item, PB!Item
<1>2. ASSUME NEW c \in Calls, Reject(c) PROVE PB!Reject
    BY <1>2 DEF Reject, PB!Reject
<1>3. CASE WriteWord \/ Publish \/ CancelActive
    BY <1>3 DEF WriteWord, Publish, CancelActive
<1>4. ASSUME NEW o \in {"cancelled", "failed"}, NEW p \in BOOLEAN, hpc = "wait",
             Return(o, p)
      PROVE  PB!Return
    BY <1>4 DEF Return, PB!Return
<1>5. CASE ReturnOk
    <2>1. hpc = "wait" /\ Return("ok", FALSE) /\ AllReported /\ FailedStatus = OK
        BY <1>5 DEF ReturnOk
    <2>2. \A i \in Batch : i \in Item /\ applied[i] = <<call.kernel>>
        <3>1. Batch \subseteq Item
            BY <2>1, MineTile DEF Live
        <3> QED
            BY <2>1, <3>1, AllDone
    <2>3. PB!Todo = {}
        <3>1. <<call.kernel>> # <<>>
            OBVIOUS
        <3>2. PB!Batch = Batch
            BY DEF PB!Batch, Batch, Items
        <3> QED
            BY <2>2, <3>1, <3>2 DEF PB!Todo
    <2> QED
        BY <2>1, <2>3 DEF Return, PB!Return, PB!Next
<1>6. CASE Poll
    <2>1. (call.api = "range") \in BOOLEAN
        OBVIOUS
    <2> QED
        BY <1>4, <1>5, <1>6, <2>1 DEF Poll, ReturnRuntimeFailure, ReturnStatus, PB!Next
<1>7. CASE Timeout
    BY <1>7 DEF Timeout, Inv, DispatchInv, TypeOK, HostTypeOK
<1> QED
    BY <1>1, <1>2, <1>3, <1>6, <1>7 DEF HostStep, PB!Next

LEMMA WorkerRefines ==
    ASSUME AllStatic, Inv, NEW w \in Worker, WorkerStep(w)
    PROVE  PB!Next \/ UNCHANGED <<hpc # "idle", call, outcome, failure, applied>>
<1>1. UNCHANGED <<hpc, call, outcome, failure>>
    <2>1. TypeOK
        BY DEF Inv, DispatchInv
    <2> QED
        BY <2>1, WorkerFrame DEF hostVars
<1>2. ASSUME NEW S \in SUBSET Mine(w), AppliesTo(S), wpc[w] = "kernel", Live
      PROVE  PB!Apply
    <2>1. Doing(w) /\ Before(w)
        BY <1>2 DEF Inv, StaticInv, Before
    <2>2. \A i \in S : i \in Batch /\ i \in Item /\ applied[i] = <<>>
        BY <1>2, <2>1, MineTile DEF Doing
    <2>3. S \in SUBSET PB!Todo
        <3>1. PB!Batch = Batch
            BY DEF PB!Batch, Batch, Items
        <3> QED
            BY <2>2, <3>1 DEF PB!Todo
    <2>4. ASSUME NEW i \in S
          PROVE  Append(applied[i], call.kernel) = <<call.kernel>>
        <3>1. applied[i] = <<>>
            BY <2>2
        <3> QED
            BY <3>1
    <2>5. applied' = [i \in PB!Item |-> IF i \in S THEN <<call.kernel>>
                                        ELSE applied[i]]
        BY <1>2, <2>4 DEF AppliesTo, Item, PB!Item
    <2> QED
        BY <1>1, <1>2, <2>3, <2>5 DEF PB!Apply, Live
<1>3. CASE KernelReturns(w) /\ Live
    <2>1. Mine(w) \in SUBSET Mine(w) /\ AppliesTo(Mine(w)) /\ wpc[w] = "kernel"
        BY <1>3, KernelAppliesToMine DEF KernelReturns
    <2> QED
        BY <1>2, <1>3, <2>1 DEF PB!Next
<1>4. CASE KernelThrows(w) /\ Live
    <2>1. PICK S \in SUBSET Mine(w) : AppliesTo(S)
        BY <1>4, KernelAppliesToMine
    <2> QED
        BY <1>2, <1>4, <2>1 DEF PB!Next, KernelThrows
<1> QED
    BY <1>1, <1>3, <1>4, StaticSteps
    DEF Park, Observe, ReadWord, StartStatic, KernelUnknown, Catch,
        StoreResult, StoreStatus, StoreDone, Gone

(* The control-slot protocol implements the parallel batch its callers rely *)
(* on: every item of the range processed at most once, in any order and by  *)
(* anybody, and all of them when the call succeeds; at most once also by    *)
(* the Workers of a poisoned pool that terminate() has not stopped yet.     *)
THEOREM RefinementHolds ==
    ASSUME MaxTimeouts = 0, AllStatic
    PROVE  Spec => Refinement
<1>1. Init => PB!Init
    BY DEF Init, PB!Init, NoCall, Untouched, Item, PB!Item
<1>2. Inv /\ [Next]_vars =>
         [PB!Next]_<<hpc # "idle", call, outcome, failure, applied>>
    <2> SUFFICES ASSUME Inv, [Next]_vars
                 PROVE  PB!Next \/ UNCHANGED <<hpc # "idle", call, outcome, failure, applied>>
        OBVIOUS
    <2>1. CASE \E w \in Worker : WorkerStep(w)
        BY <2>1, WorkerRefines
    <2>2. CASE \/ \E c \in Calls : Begin(c) \/ Reject(c)
               \/ HostStep \/ CancelActive \/ Timeout
        BY <2>2, HostRefines
    <2>3. CASE UNCHANGED vars
        BY <2>3 DEF vars, hostVars
    <2> QED
        BY <2>1, <2>2, <2>3 DEF Next
<1> QED
    BY <1>1, <1>2, InvHolds, PTL DEF Spec, Refinement, PB!Spec

-----------------------------------------------------------------------------
(* All calls.  Under dynamic scheduling a share is worked off in chunks, by *)
(* whoever claims them.  An item that is no longer ahead of the cursor of   *)
(* its shard has been run, is in somebody's hands, or somebody has failed   *)
(* over it and will say so; and who comes to the end of his work has found  *)
(* the cursor of his own shard at its end.                                  *)
HasRun(i)    == \E k \in DOMAIN applied[i] : applied[i][k] = call.kernel
InHand(v, i) == wpc[v] = "kernel" /\ i \in Items(chunk[v][1], chunk[v][2])
Failing(v)   == \/ wpc[v] = "catch"
                \/ wpc[v] \in {"result", "status", "done"} /\ wstatus[v] # OK
                \/ IsOut(v) /\ ctl[v]["done"] = epoch /\ ctl[v]["status"] # OK
Handled(i)   == HasRun(i) \/ \E v \in Worker : InHand(v, i) \/ Failing(v)

(* w has found no more chunks in its own shard. *)
Scanned(w) == \/ wpc[w] \in {"victim", "poll", "claim", "kernel"} /\ off[w] > 0
              \/ After(w)

(* The slot of w holds the cursor of the dispatch in progress.              *)
CursorWritten(w) == IsOut(w) \/ (hpc = "write" /\ w = slot /\ step > 5)

(* Dynamic and static calls differ in what a Worker at its end has left     *)
(* behind: a cursor at the end of its shard, or its share run.              *)
ShardCovered(w) ==
    /\ call.grain > 0 /\ CursorWritten(w) =>
          \A i \in Mine(w) : i < ctl[w]["cursor"] => Handled(i)
    /\ call.grain > 0 /\ Scanned(w) => \A i \in Mine(w) : i < ctl[w]["cursor"]
    /\ call.grain = 0 /\ After(w) => \A i \in Mine(w) : Handled(i)

(* A scan starts at the Worker's own shard, with the end that its slot      *)
(* holds.                                                                   *)
Scans(w) ==
    /\ wpc[w] \in {"check", "parked", "read"} => off[w] = 0
    /\ wpc[w] \in {"victim", "poll", "claim"} => call.grain > 0
    /\ wpc[w] \in {"poll", "claim", "kernel"} /\ off[w] = 0 /\ call.grain > 0 =>
          vend[w] = ctl[w]["end"]
    /\ wpc[w] = "kernel" /\ call.grain = 0 =>
          chunk[w] = <<ctl[w]["start"], ctl[w]["end"]>>

CoverInv ==
    /\ applied \in [Item -> Seq(Int)]
    /\ Live => call \in Calls /\ Valid(call)
    /\ hpc # "idle" => \A w \in Worker : ShardCovered(w)
    /\ \A w \in Worker : Scans(w)
    /\ Covered

RunInv == DispatchInv /\ CoverInv

(* A Worker scans the shard of some Worker, its own first.                  *)
LEMMA VictimWorker ==
    ASSUME TypeOK, NEW w \in Worker
    PROVE  Victim(w) \in Worker /\ (off[w] = 0 => Victim(w) = w)
<1>1. w \in Nat /\ w < N /\ off[w] \in Nat /\ N \in Nat \ {0}
    BY NAssumption DEF Worker, TypeOK, ControlTypeOK
<1>2. w + off[w] \in Nat
    BY <1>1
<1>3. (w + off[w]) % N \in 0 .. N - 1
    BY <1>1, <1>2
<1>4. off[w] = 0 => (w + off[w]) % N = w
    BY <1>1
<1> QED
    BY <1>3, <1>4 DEF Victim, Worker

(* What a Worker's step does to the scan of others, and to the cursors.    *)
LEMMA ScanFrame ==
    ASSUME TypeOK, NEW w \in Worker, WorkerStep(w)
    PROVE  /\ \A v \in Worker \ {w} : off'[v] = off[v] /\ vend'[v] = vend[v]
           /\ \A v \in Worker : ~ (Claim(w) /\ v = Victim(w)) =>
                 ctl'[v]["cursor"] = ctl[v]["cursor"]
<1>0. MemoryTypeOK /\ ControlTypeOK /\ LocalTypeOK
    BY DEF TypeOK
<1> USE DEF localVars
<1>1. CASE Park(w) \/ Observe(w) \/ ReadWord(w) \/ StartStatic(w) \/ StartDynamic(w)
           \/ Gone(w)
    BY <1>1 DEF Park, Observe, ReadWord, StartStatic, StartDynamic, Gone
<1>2. CASE NextVictim(w)
    BY <1>0, <1>2 DEF NextVictim, LocalTypeOK
<1>3. CASE CheckCancel(w) \/ KernelReturns(w) \/ KernelUnknown(w) \/ KernelThrows(w)
           \/ Catch(w) \/ StoreResult(w)
    BY <1>3 DEF CheckCancel, KernelReturns, KernelUnknown, KernelThrows, Catch, StoreResult
<1>4. CASE Claim(w)
    <2>1. UNCHANGED <<off, vend>>
        BY <1>4 DEF Claim
    <2>2. \E x : ctl' = [ctl EXCEPT ![Victim(w)]["cursor"] = x]
        BY <1>4 DEF Claim
    <2> QED
        BY <1>0, <1>4, <2>1, <2>2 DEF MemoryTypeOK
<1>5. CASE Exhausted(w)
    BY <1>0, <1>5 DEF Exhausted, ControlTypeOK
<1>6. CASE StoreStatus(w)
    <2>1. UNCHANGED <<off, vend>> /\ ctl' = [ctl EXCEPT ![w]["status"] = wstatus[w]]
        BY <1>6 DEF StoreStatus
    <2> QED
        BY <1>0, <2>1 DEF MemoryTypeOK, Word
<1>7. CASE StoreDone(w)
    <2>1. /\ off' = [off EXCEPT ![w] = 0] /\ vend' = [vend EXCEPT ![w] = 0]
          /\ ctl' = [ctl EXCEPT ![w]["done"] = seen[w]]
        BY <1>7 DEF StoreDone
    <2> QED
        BY <1>0, <2>1 DEF MemoryTypeOK, ControlTypeOK, LocalTypeOK, Word
<1> QED
    BY <1>1, <1>2, <1>3, <1>4, <1>5, <1>6, <1>7 DEF WorkerStep

(* The kernels run on an item, its own among them, stay on record.         *)
LEMMA RunsKept ==
    ASSUME RunInv, Live, NEW w \in Worker, WorkerStep(w)
    PROVE  /\ applied' \in [Item -> Seq(Int)]
           /\ \A i \in Item : HasRun(i) => HasRun(i)'
           /\ KernelReturns(w) => \A i \in Item :
                 i \in Items(chunk[w][1], chunk[w][2]) => HasRun(i)'
<1>0. /\ TypeOK /\ HandOver /\ call \in Calls /\ applied \in [Item -> Seq(Int)]
    BY DEF RunInv, DispatchInv, CoverInv
<1>1. call' = call
    BY <1>0, WorkerFrame DEF hostVars
<1>2. CASE applied' = applied /\ ~ KernelReturns(w)
    BY <1>0, <1>1, <1>2 DEF HasRun
<1>3. ASSUME NEW upto, ApplyUpTo(w, upto), wpc[w] = "kernel"
      PROVE  /\ applied' \in [Item -> Seq(Int)]
             /\ \A i \in Item : HasRun(i) => HasRun(i)'
             /\ \A i \in Item : i \in Items(chunk[w][1], upto) => HasRun(i)'
    <2>1. wpc[w] \in Busy /\ nread[w] = 5
        BY <1>0, <1>3 DEF Busy, WorkerPc, HandOver, CopyAgrees
    <2>2. loc[w]["kernel"] = call.kernel /\ call.kernel \in Int
        BY <1>0, <2>1, WorksOnCall, DispatchAssumption DEF RunInv
    <2>3. applied' = [i \in Item |-> IF i \in Items(chunk[w][1], upto)
                                     THEN Append(applied[i], call.kernel) ELSE applied[i]]
        BY <1>3, <2>2 DEF ApplyUpTo
    <2>4. ASSUME NEW i \in Item
          PROVE  /\ applied'[i] \in Seq(Int)
                 /\ HasRun(i) => HasRun(i)'
                 /\ i \in Items(chunk[w][1], upto) => HasRun(i)'
        <3>1. applied[i] \in Seq(Int)
            BY <1>0
        <3>2. CASE i \in Items(chunk[w][1], upto)
            <4>1. applied'[i] = Append(applied[i], call.kernel)
                BY <2>3, <3>2
            <4>2. applied'[i] \in Seq(Int)
                BY <2>2, <3>1, <4>1
            <4>3. Len(applied[i]) + 1 \in DOMAIN applied'[i]
                  /\ applied'[i][Len(applied[i]) + 1] = call.kernel
                BY <2>2, <3>1, <4>1
            <4>4. HasRun(i)'
                BY <1>1, <4>3 DEF HasRun
            <4> QED
                BY <4>2, <4>4
        <3>3. CASE i \notin Items(chunk[w][1], upto)
            <4>1. applied'[i] = applied[i]
                BY <2>3, <3>3
            <4> QED
                BY <1>1, <3>1, <3>3, <4>1 DEF HasRun
        <3> QED
            BY <3>2, <3>3
    <2>5. applied' \in [Item -> Seq(Int)]
        BY <2>3, <2>4
    <2> QED
        BY <2>4, <2>5
<1>4. CASE KernelReturns(w)
    BY <1>3, <1>4 DEF KernelReturns
<1>5. CASE KernelThrows(w) /\ ~ KernelReturns(w)
    BY <1>3, <1>5 DEF KernelThrows
<1>6. applied' = applied \/ KernelReturns(w) \/ KernelThrows(w)
    BY DEF WorkerStep, Park, Observe, ReadWord, StartStatic, StartDynamic, NextVictim,
       CheckCancel, Claim, Exhausted, KernelUnknown, Catch, StoreResult, StoreStatus, StoreDone,
       Gone
<1> QED
    BY <1>2, <1>4, <1>5, <1>6

(* What was run, is being run or has failed stays so, or comes to be run.  *)
LEMMA HandledKept ==
    ASSUME RunInv, hpc # "idle", NEW w \in Worker, WorkerStep(w),
           NEW i \in Item, Handled(i)
    PROVE  Handled(i)'
<1>0. /\ MemoryTypeOK /\ HostTypeOK /\ ControlTypeOK /\ LocalTypeOK
      /\ SlotInv /\ HandOver /\ TypeOK
    BY DEF RunInv, DispatchInv, TypeOK
<1>1. /\ UNCHANGED <<cancelSeq, hostVars, cancels>>
      /\ WordsKept(w) /\ LocalsKept(w)
    BY <1>0, WorkerFrame
<1>2. UNCHANGED <<hpc, slot, call, epoch, failure>>
    BY <1>1 DEF hostVars
<1>b. Live /\ ~Gone(w)
    BY GoneIdle DEF RunInv, Live
<1>a. ASSUME NEW pc, Goto(w, pc)
      PROVE  wpc'[w] = pc
    BY <1>0, <1>a DEF Goto, ControlTypeOK
<1> USE DEF localVars
<1>3. CASE HasRun(i)
    BY <1>3, <1>b, RunsKept DEF Handled
<1>4. ASSUME NEW v \in Worker \ {w}, InHand(v, i) \/ Failing(v) PROVE Handled(i)'
    <2>1. ctl'[v]["done"] = ctl[v]["done"] /\ ctl'[v]["status"] = ctl[v]["status"]
        BY <1>1 DEF WordsKept, Word
    <2>2. InHand(v, i)' \/ Failing(v)'
        BY <1>1, <1>2, <1>4, <2>1 DEF LocalsKept, InHand, Failing, IsOut
    <2> QED
        BY <2>2 DEF Handled
<1>5. CASE InHand(w, i)
    <2>1. wpc[w] = "kernel" /\ i \in Items(chunk[w][1], chunk[w][2])
        BY <1>5 DEF InHand
    <2>2. KernelReturns(w) \/ KernelUnknown(w) \/ KernelThrows(w)
        BY <1>b, <2>1 DEF WorkerStep, Park, Observe, ReadWord, StartStatic, StartDynamic,
           NextVictim, CheckCancel, Claim, Exhausted, Catch, StoreResult, StoreStatus,
           StoreDone
    <2>3. CASE KernelReturns(w)
        BY <1>b, <2>1, <2>3, RunsKept DEF Handled
    <2>4. CASE KernelUnknown(w)
        <3>1. wpc'[w] = "result" /\ wstatus'[w] = UNKNOWN
            BY <1>0, <2>4, <1>a DEF KernelUnknown, LocalTypeOK
        <3> QED
            BY <3>1 DEF Handled, Failing, OK, UNKNOWN
    <2>5. CASE KernelThrows(w)
        BY <2>5, <1>a DEF KernelThrows, Handled, Failing
    <2> QED
        BY <2>2, <2>3, <2>4, <2>5
<1>6. CASE Failing(w)
    <2>1. CASE wpc[w] = "catch"
        <3>1. Catch(w)
            BY <1>b, <2>1 DEF WorkerStep, Park, Observe, ReadWord, StartStatic, StartDynamic,
               NextVictim, CheckCancel, Claim, Exhausted, KernelReturns, KernelUnknown,
               KernelThrows, StoreResult, StoreStatus, StoreDone
        <3>2. wpc'[w] = "status" /\ wstatus'[w] = RUNTIME_FAILED
            BY <1>0, <3>1, <1>a DEF Catch, LocalTypeOK
        <3> QED
            BY <3>2 DEF Handled, Failing, OK, RUNTIME_FAILED
    <2>2. CASE wpc[w] \in {"result", "status", "done"} /\ wstatus[w] # OK
        <3>1. StoreResult(w) \/ StoreStatus(w) \/ StoreDone(w)
            BY <1>b, <2>2 DEF WorkerStep, Park, Observe, ReadWord, StartStatic, StartDynamic,
               NextVictim, CheckCancel, Claim, Exhausted, KernelReturns, KernelUnknown,
               KernelThrows, Catch
        <3>2. CASE StoreResult(w) \/ StoreStatus(w)
            <4>1. wpc'[w] \in {"status", "done"} /\ wstatus'[w] = wstatus[w]
                BY <3>2, <1>a DEF StoreResult, StoreStatus
            <4> QED
                BY <2>2, <4>1 DEF Handled, Failing
        <3>3. CASE StoreDone(w)
            <4>1. wpc[w] \in Busy /\ ctl[w]["status"] = wstatus[w]
                BY <1>0, <3>3 DEF StoreDone, Busy, WorkerPc, HandOver, DeathReported
            <4>2. IsOut(w) /\ seen[w] = epoch
                BY <4>1, BusyIsOut DEF RunInv
            <4>3. ctl'[w]["done"] = epoch /\ ctl'[w]["status"] = ctl[w]["status"]
                BY <1>0, <3>3, <4>2 DEF StoreDone, MemoryTypeOK, Word
            <4> QED
                BY <1>2, <2>2, <4>1, <4>2, <4>3 DEF Handled, Failing, IsOut
        <3> QED
            BY <3>1, <3>2, <3>3
    <2>3. CASE IsOut(w) /\ ctl[w]["done"] = epoch /\ ctl[w]["status"] # OK
        <3>1. wpc[w] \notin Busy /\ wpc[w] # "dead"
            BY <2>3, BusyIsOut, DeadStops DEF RunInv
        <3>2. Quiet(w)
            BY <1>0, <2>3 DEF SlotInv, IsOut, Published, Worker
        <3>3. Park(w)
            BY <1>b, <3>1, <3>2 DEF Quiet, WorkerStep, Park, Observe, ReadWord, StartStatic,
               StartDynamic, NextVictim, CheckCancel, Claim, Exhausted, KernelReturns,
               KernelUnknown, KernelThrows, Catch, StoreResult, StoreStatus, StoreDone
        <3>4. UNCHANGED ctl
            BY <3>3 DEF Park
        <3> QED
            BY <1>2, <2>3, <3>4 DEF Handled, Failing, IsOut
    <2> QED
        BY <1>6, <2>1, <2>2, <2>3 DEF Failing
<1> QED
    BY <1>3, <1>4, <1>5, <1>6 DEF Handled

(* How a Worker comes to the end of its scan, and of its work.             *)
LEMMA OwnScan ==
    ASSUME RunInv, Live, NEW w \in Worker, WorkerStep(w)
    PROVE  /\ Scans(w)'
           /\ After(w)' => \/ After(w)
                           \/ KernelReturns(w) /\ call.grain = 0
                           \/ call.grain > 0 /\ Scanned(w)
           /\ call.grain > 0 /\ Scanned(w)' => Scanned(w) \/ (Exhausted(w) /\ off[w] = 0)
<1>0. /\ MemoryTypeOK /\ HostTypeOK /\ ControlTypeOK /\ LocalTypeOK
      /\ SlotInv /\ HandOver /\ TypeOK /\ Scans(w) /\ call \in Calls
    BY DEF RunInv, DispatchInv, TypeOK, CoverInv
<1>1. /\ UNCHANGED <<cancelSeq, hostVars, cancels>> /\ WordsKept(w)
    BY <1>0, WorkerFrame
<1>2. UNCHANGED <<hpc, slot, call, cuts, epoch>>
    BY <1>1 DEF hostVars
<1>3. ctl'[w]["start"] = ctl[w]["start"] /\ ctl'[w]["end"] = ctl[w]["end"]
    BY <1>1 DEF WordsKept, Word
<1>4. call.grain \in Nat
    BY <1>0, DispatchAssumption
<1>a. ASSUME NEW pc, Goto(w, pc)
      PROVE  wpc'[w] = pc
    BY <1>0, <1>a DEF Goto, ControlTypeOK
<1>b. wpc[w] \in Busy => nread[w] = 5 \/ wpc[w] = "read"
    BY <1>0 DEF HandOver, CopyAgrees
<1>c. {"read", "victim", "poll", "claim", "kernel", "catch", "result",
       "status", "done"} = Busy
    BY DEF Busy, WorkerPc
<1>d. wpc[w] \in Busy => seen[w] = epoch
    BY BusyIsOut DEF RunInv
<1>e. wpc[w] \in Busy /\ nread[w] = 5 =>
         /\ loc[w]["start"] = ctl[w]["start"] /\ loc[w]["end"] = ctl[w]["end"]
         /\ loc[w]["grain"] = call.grain
    BY WorksOnCall DEF RunInv
<1> USE DEF localVars
<1>5. CASE Park(w)
    <2>1. wpc'[w] = "parked" /\ wpc[w] = "check" /\ UNCHANGED <<ctl, localVars>>
        BY <1>5, <1>a DEF Park
    <2> QED
        BY <1>0, <1>2, <2>1 DEF Scans, After, Scanned
<1>6. CASE Observe(w)
    <2>1. wpc'[w] = "read" /\ wpc[w] = "check" /\ UNCHANGED <<ctl, off>>
        BY <1>6, <1>a DEF Observe
    <2> QED
        BY <1>0, <1>2, <2>1 DEF Scans, After, Scanned
<1>7. CASE ReadWord(w)
    <2>1. wpc'[w] = "read" /\ wpc[w] = "read" /\ UNCHANGED <<ctl, off>>
        BY <1>7 DEF ReadWord
    <2> QED
        BY <1>0, <1>2, <2>1 DEF Scans, After, Scanned
<1>8. CASE StartStatic(w)
    <2>1. /\ wpc'[w] = "kernel" /\ wpc[w] = "read" /\ nread[w] = 5 /\ UNCHANGED <<ctl, off>>
          /\ loc[w]["grain"] <= 0
          /\ chunk'[w] = <<loc[w]["start"], loc[w]["end"]>>
        BY <1>0, <1>8, <1>a, ReadOrderType DEF StartStatic, LocalTypeOK
    <2>2. call.grain = 0 /\ chunk'[w] = <<ctl[w]["start"], ctl[w]["end"]>>
        BY <1>4, <1>c, <1>e, <2>1
    <2> QED
        BY <1>0, <1>2, <2>1, <2>2 DEF Scans, After, Scanned
<1>9. CASE StartDynamic(w)
    <2>1. /\ wpc'[w] = "victim" /\ wpc[w] = "read" /\ nread[w] = 5 /\ UNCHANGED <<ctl, off>>
          /\ loc[w]["grain"] > 0
        BY <1>9, <1>a, ReadOrderType DEF StartDynamic
    <2>2. call.grain > 0
        BY <1>c, <1>e, <2>1
    <2> QED
        BY <1>0, <1>2, <2>1, <2>2 DEF Scans, After, Scanned
<1>10. CASE NextVictim(w)
    <2>1. wpc[w] = "victim" /\ UNCHANGED <<ctl, off, wstatus>> /\ call.grain > 0
        BY <1>0, <1>10 DEF NextVictim, Scans
    <2>2. CASE off[w] < N
        <3>1. wpc'[w] = "poll" /\ vend'[w] = ctl[Victim(w)]["end"]
            BY <1>0, <1>10, <1>a, <2>2 DEF NextVictim, LocalTypeOK
        <3> QED
            BY <1>0, <1>2, <2>1, <3>1, VictimWorker DEF Scans, After, Scanned
    <2>3. CASE ~ (off[w] < N)
        <3>1. wpc'[w] = "result"
            BY <1>10, <1>a, <2>3 DEF NextVictim
        <3>2. off[w] > 0
            BY <1>0, <2>3, NAssumption DEF ControlTypeOK
        <3> QED
            BY <1>0, <1>2, <2>1, <3>1, <3>2 DEF Scans, After, Scanned
    <2> QED
        BY <2>2, <2>3
<1>11. CASE CheckCancel(w)
    <2>1. wpc[w] = "poll" /\ UNCHANGED <<ctl, off, vend>>
        BY <1>11 DEF CheckCancel
    <2>2. \/ wpc'[w] = "result" /\ wstatus'[w] = CANCELLED
          \/ wpc'[w] = "claim" /\ wstatus' = wstatus
        BY <1>0, <1>11, <1>a DEF CheckCancel, LocalTypeOK
    <2> QED
        BY <1>0, <1>2, <2>1, <2>2 DEF Scans, After, Scanned, OK, CANCELLED
<1>12. CASE Claim(w)
    <2>1. wpc[w] = "claim" /\ wpc'[w] = "kernel" /\ UNCHANGED <<off, vend>>
        BY <1>12, <1>a DEF Claim
    <2>2. call.grain > 0
        BY <1>0, <2>1 DEF Scans
    <2> QED
        BY <1>0, <1>2, <1>3, <2>1, <2>2 DEF Scans, After, Scanned
<1>13. CASE Exhausted(w)
    <2>1. wpc[w] = "claim" /\ wpc'[w] = "victim" /\ off'[w] = off[w] + 1
        BY <1>0, <1>13, <1>a DEF Exhausted, ControlTypeOK
    <2>2. call.grain > 0 /\ off[w] \in Nat
        BY <1>0, <2>1, NAssumption DEF Scans, ControlTypeOK
    <2> QED
        BY <1>2, <1>13, <2>1, <2>2 DEF Scans, After, Scanned
<1>14. CASE KernelReturns(w)
    <2>1. wpc[w] = "kernel" /\ UNCHANGED <<ctl, off, vend, chunk>> /\ loc[w]["grain"] = call.grain
        BY <1>14, <1>b, <1>c, <1>e DEF KernelReturns
    <2>2. CASE call.grain = 0
        <3>1. wpc'[w] = "result"
            BY <1>14, <1>a, <2>1, <2>2 DEF KernelReturns
        <3> QED
            BY <1>2, <1>14, <2>2, <3>1 DEF Scans
    <2>3. CASE call.grain > 0
        <3>1. \/ wpc'[w] = "result" /\ wstatus'[w] = CANCELLED
              \/ wpc'[w] = "poll" /\ wstatus' = wstatus
            BY <1>0, <1>14, <1>a, <2>1, <2>3 DEF KernelReturns, LocalTypeOK
        <3> QED
            BY <1>0, <1>2, <2>1, <2>3, <3>1 DEF Scans, After, Scanned, OK, CANCELLED
    <2> QED
        BY <1>4, <2>2, <2>3
<1>15. CASE KernelUnknown(w)
    <2>1. wpc'[w] = "result" /\ wstatus'[w] = UNKNOWN
        BY <1>0, <1>15, <1>a DEF KernelUnknown, LocalTypeOK
    <2> QED
        BY <2>1 DEF Scans, After, Scanned, OK, UNKNOWN
<1>16. CASE KernelThrows(w)
    BY <1>16, <1>a DEF KernelThrows, Scans, After, Scanned
<1>17. CASE Catch(w)
    <2>1. wpc'[w] = "status" /\ wstatus'[w] = RUNTIME_FAILED
        BY <1>0, <1>17, <1>a DEF Catch, LocalTypeOK
    <2> QED
        BY <2>1 DEF Scans, After, Scanned, OK, RUNTIME_FAILED
<1>18. CASE StoreResult(w) \/ StoreStatus(w)
    <2>1. /\ wpc[w] \in {"result", "status"} /\ wpc'[w] \in {"status", "done"}
          /\ wstatus'[w] = wstatus[w]
        BY <1>18, <1>a DEF StoreResult, StoreStatus
    <2> QED
        BY <2>1 DEF Scans, After, Scanned
<1>19. CASE StoreDone(w)
    <2>1. /\ wpc[w] = "done" /\ wpc'[w] \in {"check", "dead"} /\ off'[w] = 0
          /\ ctl'[w]["status"] = ctl[w]["status"]
        BY <1>0, <1>19, <1>a DEF StoreDone, MemoryTypeOK, ControlTypeOK, Word
    <2>2. ctl[w]["status"] = wstatus[w]
        BY <1>0, <2>1 DEF HandOver, DeathReported
    <2> QED
        BY <2>1, <2>2 DEF Scans, After, Scanned
<1>20. CASE Gone(w)
    BY <1>20, <1>a DEF Gone, Scans, After, Scanned
<1> QED
    BY <1>5, <1>6, <1>7, <1>8, <1>9, <1>10, <1>11, <1>12, <1>13, <1>14, <1>15, <1>16,
       <1>17, <1>18, <1>19, <1>20 DEF WorkerStep

(* A claim moves the cursor by what the claimer takes in hand, and nobody   *)
(* else moves it.                                                           *)
LEMMA WorkerCover ==
    ASSUME RunInv, NEW w \in Worker, WorkerStep(w)
    PROVE  CoverInv'
<1>0. /\ MemoryTypeOK /\ HostTypeOK /\ ControlTypeOK /\ LocalTypeOK
      /\ SlotInv /\ HandOver /\ TypeOK /\ DispatchInv /\ CoverInv
    BY DEF RunInv, DispatchInv, TypeOK
<1>1. /\ UNCHANGED <<cancelSeq, hostVars, cancels>>
      /\ WordsKept(w) /\ LocalsKept(w)
    BY <1>0, WorkerFrame
<1>2. UNCHANGED <<hpc, slot, step, call, cuts, epoch, failure, outcome>>
    BY <1>1 DEF hostVars
<1>3. \A v \in Worker : /\ ctl'[v]["start"] = ctl[v]["start"]
                        /\ ctl'[v]["end"] = ctl[v]["end"]
                        /\ v # w => ctl'[v]["status"] = ctl[v]["status"]
    BY <1>1 DEF WordsKept, Word
<1>4. \A v \in Worker \ {w} : off'[v] = off[v] /\ vend'[v] = vend[v]
    BY <1>0, ScanFrame
<1>5. ASSUME NEW v \in Worker \ {w}
      PROVE  /\ Scans(v)'
             /\ After(v)' => After(v)
             /\ Scanned(v)' => Scanned(v)
    <2>1. Scans(v)'
        BY <1>0, <1>1, <1>2, <1>3, <1>4 DEF CoverInv, LocalsKept, Scans
    <2>2. After(v)' => After(v)
        BY <1>1, <1>2, <1>3 DEF LocalsKept, After
    <2>3. Scanned(v)' => Scanned(v)
        BY <1>1, <1>4, <2>2 DEF LocalsKept, Scanned
    <2> QED
        BY <2>1, <2>2, <2>3
<1>6. CASE ~Live
    <2>1. Park(w)
        BY <1>0, <1>6, IdleParks
    <2>2. /\ wpc[w] = "check" /\ wpc'[w] = "parked"
          /\ UNCHANGED <<ctl, localVars, applied>>
        BY <1>0, <2>1 DEF Park, Goto, ControlTypeOK
    <2>3. Scans(w)'
        BY <1>0, <2>2 DEF CoverInv, Scans, localVars
    <2>4. Covered'
        BY <1>0, <1>2, <2>2 DEF CoverInv, Covered, Succeeded, Batch
    <2> QED
        BY <1>0, <1>2, <1>5, <1>6, <2>2, <2>3, <2>4 DEF CoverInv, Live
\* The pool is poisoned: its Workers go on, until they are gone.
<1>8. CASE failure
    <2>1. Live /\ hpc = "idle" /\ outcome # "ok"
        BY <1>0, <1>8, NAssumption DEF Live, HandOver, DeathReported, Worker
    <2>2. Scans(w)' /\ applied' \in [Item -> Seq(Int)]
        BY <2>1, OwnScan, RunsKept
    <2>3. call' \in Calls /\ Valid(call)'
        BY <1>0, <1>2, <2>1 DEF CoverInv, Valid
    <2>4. Covered'
        BY <1>2, <2>1 DEF Covered, Succeeded
    <2> QED
        BY <1>2, <1>5, <2>1, <2>2, <2>3, <2>4 DEF CoverInv
<1>7. CASE hpc # "idle"
    <2>d. Live
        BY <1>7 DEF Live
    <2>0. /\ call \in Calls /\ Valid(call) /\ cuts \in Cuts
          /\ \A v \in Worker : ShardCovered(v)
          /\ applied' \in [Item -> Seq(Int)]
        BY <1>0, <1>7, <2>d, RunsKept DEF CoverInv, HostTypeOK
    <2>a. \A v \in Worker : Mine(v) \subseteq Item /\ Mine(v)' = Mine(v)
        <3>1. \A v \in Worker : Mine(v) \subseteq Item
            BY <2>0, SharesOfCall DEF Mine
        <3> QED
            BY <1>2, <3>1 DEF Mine
    <2>b. \A i \in Item : Handled(i) => Handled(i)'
        BY <1>7, HandledKept
    <2>c. \A v \in Worker : \A i \in Item : i \in Mine(v) => i \in Int
        BY DispatchAssumption DEF Item
    <2>1. Scans(w)'
        BY <2>d, OwnScan
    <2>2. ASSUME Claim(w)
          PROVE  LET v == Victim(w) IN
                 /\ v \in Worker
                 /\ ctl'[v]["cursor"] \in Int /\ ctl[v]["cursor"] \in Int
                 /\ ctl'[v]["cursor"] >= ctl[v]["cursor"]
                 /\ \A i \in Int : ctl[v]["cursor"] <= i /\ i < ctl'[v]["cursor"]
                                      => InHand(w, i)'
        <3>1. PICK v \in Worker : v = Victim(w)
            BY <1>0, VictimWorker
        <3>2. PICK from : from = ctl[v]["cursor"]
            OBVIOUS
        <3>3. PICK to : to = IF from + loc[w]["grain"] < vend[w]
                             THEN from + loc[w]["grain"] ELSE vend[w]
            OBVIOUS
        <3>4. /\ wpc[w] = "claim" /\ from < vend[w]
              /\ ctl' = [ctl EXCEPT ![v]["cursor"] = to]
              /\ chunk' = [chunk EXCEPT ![w] = <<from, to>>]
              /\ wpc' = [wpc EXCEPT ![w] = "kernel"]
            BY <2>2, <3>1, <3>2, <3>3 DEF Claim, Goto
        <3>5. "cursor" \in Word /\ "grain" \in Word
            BY DEF Word
        <3>6. from \in Int /\ vend[w] \in Int /\ loc[w]["grain"] \in Int
            BY <1>0, <3>2, <3>5 DEF MemoryTypeOK, LocalTypeOK
        <3>7. loc[w]["grain"] = call.grain /\ call.grain > 0
            <4>1. wpc[w] \in Busy /\ nread[w] = 5
                BY <1>0, <3>4 DEF Busy, WorkerPc, HandOver, CopyAgrees
            <4>2. call.grain > 0
                BY <1>0, <3>4 DEF CoverInv, Scans
            <4> QED
                BY <1>0, <4>1, <4>2, WorksOnCall
        <3>8. to \in Int /\ to >= from
            BY <3>3, <3>4, <3>6, <3>7
        <3>9. ctl'[v]["cursor"] = to
            BY <1>0, <3>4, <3>5 DEF MemoryTypeOK
        <3>10. chunk'[w] = <<from, to>> /\ wpc'[w] = "kernel"
            BY <1>0, <3>4 DEF LocalTypeOK, ControlTypeOK
        <3>11. \A i \in Int : from <= i /\ i < to => InHand(w, i)'
            BY <3>6, <3>8, <3>10 DEF InHand, Items
        <3> QED
            BY <3>1, <3>2, <3>6, <3>8, <3>9, <3>11
    <2>3. ASSUME NEW v \in Worker
          PROVE  /\ ctl[v]["cursor"] \in Int /\ ctl'[v]["cursor"] \in Int
                 /\ ctl'[v]["cursor"] >= ctl[v]["cursor"]
        <3>1. ctl[v]["cursor"] \in Int
            BY <1>0 DEF MemoryTypeOK, Word
        <3>2. CASE Claim(w) /\ v = Victim(w)
            BY <2>2, <3>2
        <3>3. CASE ~ (Claim(w) /\ v = Victim(w))
            <4>1. ctl'[v]["cursor"] = ctl[v]["cursor"]
                BY <1>0, <3>3, ScanFrame
            <4> QED
                BY <3>1, <4>1
        <3> QED
            BY <3>2, <3>3
    <2>4. ASSUME NEW v \in Worker, call.grain > 0, CursorWritten(v),
                 NEW i \in Mine(v), i < ctl'[v]["cursor"]
          PROVE  Handled(i)'
        <3>1. i \in Item /\ i \in Int
            BY <2>a, <2>c
        <3>2. CASE i < ctl[v]["cursor"]
            BY <2>0, <2>4, <2>b, <3>1, <3>2 DEF ShardCovered
        <3>3. CASE ~ (i < ctl[v]["cursor"])
            <4>1. ctl'[v]["cursor"] # ctl[v]["cursor"] /\ ctl[v]["cursor"] <= i
                BY <2>3, <2>4, <3>1, <3>3
            <4>2. Claim(w) /\ v = Victim(w)
                BY <1>0, <4>1, ScanFrame
            <4>3. InHand(w, i)'
                BY <2>2, <2>4, <3>1, <4>1, <4>2
            <4> QED
                BY <4>3 DEF Handled
        <3> QED
            BY <3>2, <3>3
    <2>5. ASSUME NEW v \in Worker, call.grain > 0, Scanned(v)', NEW i \in Mine(v)
          PROVE  i < ctl'[v]["cursor"]
        <3>1. i \in Item /\ i \in Int
            BY <2>a, <2>c
        <3>2. CASE Scanned(v)
            <4>1. i < ctl[v]["cursor"]
                BY <2>0, <2>5, <3>2 DEF ShardCovered
            <4> QED
                BY <2>3, <3>1, <4>1
        <3>3. CASE ~Scanned(v)
            <4>1. v = w
                BY <1>5, <2>5, <3>3
            <4>2. Exhausted(w) /\ off[w] = 0
                BY <2>d, <2>5, <3>3, <4>1, OwnScan
            <4>3. wpc[w] = "claim" /\ ctl[Victim(w)]["cursor"] >= vend[w]
                BY <4>2 DEF Exhausted
            <4>4. Victim(w) = w /\ vend[w] = ctl[w]["end"]
                BY <1>0, <2>5, <4>2, <4>3, VictimWorker DEF CoverInv, Scans
            <4>5. wpc[w] \in Busy /\ nread[w] = 5
                BY <1>0, <4>3 DEF Busy, WorkerPc, HandOver, CopyAgrees
            <4>6. i \in Items(ctl[w]["start"], ctl[w]["end"])
                BY <1>0, <2>5, <4>1, <4>5, WorksOnCall
            <4>7. ctl[w]["start"] \in Int /\ ctl[w]["end"] \in Int
                BY <1>0 DEF MemoryTypeOK, Word
            <4>8. i < ctl[w]["end"]
                BY <4>6, <4>7 DEF Items
            <4> QED
                BY <2>3, <3>1, <4>1, <4>3, <4>4, <4>7, <4>8
        <3> QED
            BY <3>2, <3>3
    <2>6. ASSUME NEW v \in Worker, call.grain = 0, After(v)', NEW i \in Mine(v)
          PROVE  Handled(i)'
        <3>1. i \in Item
            BY <2>a
        <3>2. CASE After(v)
            BY <2>0, <2>6, <2>b, <3>1, <3>2 DEF ShardCovered
        <3>3. CASE ~After(v)
            <4>1. v = w
                BY <1>5, <2>6, <3>3
            <4>2. KernelReturns(w)
                BY <2>d, <2>6, <3>3, <4>1, OwnScan
            <4>3. wpc[w] = "kernel"
                BY <4>2 DEF KernelReturns
            <4>4. wpc[w] \in Busy /\ nread[w] = 5
                BY <1>0, <4>3 DEF Busy, WorkerPc, HandOver, CopyAgrees
            <4>5. chunk[w][1] = ctl[w]["start"] /\ chunk[w][2] = ctl[w]["end"]
                BY <1>0, <2>6, <4>3 DEF CoverInv, Scans
            <4>6. i \in Items(chunk[w][1], chunk[w][2])
                BY <1>0, <2>6, <4>1, <4>4, <4>5, WorksOnCall
            <4>7. HasRun(i)'
                BY <2>d, <3>1, <4>2, <4>6, RunsKept
            <4> QED
                BY <4>7 DEF Handled
        <3> QED
            BY <3>2, <3>3
    <2>7. ASSUME NEW v \in Worker PROVE ShardCovered(v)'
        <3>1. CursorWritten(v)' => CursorWritten(v)
            BY <1>2 DEF CursorWritten, IsOut
        <3>2. (call.grain > 0 /\ CursorWritten(v) =>
                  \A i \in Mine(v) : i < ctl[v]["cursor"] => Handled(i))'
            BY <1>2, <2>4, <2>a, <3>1
        <3>3. (call.grain > 0 /\ Scanned(v) => \A i \in Mine(v) : i < ctl[v]["cursor"])'
            BY <1>2, <2>5, <2>a
        <3>4. (call.grain = 0 /\ After(v) => \A i \in Mine(v) : Handled(i))'
            BY <1>2, <2>6, <2>a
        <3> QED
            BY <3>2, <3>3, <3>4 DEF ShardCovered
    <2>8. Covered'
        BY <1>2, <1>7 DEF Covered, Succeeded
    <2>9. Valid(call)'
        BY <1>2, <2>0 DEF Valid
    <2>10. \A v \in Worker : Scans(v)'
        BY <1>5, <2>1
    <2> QED
        BY <1>2, <2>0, <2>7, <2>8, <2>9, <2>10 DEF CoverInv
<1> QED
    BY <1>6, <1>7, <1>8 DEF Live

(* When the Host finds every slot reported without a failure, nothing is    *)
(* left in anybody's hands.                                                 *)
LEMMA AllCovered ==
    ASSUME RunInv, hpc = "wait", AllReported, FailedStatus = OK
    PROVE  \A i \in Batch : HasRun(i)
<1>0. /\ call \in Calls /\ Valid(call) /\ cuts \in Cuts
      /\ \A w \in Worker : ShardCovered(w)
    BY DEF RunInv, DispatchInv, CoverInv, TypeOK, HostTypeOK, Live
<1>1. ASSUME NEW w \in Worker
      PROVE  /\ After(w)
             /\ wpc[w] \in {"check", "parked"}
             /\ ctl[w]["status"] = OK
    <2>1. ctl[w]["status"] = OK /\ ctl[w]["done"] = epoch
        BY FailedStatusFound DEF AllReported, Reported
    <2>2. Quiet(w) /\ ctl[w]["epoch"] = epoch
        BY <2>1 DEF RunInv, DispatchInv, SlotInv, Published
    <2>3. wpc[w] # "dead"
        BY <2>1 DEF RunInv, DispatchInv, HandOver, DeathReported, OK, RUNTIME_FAILED
    <2> QED
        BY <2>1, <2>2, <2>3 DEF After, Quiet
<1>2. ASSUME NEW i \in Batch PROVE HasRun(i)
    <2>1. PICK w \in Worker : i \in Mine(w)
        BY <1>0, SharesOfCall DEF Batch, Mine
    <2>2. Handled(i)
        <3>1. call.grain \in Nat
            BY <1>0, DispatchAssumption
        <3>2. CASE call.grain = 0
            BY <1>0, <1>1, <2>1, <3>2 DEF ShardCovered
        <3>3. CASE call.grain > 0
            <4>1. CursorWritten(w) /\ Scanned(w)
                BY <1>1 DEF CursorWritten, IsOut, Scanned
            <4> QED
                BY <1>0, <2>1, <3>3, <4>1 DEF ShardCovered
        <3> QED
            BY <3>1, <3>2, <3>3
    <2>3. \A v \in Worker : ~InHand(v, i) /\ ~Failing(v)
        BY <1>1 DEF InHand, Failing
    <2> QED
        BY <2>2, <2>3 DEF Handled
<1> QED
    BY <1>2

(* start_run writes the cursor of a slot before its epoch, at the first     *)
(* item of the share, while nobody has anything of the share in hand.       *)
LEMMA HostCover ==
    ASSUME MaxTimeouts = 0, RunInv,
           \/ \E c \in Calls : Begin(c) \/ Reject(c)
           \/ HostStep \/ CancelActive \/ Timeout
    PROVE  CoverInv'
<1>0. /\ MemoryTypeOK /\ HostTypeOK /\ ControlTypeOK /\ LocalTypeOK
      /\ SlotInv /\ HandOver /\ CoverInv
      /\ applied \in [Item -> Seq(Int)] /\ \A w \in Worker : Scans(w)
      /\ Covered
    BY DEF RunInv, DispatchInv, TypeOK, CoverInv
<1> USE DEF workerVars, localVars, hostVars
<1>a. hpc' # "idle" \/ outcome' # "ok" => Covered'
    BY DEF Covered, Succeeded
<1>b. hpc # "idle" => /\ call \in Calls /\ Valid(call)
                      /\ \A w \in Worker : ShardCovered(w)
    BY <1>0 DEF CoverInv, Live
<1>c. hpc # "idle" => ~failure
    BY <1>0 DEF SlotInv
<1>1. ASSUME NEW c \in Calls, Begin(c) PROVE CoverInv'
    <2>1. /\ hpc = "idle" /\ ~failure /\ Valid(c) /\ call' = c
          /\ hpc' = "write" /\ slot' = 0 /\ step' = 1
          /\ applied' = Untouched /\ epoch' = NextEpoch(epoch)
          /\ UNCHANGED <<ctl, failure, workerVars>>
        BY <1>1 DEF Begin
    <2>2. applied' \in [Item -> Seq(Int)]
        <3>1. <<>> \in Seq(Int)
            OBVIOUS
        <3> QED
            BY <2>1, <3>1 DEF Untouched
    <2>3. ASSUME NEW w \in Worker PROVE Scans(w)' /\ ShardCovered(w)'
        <3>1. Settled(w) /\ epoch' # epoch
            BY <1>0, <2>1, NextEpochFresh DEF SlotInv, HostTypeOK
        <3>2. \/ wpc'[w] \in {"check", "parked"} /\ seen'[w] # epoch'
              \/ wpc'[w] = "dead"
            BY <2>1, <3>1 DEF Settled, Quiet
        <3>3. ~After(w)' /\ ~Scanned(w)'
            BY <3>2 DEF After, Scanned
        <3>4. ~CursorWritten(w)'
            BY <2>1 DEF CursorWritten, IsOut, Worker
        <3>5. ShardCovered(w)'
            BY <3>3, <3>4 DEF ShardCovered
        <3>6. Scans(w)'
            BY <1>0, <2>1, <3>2 DEF Scans
        <3> QED
            BY <3>5, <3>6
    <2>4. call' \in Calls /\ Valid(call)'
        BY <2>1 DEF Valid
    <2> QED
        BY <2>1, <2>2, <2>3, <2>4, <1>a DEF CoverInv
<1>2. ASSUME NEW c \in Calls, Reject(c) PROVE CoverInv'
    <2>1. /\ outcome' # "ok" /\ hpc' = "idle"
          /\ UNCHANGED <<ctl, hpc, call, failure, workerVars, applied>>
        BY <1>2 DEF Reject
    <2>2. \A w \in Worker : Scans(w)'
        BY <1>0, <2>1 DEF Scans
    <2> QED
        BY <1>0, <2>1, <2>2, <1>a DEF CoverInv, Live, Valid
<1>3. CASE WriteWord
    <2>1. WriteOrder[step] \in Word \ {"epoch"} /\ slot \in Worker /\ hpc = "write"
          /\ step' = step + 1 /\ step \in 1 .. 7
          /\ UNCHANGED <<hpc, slot, call, cuts, epoch, failure, workerVars, applied>>
        BY <1>0, <1>3, WriteOrderType DEF WriteWord, HostTypeOK
    <2>2. ctl' = [ctl EXCEPT ![slot][WriteOrder[step]] = Descriptor(slot)[WriteOrder[step]]]
        BY <1>3 DEF WriteWord
    <2>3. \A w \in Worker : w # slot => ctl'[w] = ctl[w]
        BY <1>0, <2>1, <2>2 DEF MemoryTypeOK
    <2>4. Fresh(slot)
        BY <1>0, <2>1 DEF SlotInv, Worker
    <2>5. \/ wpc[slot] = "dead"
          \/ wpc[slot] \in {"check", "parked"} /\ seen[slot] # epoch
        BY <2>4 DEF Fresh, Quiet
    <2>6. ~IsOut(slot)
        BY <1>c, <2>1 DEF IsOut, Worker
    <2>7. \A i : Handled(i) => Handled(i)'
        BY <2>1, <2>3, <2>6 DEF Handled, HasRun, InHand, Failing, IsOut
    <2>8. ASSUME NEW w \in Worker, w # slot PROVE Scans(w)' /\ ShardCovered(w)'
        <3>1. CursorWritten(w)' => CursorWritten(w)
            BY <2>1, <2>8 DEF CursorWritten, IsOut
        <3>2. (After(w)' => After(w)) /\ (Scanned(w)' => Scanned(w)) /\ Mine(w)' = Mine(w)
            BY <2>1, <2>3, <2>8 DEF After, Scanned, Mine
        <3>3. ShardCovered(w)
            BY <1>b, <2>1
        <3>4. ShardCovered(w)'
            BY <2>1, <2>3, <2>7, <2>8, <3>1, <3>2, <3>3 DEF ShardCovered
        <3>5. Scans(w)'
            BY <1>0, <2>1, <2>3, <2>8 DEF Scans
        <3> QED
            BY <3>4, <3>5
    <2>9. Scans(slot)'
        BY <1>0, <2>1, <2>5 DEF Scans
    <2>10. ShardCovered(slot)'
        <3>1. ~After(slot)' /\ ~Scanned(slot)'
            BY <2>1, <2>5 DEF After, Scanned
        <3>2. ASSUME CursorWritten(slot)', call.grain > 0,
                     NEW i \in Mine(slot), i < ctl'[slot]["cursor"]
              PROVE  Handled(i)'
            <4>1. step >= 5
                BY <2>1, <2>6, <3>2 DEF CursorWritten, IsOut
            <4>2. CASE step = 5
                <5>1. ctl'[slot]["cursor"] = WorkerStart(cuts, call.start, call.end, slot)
                    BY <1>0, <2>1, <2>2, <4>2 DEF MemoryTypeOK, WriteOrder, Descriptor, Word
                <5>2. i \in Items(ctl'[slot]["cursor"],
                                  WorkerEnd(cuts, call.start, call.end, slot))
                    BY <3>2, <5>1 DEF Mine, Share
                <5>3. /\ WorkerStart(cuts, call.start, call.end, slot) \in Int
                      /\ WorkerEnd(cuts, call.start, call.end, slot) \in Int
                    <6>1. call.start \in Int /\ call.end \in Int /\ IsWeighting(cuts)
                        BY <1>0, <1>b, <2>1, DispatchAssumption DEF HostTypeOK
                    <6> QED
                        BY <2>1, <6>1, WorkerStartType
                <5>4. ~ (i < ctl'[slot]["cursor"])
                    BY <5>1, <5>2, <5>3 DEF Items
                <5> QED
                    BY <3>2, <5>4
            <4>3. CASE step > 5
                <5>1. WriteOrder[step] # "cursor"
                    <6>1. step = 6 \/ step = 7
                        BY <2>1, <4>3
                    <6> QED
                        BY <6>1 DEF WriteOrder
                <5>2. ctl'[slot]["cursor"] = ctl[slot]["cursor"]
                    BY <1>0, <2>1, <2>2, <5>1 DEF MemoryTypeOK, Word
                <5>3. CursorWritten(slot)
                    BY <2>1, <4>3 DEF CursorWritten
                <5> QED
                    BY <1>b, <2>1, <2>7, <3>2, <5>2, <5>3 DEF ShardCovered
            <4> QED
                BY <2>1, <4>1, <4>2, <4>3
        <3>3. Mine(slot)' = Mine(slot) /\ slot' = slot /\ call' = call
            BY <2>1 DEF Mine
        <3> QED
            BY <3>1, <3>2, <3>3 DEF ShardCovered
    <2>11. \A w \in Worker : Scans(w)' /\ ShardCovered(w)'
        <3>1. ASSUME NEW w \in Worker PROVE Scans(w)' /\ ShardCovered(w)'
            <4>1. CASE w = slot
                BY <2>1, <2>9, <2>10, <4>1
            <4>2. CASE w # slot
                BY <2>8, <4>2
            <4> QED
                BY <4>1, <4>2
        <3> QED
            BY <3>1
    <2>12. call' \in Calls /\ Valid(call)' /\ hpc' # "idle" /\ applied' \in [Item -> Seq(Int)]
        BY <1>0, <1>b, <2>1 DEF Valid
    <2> QED
        BY <2>11, <2>12, <1>a DEF CoverInv
<1>4. CASE Publish
    <2>1. /\ slot \in Worker /\ hpc = "write" /\ hpc' # "idle"
          /\ hpc' = IF slot + 1 = N THEN "wait" ELSE "write"
          /\ WriteOrder[step] = "epoch" /\ slot' = slot + 1 /\ step' = 1
          /\ UNCHANGED <<call, cuts, epoch, failure, localVars, applied>>
        BY <1>0, <1>4 DEF Publish, HostTypeOK
    <2>2. \A w \in Worker : \A f \in Word \ {"epoch"} : ctl'[w][f] = ctl[w][f]
        BY <1>0, <1>4, <2>1 DEF Publish, MemoryTypeOK
    <2>3. \A w \in Worker : wpc'[w] = wpc[w] \/ (wpc[w] = "parked" /\ wpc'[w] = "check")
        BY <1>0, <1>4 DEF Publish, ControlTypeOK
    <2>4. {"status", "start", "end", "cursor", "done"} \subseteq Word \ {"epoch"}
        BY DEF Word
    <2>5. \A w \in Worker : IsOut(w) => IsOut(w)'
        BY <2>1, NAssumption DEF IsOut, Worker
    <2>6. \A w \in Worker : CursorWritten(w)' => CursorWritten(w)
        <3>1. step = 8
            BY <1>0, <2>1, WriteOrderType DEF HostTypeOK
        <3> QED
            BY <2>1, <3>1, NAssumption DEF CursorWritten, IsOut, Worker
    <2>7. \A i : Handled(i) => Handled(i)'
        BY <2>1, <2>2, <2>3, <2>4, <2>5 DEF Handled, HasRun, InHand, Failing
    <2>8. ASSUME NEW w \in Worker PROVE Scans(w)' /\ ShardCovered(w)'
        <3>1. (After(w)' => After(w)) /\ (Scanned(w)' => Scanned(w)) /\ Mine(w)' = Mine(w)
            BY <2>1, <2>2, <2>3, <2>4 DEF After, Scanned, Mine
        <3>2. ShardCovered(w)
            BY <1>b, <2>1
        <3>3. ShardCovered(w)'
            BY <2>1, <2>2, <2>4, <2>6, <2>7, <3>1, <3>2 DEF ShardCovered
        <3>4. Scans(w)'
            BY <1>0, <2>1, <2>2, <2>3, <2>4 DEF Scans
        <3> QED
            BY <3>3, <3>4
    <2>9. call' \in Calls /\ Valid(call)' /\ applied' \in [Item -> Seq(Int)]
        BY <1>0, <1>b, <2>1 DEF Valid
    <2> QED
        BY <2>1, <2>8, <2>9, <1>a DEF CoverInv
<1>5. CASE CancelActive
    <2>1. hpc' # "idle" /\ hpc # "idle"
          /\ UNCHANGED <<ctl, hpc, slot, step, call, cuts, epoch, failure, workerVars,
                         applied>>
        BY <1>5 DEF CancelActive
    <2>2. \A i : Handled(i) => Handled(i)'
        BY <2>1 DEF Handled, HasRun, InHand, Failing, IsOut
    <2>3. ASSUME NEW w \in Worker PROVE Scans(w)' /\ ShardCovered(w)'
        <3>1. /\ (After(w)' => After(w)) /\ (Scanned(w)' => Scanned(w))
              /\ Mine(w)' = Mine(w) /\ (CursorWritten(w)' => CursorWritten(w))
            BY <2>1 DEF After, Scanned, Mine, CursorWritten, IsOut
        <3>2. ShardCovered(w)'
            BY <1>b, <2>1, <2>2, <3>1 DEF ShardCovered
        <3>3. Scans(w)'
            BY <1>0, <2>1 DEF Scans
        <3> QED
            BY <3>2, <3>3
    <2>4. call' \in Calls /\ Valid(call)' /\ applied' \in [Item -> Seq(Int)]
        BY <1>0, <1>b, <2>1 DEF Valid
    <2> QED
        BY <2>1, <2>3, <2>4, <1>a DEF CoverInv
<1>6. ASSUME NEW o, NEW p \in BOOLEAN, Return(o, p), hpc = "wait",
             o = "ok" => AllReported /\ FailedStatus = OK
      PROVE  CoverInv'
    <2>1. /\ hpc' = "idle" /\ outcome' = o
          /\ UNCHANGED <<ctl, call, workerVars, applied>>
        BY <1>6 DEF Return
    <2>2. \A w \in Worker : Scans(w)'
        BY <1>0, <2>1 DEF Scans
    <2>3. Covered'
        <3>1. CASE o = "ok"
            <4>1. \A i \in Batch : HasRun(i)
                BY <1>6, <3>1, AllCovered
            <4> QED
                BY <2>1, <4>1 DEF Covered, Batch, HasRun
        <3> QED
            BY <1>a, <2>1, <3>1
    <2>4. call' \in Calls /\ Valid(call)'
        BY <1>6, <1>b, <2>1 DEF Valid
    <2> QED
        BY <1>0, <2>1, <2>2, <2>3, <2>4 DEF CoverInv
<1>7. CASE Poll
    <2>1. (call.api = "range") \in BOOLEAN
        OBVIOUS
    <2>2. CASE ReturnRuntimeFailure
        BY <1>6, <2>2 DEF ReturnRuntimeFailure
    <2>3. CASE ReturnStatus
        BY <1>6, <2>1, <2>3 DEF ReturnStatus
    <2>4. CASE ReturnOk
        BY <1>6, <2>4 DEF ReturnOk
    <2> QED
        BY <1>7, <2>2, <2>3, <2>4 DEF Poll
<1>8. CASE Timeout
    BY <1>0, <1>8 DEF Timeout, HostTypeOK
<1> QED
    BY <1>1, <1>2, <1>3, <1>4, <1>5, <1>7, <1>8 DEF HostStep

LEMMA RunInvHolds ==
    ASSUME MaxTimeouts = 0
    PROVE  Spec => []RunInv
<1>1. Init => CoverInv
    <2> SUFFICES ASSUME Init PROVE CoverInv
        OBVIOUS
    <2>1. applied \in [Item -> Seq(Int)]
        <3>1. <<>> \in Seq(Int)
            OBVIOUS
        <3> QED
            BY <3>1 DEF Init, Untouched
    <2>2. \A w \in Worker : Scans(w)
        BY DEF Init, Scans
    <2> QED
        BY <2>1, <2>2 DEF Init, CoverInv, Live, Covered, Succeeded
<1>2. DispatchInv /\ CoverInv /\ [Next]_vars => CoverInv'
    <2> SUFFICES ASSUME RunInv, [Next]_vars PROVE CoverInv'
        BY DEF RunInv
    <2>1. CASE \E w \in Worker : WorkerStep(w)
        BY <2>1, WorkerCover
    <2>2. CASE \/ \E c \in Calls : Begin(c) \/ Reject(c)
               \/ HostStep \/ CancelActive \/ Timeout
        BY <2>2, HostCover
    <2>3. CASE UNCHANGED vars
        <3>1. CoverInv
            BY DEF RunInv
        <3> QED
            BY <2>3, <3>1 DEF vars, hostVars, workerVars, localVars, CoverInv, Live,
               Valid, ShardCovered, Scans, Covered, Succeeded, Batch, Mine, After, Scanned,
               CursorWritten, IsOut, Handled, HasRun, InHand, Failing
    <2> QED
        BY <2>1, <2>2, <2>3 DEF Next
<1> QED
    BY <1>1, <1>2, DispatchInvHolds, PTL DEF Spec, RunInv

(* A dispatch that succeeds has run its kernel on every item of its range   *)
(* (par_chunks, run_dispatch_worker: chunks are claimed "until the range is *)
(* exhausted"), also when a Worker that was fast has stolen from a slot     *)
(* that still held the dispatch before.                                     *)
THEOREM CoveredHolds ==
    ASSUME MaxTimeouts = 0
    PROVE  Spec => []Covered
<1>1. RunInv => Covered
    BY DEF RunInv, CoverInv
<1> QED
    BY <1>1, RunInvHolds, PTL

-----------------------------------------------------------------------------
(* Reductions.  par_reduce dispatches statically (run_reducer_async passes  *)
(* a zero grain).                                                           *)
ReducersStatic == \A c \in Calls : c.api = "reduce" => c.grain = 0

(* A partial result of the kernel of the dispatch.                          *)
Part(a, b) == [from |-> a, to |-> b, kernel |-> call.kernel]
Parts == [from : Int, to : Int, kernel : Int]

(* Partial results of that kernel that cover the items from a to b.         *)
Tiles(s, a, b) ==
    /\ Len(s) = 0 <=> a = b
    /\ Len(s) > 0 => s[1].from = a /\ s[Len(s)].to = b
    /\ \A k \in 1 .. Len(s) - 1 : s[k].to = s[k + 1].from
    /\ \A k \in 1 .. Len(s) : s[k].kernel = call.kernel

(* The result a Worker is about to store, and has stored, is that of its    *)
(* whole range.                                                             *)
Results(w) ==
    /\ wpc[w] = "result" => chunk[w] = <<ctl[w]["start"], ctl[w]["end"]>>
    /\ After(w) /\ wpc[w] # "result" =>
          partial[w] = Part(ctl[w]["start"], ctl[w]["end"])

ReduceInv ==
    /\ partial \in [Worker -> Parts]
    /\ hpc # "idle" /\ call.grain = 0 => \A w \in Worker : Results(w)
    /\ ReduceTiles

TileInv == RunInv /\ ReduceInv

(* Combined is what its definition says.                                    *)
LEMMA CombinedRecursive ==
    ASSUME TypeOK, partial \in [Worker -> Parts]
    PROVE  /\ Combined \in [0 .. N -> Seq(Parts)] /\ Combined[0] = <<>>
           /\ \A w \in Worker :
                 Combined[w + 1] = IF ctl[w]["start"] < ctl[w]["end"]
                                   THEN Append(Combined[w], partial[w])
                                   ELSE Combined[w]
<1> DEFINE Sums == Seq(Parts)
           Next1(w, s) == IF ctl[w]["start"] < ctl[w]["end"]
                          THEN Append(s, partial[w]) ELSE s
           G == [k \in 1 .. N |-> [s \in Sums |-> Next1(k - 1, s)]]
<1>0. N \in Nat /\ \A k \in 1 .. N : k - 1 \in Worker /\ k - 1 \in 0 .. N
    BY NAssumption DEF Worker
<1>1. \A w \in Worker, s \in Sums : Next1(w, s) \in Sums
    OBVIOUS
<1>2. G \in [1 .. N -> [Sums -> Sums]]
    BY <1>0, <1>1
<1>3. \A k \in 1 .. N, s \in Sums : G[k][s] = Next1(k - 1, s)
    OBVIOUS
<1>4. <<>> \in Sums
    OBVIOUS
<1>5. PICK f \in [0 .. N -> Sums] : Iterates(f, N, <<>>, G)
    <2> HIDE DEF G, Sums
    <2> QED
        BY <1>0, <1>2, <1>4, Recursion
<1>6. /\ f[0] = <<>>
      /\ \A k \in 1 .. N : f[k] = Next1(k - 1, f[k - 1])
    <2> HIDE DEF G, Sums, Next1
    <2> QED
        BY <1>0, <1>3, <1>5 DEF Iterates
<1> HIDE DEF G, Sums
<1>7. f = [n \in 0 .. N |-> IF n = 0 THEN <<>>
                            ELSE IF ctl[n - 1]["start"] < ctl[n - 1]["end"]
                                 THEN Append(f[n - 1], partial[n - 1])
                                 ELSE f[n - 1]]
    <2>1. ASSUME NEW n \in 0 .. N
          PROVE  f[n] = IF n = 0 THEN <<>>
                        ELSE IF ctl[n - 1]["start"] < ctl[n - 1]["end"]
                             THEN Append(f[n - 1], partial[n - 1])
                             ELSE f[n - 1]
        <3>1. CASE n = 0
            BY <1>6, <3>1
        <3>2. CASE n # 0
            <4>1. n \in 1 .. N
                BY <1>0, <3>2
            <4> QED
                BY <1>6, <3>2, <4>1
        <3> QED
            BY <3>1, <3>2
    <2>2. f = [n \in 0 .. N |-> f[n]]
        OBVIOUS
    <2> QED
        BY <2>1, <2>2
<1>8. Combined = [n \in 0 .. N |-> IF n = 0 THEN <<>>
                            ELSE IF ctl[n - 1]["start"] < ctl[n - 1]["end"]
                                 THEN Append(Combined[n - 1], partial[n - 1])
                                 ELSE Combined[n - 1]]
    BY <1>7 DEF Combined
<1>9. \A n \in 0 .. N : Combined[n] = f[n]
    <2> DEFINE P == {n \in 0 .. N : Combined[n] = f[n]}
    <2>1. 0 \in P
        BY <1>0, <1>6, <1>8
    <2>2. ASSUME NEW k \in 1 .. N, k - 1 \in P PROVE k \in P
        <3>1. k \in 0 .. N /\ k # 0 /\ Combined[k - 1] = f[k - 1]
            BY <1>0, <2>2
        <3>2. Combined[k] = Next1(k - 1, Combined[k - 1])
            BY <1>8, <3>1
        <3> QED
            BY <1>6, <3>1, <3>2
    <2> HIDE DEF P
    <2>3. \A n \in 0 .. N : n \in P
        BY <1>0, <2>1, <2>2, Upwards
    <2> QED
        BY <2>3 DEF P
<1>10. Combined = f
    <2>1. Combined = [n \in 0 .. N |-> Combined[n]]
        BY <1>8
    <2>2. f = [n \in 0 .. N |-> f[n]]
        OBVIOUS
    <2> QED
        BY <1>9, <2>1, <2>2
<1>11. ASSUME NEW w \in Worker
       PROVE  Combined[w + 1] = Next1(w, Combined[w])
    <2>1. w + 1 \in 1 .. N /\ (w + 1) - 1 = w
        BY NAssumption DEF Worker
    <2>2. f[w + 1] = Next1((w + 1) - 1, f[(w + 1) - 1])
        <3> HIDE DEF Next1
        <3> QED
            BY <1>6, <2>1
    <2> QED
        BY <1>10, <2>1, <2>2
<1> QED
    BY <1>6, <1>10, <1>11 DEF Sums

LEMMA TileAdded ==
    ASSUME NEW s \in Seq(Parts), NEW a \in Int, NEW b \in Int, NEW c \in Int,
           Tiles(s, a, b), a <= b, b < c
    PROVE  Tiles(Append(s, Part(b, c)), a, c)
<1> DEFINE t == Append(s, Part(b, c))
           n == Len(s)
<1>1. /\ n \in Nat /\ Len(t) = n + 1
      /\ \A k \in 1 .. n : t[k] = s[k]
      /\ t[n + 1] = Part(b, c)
    OBVIOUS
<1>2. t[n + 1].from = b /\ t[n + 1].to = c /\ t[n + 1].kernel = call.kernel
    BY <1>1 DEF Part
<1>3. t[1].from = a
    <2>1. CASE n = 0
        BY <1>1, <1>2, <2>1 DEF Tiles
    <2>2. CASE n > 0
        BY <1>1, <2>2 DEF Tiles
    <2> QED
        BY <1>1, <2>1, <2>2
<1>4. ASSUME NEW k \in 1 .. n
      PROVE  t[k].to = t[k + 1].from /\ t[k].kernel = call.kernel
    <2>1. CASE k = n
        BY <1>1, <1>2, <2>1 DEF Tiles
    <2>2. CASE k # n
        <3>1. k \in 1 .. n - 1 /\ k + 1 \in 1 .. n
            BY <1>1, <2>2
        <3> QED
            BY <1>1, <3>1 DEF Tiles
    <2> QED
        BY <2>1, <2>2
<1> HIDE DEF t, n
<1>5. Len(t) # 0 /\ Len(t) > 0 /\ Len(t) - 1 = n /\ a # c
    BY <1>1
<1>6. Tiles(t, a, c)
    BY <1>1, <1>2, <1>3, <1>4, <1>5 DEF Tiles
<1> QED
    BY <1>6 DEF t

(* When the Host finds every slot reported without a failure, what it       *)
(* combines covers the range.                                               *)
LEMMA AllCombined ==
    ASSUME TileInv, hpc = "wait", AllReported, FailedStatus = OK, call.grain = 0
    PROVE  Tiles(Combined[N], call.start, call.end)
<1> DEFINE Cut(n) == WorkerStart(cuts, call.start, call.end, n)
           P == {n \in 0 .. N : Tiles(Combined[n], call.start, Cut(n))}
<1>0. /\ call \in Calls /\ Valid(call) /\ cuts \in Cuts /\ HandOver
      /\ partial \in [Worker -> Parts] /\ TypeOK
    BY DEF TileInv, RunInv, ReduceInv, DispatchInv, CoverInv, TypeOK, HostTypeOK, Live
<1>1. /\ call.start \in Int /\ call.end \in Int /\ IsWeighting(cuts)
      /\ call.start <= call.end
    BY <1>0, DispatchAssumption DEF Valid
<1>2. \A n \in 0 .. N : Cut(n) \in Int
    BY <1>1, CutType
<1>3. /\ Cut(0) = call.start /\ Cut(N) = call.end
    BY <1>1, OuterCuts
<1>4. ASSUME NEW w \in Worker
      PROVE  /\ partial[w] = Part(Cut(w), Cut(w + 1))
             /\ ctl[w]["start"] = Cut(w) /\ ctl[w]["end"] = Cut(w + 1)
             /\ Cut(w) <= Cut(w + 1) /\ call.start <= Cut(w)
             /\ Cut(w) \in Int /\ Cut(w + 1) \in Int
    <2>1. ctl[w]["status"] = OK /\ ctl[w]["done"] = epoch
        BY FailedStatusFound DEF AllReported, Reported
    <2>2. Quiet(w) /\ ctl[w]["epoch"] = epoch
        BY <2>1 DEF TileInv, RunInv, DispatchInv, SlotInv, Published
    <2>3. wpc[w] # "dead"
        BY <1>0, <2>1 DEF HandOver, DeathReported, OK, RUNTIME_FAILED
    <2>4. After(w) /\ wpc[w] # "result"
        BY <2>1, <2>2, <2>3 DEF After, Quiet
    <2>5. partial[w] = Part(ctl[w]["start"], ctl[w]["end"])
        BY <2>4 DEF TileInv, ReduceInv, Results
    <2>6. Given(w)
        BY <1>0 DEF HandOver, SlotHolds, IsOut
    <2>7. /\ ctl[w]["start"] = Cut(w)
          /\ ctl[w]["end"] = WorkerEnd(cuts, call.start, call.end, w)
        BY <2>6 DEF Given, Descriptor, Arguments, Word
    <2>8. WorkerEnd(cuts, call.start, call.end, w) = Cut(w + 1)
        BY <1>1, SharesAdjoin
    <2>9. 0 \in 0 .. N /\ w \in 0 .. N /\ w + 1 \in 0 .. N /\ 0 <= w /\ w <= w + 1
        BY NAssumption DEF Worker
    <2>10. Cut(0) <= Cut(w) /\ Cut(w) <= Cut(w + 1)
        BY <1>1, <2>9, CutsGrow
    <2> QED
        BY <1>2, <1>3, <2>5, <2>7, <2>8, <2>9, <2>10
<1>5. /\ Combined \in [0 .. N -> Seq(Parts)] /\ Combined[0] = <<>>
      /\ \A w \in Worker : Combined[w + 1] = IF ctl[w]["start"] < ctl[w]["end"]
                                             THEN Append(Combined[w], partial[w])
                                             ELSE Combined[w]
    BY <1>0, CombinedRecursive
<1> HIDE DEF Cut
<1>6. 0 \in P
    BY <1>3, <1>5, NAssumption DEF Tiles
<1>7. ASSUME NEW k \in 1 .. N, k - 1 \in P PROVE k \in P
    <2>1. PICK w \in Worker : w = k - 1 /\ w + 1 = k
        BY NAssumption DEF Worker
    <2>2. Tiles(Combined[w], call.start, Cut(w)) /\ Combined[w] \in Seq(Parts)
        BY <1>5, <1>7, <2>1
    <2>3. Tiles(Combined[w + 1], call.start, Cut(w + 1))
        <3>1. CASE Cut(w) < Cut(w + 1)
            <4>1. Combined[w + 1] = Append(Combined[w], Part(Cut(w), Cut(w + 1)))
                BY <1>4, <1>5, <3>1
            <4> QED
                BY <1>1, <1>4, <2>2, <3>1, <4>1, TileAdded
        <3>2. CASE ~ (Cut(w) < Cut(w + 1))
            <4>1. Combined[w + 1] = Combined[w] /\ Cut(w + 1) = Cut(w)
                BY <1>4, <1>5, <3>2
            <4> QED
                BY <2>2, <4>1
        <3> QED
            BY <3>1, <3>2
    <2> QED
        BY <2>1, <2>3
<1>8. N \in P
    <2> HIDE DEF P
    <2>1. N \in Nat /\ N \in 0 .. N
        BY NAssumption
    <2> QED
        BY <1>6, <1>7, <2>1, Upwards
<1> QED
    BY <1>3, <1>8

LEMMA WorkerReduce ==
    ASSUME TileInv, NEW w \in Worker, WorkerStep(w)
    PROVE  ReduceInv'
<1>0. /\ MemoryTypeOK /\ HostTypeOK /\ ControlTypeOK /\ LocalTypeOK /\ TypeOK
      /\ HandOver /\ DispatchInv /\ RunInv /\ ReduceInv
      /\ partial \in [Worker -> Parts]
    BY DEF TileInv, RunInv, DispatchInv, TypeOK, ReduceInv
<1>1. UNCHANGED hostVars /\ WordsKept(w) /\ LocalsKept(w)
    BY <1>0, WorkerFrame
<1>2. UNCHANGED <<hpc, call, epoch, outcome, collected>>
    BY <1>1 DEF hostVars
<1>3. \A v \in Worker : /\ ctl'[v]["start"] = ctl[v]["start"]
                        /\ ctl'[v]["end"] = ctl[v]["end"]
                        /\ v # w => ctl'[v]["status"] = ctl[v]["status"]
    BY <1>1 DEF WordsKept, Word
<1>4. ReduceTiles'
    BY <1>0, <1>2 DEF ReduceInv, ReduceTiles, Succeeded
<1>5. /\ partial' \in [Worker -> Parts]
      /\ \A v \in Worker \ {w} : partial'[v] = partial[v]
    <2>1. CASE StoreResult(w)
        <3>1. /\ chunk[w][1] \in Int /\ chunk[w][2] \in Int
              /\ loc[w]["kernel"] \in Int /\ NoResult \in Parts
            BY <1>0 DEF LocalTypeOK, NoResult, Parts, Word
        <3>2. [from |-> chunk[w][1], to |-> chunk[w][2],
               kernel |-> loc[w]["kernel"]] \in Parts
            BY <3>1 DEF Parts
        <3>3. \E x \in Parts : partial' = [partial EXCEPT ![w] = x]
            BY <2>1, <3>1, <3>2 DEF StoreResult
        <3> QED
            BY <1>0, <3>3
    <2>2. CASE ~StoreResult(w)
        <3>1. partial' = partial
            BY <2>2 DEF WorkerStep, Park, Observe, ReadWord, StartStatic, StartDynamic,
               NextVictim, CheckCancel, Claim, Exhausted, KernelReturns,
               KernelUnknown, KernelThrows, Catch, StoreStatus, StoreDone, Gone
        <3> QED
            BY <1>0, <3>1
    <2> QED
        BY <2>1, <2>2
<1>6. ASSUME hpc # "idle", call.grain = 0, NEW v \in Worker PROVE Results(v)'
    <2>0. \A u \in Worker : Results(u)
        BY <1>0, <1>6 DEF ReduceInv
    <2>1. CASE v # w
        <3>1. Results(v) /\ partial'[v] = partial[v] /\ v \in Worker \ {w}
            BY <1>5, <2>0, <2>1
        <3> QED
            BY <1>1, <1>2, <1>3, <2>1, <3>1 DEF LocalsKept, Results, After, Part
    <2>2. CASE v = w
        <3>0. Results(w) /\ Scans(w)
            BY <1>0, <2>0 DEF RunInv, CoverInv
        <3>a. ASSUME NEW pc, Goto(w, pc)
              PROVE  wpc'[w] = pc
            BY <1>0, <3>a DEF Goto, ControlTypeOK
        <3>b. wpc'[w] # "result" /\ ~After(w)' => Results(w)'
            BY DEF Results
        <3> SUFFICES Results(w)'
            BY <2>2
        <3>1. CASE Park(w)
            <4>1. wpc[w] = "check" /\ wpc'[w] = "parked"
                  /\ UNCHANGED <<ctl, partial, chunk, seen, wstatus>>
                BY <3>1, <3>a DEF Park, localVars
            <4> QED
                BY <1>2, <3>0, <4>1 DEF Results, After, Part
        <3>2. CASE Observe(w) \/ ReadWord(w) \/ StartStatic(w) \/ StartDynamic(w)
                   \/ Claim(w) \/ Exhausted(w) \/ KernelThrows(w)
            <4>1. wpc'[w] \in {"read", "kernel", "victim", "catch"}
                BY <3>2, <3>a DEF Observe, ReadWord, StartStatic, StartDynamic,
                   Claim, Exhausted, KernelThrows
            <4> QED
                BY <3>b, <4>1 DEF After
        <3>3. CASE NextVictim(w) \/ CheckCancel(w)
            <4>1. call.grain > 0
                BY <3>0, <3>3 DEF NextVictim, CheckCancel, Scans
            <4> QED
                BY <1>6, <4>1
        <3>4. CASE KernelReturns(w) \/ KernelUnknown(w)
            <4>1. wpc[w] = "kernel" /\ UNCHANGED <<ctl, chunk>>
                BY <3>4 DEF KernelReturns, KernelUnknown
            <4>2. chunk[w] = <<ctl[w]["start"], ctl[w]["end"]>>
                BY <1>6, <3>0, <4>1 DEF Scans
            <4>3. wpc'[w] = "result"
                <5>1. CASE KernelUnknown(w)
                    BY <3>a, <5>1 DEF KernelUnknown
                <5>2. CASE KernelReturns(w)
                    <6>1. wpc[w] \in Busy /\ nread[w] = 5
                        BY <1>0, <4>1 DEF Busy, WorkerPc, HandOver, CopyAgrees
                    <6>2. loc[w]["grain"] = 0
                        BY <1>0, <1>6, <6>1, WorksOnCall
                    <6> QED
                        BY <3>a, <5>2, <6>2 DEF KernelReturns
                <5> QED
                    BY <3>4, <5>1, <5>2
            <4> QED
                BY <4>1, <4>2, <4>3 DEF Results
        <3>5. CASE Catch(w)
            <4>1. wpc'[w] = "status" /\ wstatus'[w] = RUNTIME_FAILED
                BY <1>0, <3>5, <3>a DEF Catch, LocalTypeOK
            <4> QED
                BY <3>b, <4>1 DEF After, OK, RUNTIME_FAILED
        <3>6. CASE StoreResult(w)
            <4>1. /\ wpc[w] = "result" /\ wpc'[w] = "status"
                  /\ UNCHANGED <<ctl, wstatus>>
                  /\ wstatus[w] # UNKNOWN =>
                        partial'[w] = [from |-> chunk[w][1], to |-> chunk[w][2],
                                       kernel |-> loc[w]["kernel"]]
                BY <1>0, <3>6, <3>a DEF StoreResult, localVars
            <4>2. wpc[w] \in Busy /\ nread[w] = 5
                BY <1>0, <4>1 DEF Busy, WorkerPc, HandOver, CopyAgrees
            <4>3. loc[w]["kernel"] = call.kernel
                BY <1>0, <4>2, WorksOnCall
            <4>4. chunk[w] = <<ctl[w]["start"], ctl[w]["end"]>>
                BY <3>0, <4>1 DEF Results
            <4>5. wstatus[w] # UNKNOWN =>
                     partial'[w] = Part(ctl[w]["start"], ctl[w]["end"])
                BY <4>1, <4>3, <4>4 DEF Part
            <4> QED
                BY <1>2, <4>1, <4>5 DEF Results, After, OK, UNKNOWN, Part
        <3>7. CASE StoreStatus(w)
            <4>1. /\ wpc[w] = "status" /\ wpc'[w] = "done"
                  /\ UNCHANGED <<partial, wstatus>>
                BY <3>7, <3>a DEF StoreStatus, localVars
            <4> QED
                BY <1>2, <1>3, <3>0, <4>1 DEF Results, After, Part
        <3>8. CASE StoreDone(w)
            <4>1. /\ wpc[w] = "done" /\ wpc'[w] \in {"check", "dead"}
                  /\ UNCHANGED partial
                  /\ ctl'[w]["status"] = ctl[w]["status"]
                BY <1>0, <3>8, <3>a DEF StoreDone, MemoryTypeOK, Word
            <4>2. ctl[w]["status"] = wstatus[w]
                BY <1>0, <4>1 DEF HandOver, DeathReported
            <4> QED
                BY <1>2, <1>3, <3>0, <4>1, <4>2 DEF Results, After, Part
        <3>9. CASE Gone(w)
            BY <1>0, <1>6, <3>9, GoneIdle
        <3> QED
            BY <3>1, <3>2, <3>3, <3>4, <3>5, <3>6, <3>7, <3>8, <3>9 DEF WorkerStep
    <2> QED
        BY <2>1, <2>2
<1> QED
    BY <1>2, <1>4, <1>5, <1>6 DEF ReduceInv

LEMMA HostReduce ==
    ASSUME MaxTimeouts = 0, ReducersStatic, TileInv,
           \/ \E c \in Calls : Begin(c) \/ Reject(c)
           \/ HostStep \/ CancelActive \/ Timeout
    PROVE  ReduceInv'
<1>0. /\ MemoryTypeOK /\ HostTypeOK /\ ControlTypeOK /\ LocalTypeOK /\ TypeOK
      /\ SlotInv /\ HandOver /\ RunInv /\ ReduceInv
      /\ partial \in [Worker -> Parts]
    BY DEF TileInv, RunInv, DispatchInv, TypeOK, ReduceInv
<1> USE DEF workerVars, localVars, hostVars
<1>a. hpc' # "idle" \/ outcome' # "ok" => ReduceTiles'
    BY DEF ReduceTiles, Succeeded
<1>1. ASSUME NEW c \in Calls, Begin(c) PROVE ReduceInv'
    <2>1. /\ hpc = "idle" /\ ~failure /\ hpc' = "write" /\ epoch' = NextEpoch(epoch)
          /\ UNCHANGED <<ctl, partial, workerVars>>
        BY <1>1 DEF Begin
    <2>2. ASSUME NEW w \in Worker PROVE Results(w)'
        <3>1. Settled(w) /\ epoch' # epoch
            BY <1>0, <2>1, NextEpochFresh DEF SlotInv, HostTypeOK
        <3>2. \/ wpc'[w] \in {"check", "parked"} /\ seen'[w] # epoch'
              \/ wpc'[w] = "dead"
            BY <2>1, <3>1 DEF Settled, Quiet
        <3> QED
            BY <3>2 DEF Results, After, Part
    <2> QED
        BY <1>0, <1>a, <2>1, <2>2 DEF ReduceInv
<1>2. ASSUME NEW c \in Calls, Reject(c) PROVE ReduceInv'
    <2>1. outcome' # "ok" /\ hpc' = "idle" /\ UNCHANGED partial
        BY <1>2 DEF Reject
    <2> QED
        BY <1>0, <1>a, <2>1 DEF ReduceInv
<1>3. CASE WriteWord
    <2>1. WriteOrder[step] \in Word \ {"epoch"} /\ slot \in Worker /\ hpc = "write"
          /\ UNCHANGED <<hpc, call, epoch, workerVars>>
        BY <1>0, <1>3, WriteOrderType DEF WriteWord, HostTypeOK
    <2>2. \A w \in Worker : w # slot => ctl'[w] = ctl[w] /\ partial'[w] = partial[w]
        BY <1>0, <1>3, <2>1 DEF WriteWord, MemoryTypeOK
    <2>3. partial' \in [Worker -> Parts]
        <3>1. NoResult \in Parts
            BY DEF NoResult, Parts
        <3> QED
            BY <1>0, <1>3, <3>1 DEF WriteWord
    <2>4. ASSUME call.grain = 0, NEW w \in Worker PROVE Results(w)'
        <3>1. CASE w # slot
            <4>1. Results(w) /\ ctl'[w] = ctl[w] /\ partial'[w] = partial[w]
                BY <1>0, <2>1, <2>2, <2>4, <3>1 DEF ReduceInv
            <4> QED
                BY <2>1, <4>1 DEF Results, After, Part
        <3>2. CASE w = slot
            <4>1. Fresh(w)
                BY <1>0, <2>1, <3>2 DEF SlotInv, Worker
            <4>2. \/ wpc[w] = "dead"
                  \/ wpc[w] \in {"check", "parked"} /\ seen[w] # epoch
                BY <4>1 DEF Fresh, Quiet
            <4> QED
                BY <2>1, <4>2 DEF Results, After, Part
        <3> QED
            BY <3>1, <3>2
    <2> QED
        BY <1>a, <2>1, <2>3, <2>4 DEF ReduceInv
<1>4. CASE Publish
    <2>1. slot \in Worker /\ hpc = "write" /\ hpc' # "idle"
          /\ UNCHANGED <<partial, call, epoch, localVars>>
        BY <1>0, <1>4 DEF Publish, HostTypeOK
    <2>2. \A w \in Worker : \A f \in Word \ {"epoch"} : ctl'[w][f] = ctl[w][f]
        BY <1>0, <1>4, <2>1 DEF Publish, MemoryTypeOK
    <2>3. \A w \in Worker : wpc'[w] = wpc[w] \/ (wpc[w] = "parked" /\ wpc'[w] = "check")
        BY <1>0, <1>4 DEF Publish, ControlTypeOK
    <2>4. {"status", "start", "end"} \subseteq Word \ {"epoch"}
        BY DEF Word
    <2>5. ASSUME call.grain = 0, NEW w \in Worker PROVE Results(w)'
        <3>1. Results(w)
            BY <1>0, <2>1, <2>5 DEF ReduceInv
        <3> QED
            BY <2>1, <2>2, <2>3, <2>4, <3>1 DEF Results, After, Part
    <2> QED
        BY <1>0, <1>a, <2>1, <2>5 DEF ReduceInv
<1>5. CASE CancelActive
    <2>1. hpc' # "idle" /\ hpc # "idle"
          /\ UNCHANGED <<ctl, partial, call, epoch, workerVars>>
        BY <1>5 DEF CancelActive
    <2>2. ASSUME call.grain = 0, NEW w \in Worker PROVE Results(w)'
        <3>1. Results(w)
            BY <1>0, <2>1, <2>2 DEF ReduceInv
        <3> QED
            BY <2>1, <3>1 DEF Results, After, Part
    <2> QED
        BY <1>0, <1>a, <2>1, <2>2 DEF ReduceInv
<1>6. ASSUME NEW o, NEW p, Return(o, p), o # "ok" PROVE ReduceInv'
    <2>1. hpc' = "idle" /\ outcome' # "ok" /\ UNCHANGED partial
        BY <1>6 DEF Return
    <2> QED
        BY <1>0, <1>a, <2>1 DEF ReduceInv
<1>7. CASE ReturnOk
    <2>1. /\ hpc = "wait" /\ AllReported /\ FailedStatus = OK
          /\ hpc' = "idle" /\ UNCHANGED <<partial, call>>
          /\ collected' = IF call.api = "reduce" THEN Combined[N] ELSE collected
        BY <1>7 DEF ReturnOk, Return
    <2>2. ReduceTiles'
        <3>1. CASE call.api = "reduce"
            <4>1. call.grain = 0
                BY <1>0, <2>1, <3>1 DEF RunInv, CoverInv, Live, ReducersStatic
            <4>2. Tiles(Combined[N], call.start, call.end)
                BY <2>1, <4>1, AllCombined
            <4> QED
                BY <2>1, <3>1, <4>2 DEF ReduceTiles, Tiles
        <3>2. CASE call.api # "reduce"
            BY <2>1, <3>2 DEF ReduceTiles
        <3> QED
            BY <3>1, <3>2
    <2> QED
        BY <1>0, <2>1, <2>2 DEF ReduceInv
<1>8. CASE Poll
    BY <1>6, <1>7, <1>8 DEF Poll, ReturnRuntimeFailure, ReturnStatus
<1>9. CASE Timeout
    BY <1>0, <1>9 DEF Timeout, HostTypeOK
<1> QED
    BY <1>1, <1>2, <1>3, <1>4, <1>5, <1>8, <1>9 DEF HostStep

(* What par_reduce combines are partial results of its own kernel, and they *)
(* cover the range from its start to its end, each item in one of them and  *)
(* in ascending order, whatever the weights and however many Workers had    *)
(* nothing to do.                                                           *)
THEOREM ReduceTilesHolds ==
    ASSUME MaxTimeouts = 0, ReducersStatic
    PROVE  Spec => []ReduceTiles
<1>1. Init => ReduceInv
    <2> SUFFICES ASSUME Init PROVE ReduceInv
        OBVIOUS
    <2> QED
        BY DEF Init, ReduceInv, NoResult, Parts, ReduceTiles, Succeeded
<1>2. RunInv /\ ReduceInv /\ [Next]_vars => ReduceInv'
    <2> SUFFICES ASSUME TileInv, [Next]_vars PROVE ReduceInv'
        BY DEF TileInv
    <2>1. CASE \E w \in Worker : WorkerStep(w)
        BY <2>1, WorkerReduce
    <2>2. CASE \/ \E c \in Calls : Begin(c) \/ Reject(c)
               \/ HostStep \/ CancelActive \/ Timeout
        BY <2>2, HostReduce
    <2>3. CASE UNCHANGED vars
        <3>1. ReduceInv
            BY DEF TileInv
        <3> QED
            BY <2>3, <3>1 DEF vars, hostVars, workerVars, localVars, ReduceInv,
               Results, After, Part, ReduceTiles, Succeeded
    <2> QED
        BY <2>1, <2>2, <2>3 DEF Next
<1>3. ReduceInv => ReduceTiles
    BY DEF ReduceInv
<1> QED
    BY <1>1, <1>2, <1>3, RunInvHolds, PTL DEF Spec
=============================================================================
