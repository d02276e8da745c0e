--------------------------- MODULE DispatchProofs ---------------------------
(* Theorems about Dispatch for any number of Workers, any set of calls and  *)
(* any measured weights.                                                    *)
EXTENDS Dispatch, PartitionProofs, TLAPS

LEMMA WriteOrderType ==
    /\ Len(WriteOrder) = 8
    /\ \A k \in 1 .. 8 : WriteOrder[k] \in Word \ {"done"}
    /\ \A k \in 1 .. 8 : WriteOrder[k] = "epoch" <=> k = 8
<1>1. \A k \in 1 .. 8 : k = 1 \/ k = 2 \/ k = 3 \/ k = 4 \/ k = 5 \/ k = 6
                          \/ k = 7 \/ k = 8
    OBVIOUS
<1> QED
    BY <1>1 DEF WriteOrder, Word

LEMMA ReadOrderType ==
    /\ Len(ReadOrder) = 5
    /\ \A k \in 1 .. 5 : ReadOrder[k] \in Word
<1>1. \A k \in 1 .. 5 : k = 1 \/ k = 2 \/ k = 3 \/ k = 4 \/ k = 5
    OBVIOUS
<1> QED
    BY <1>1 DEF ReadOrder, Word

(* What start_run writes is an integer. *)
LEMMA DescriptorType ==
    ASSUME MemoryTypeOK, HostTypeOK, slot \in Worker, NEW f \in Word
    PROVE  Descriptor(slot)[f] \in Int
<1>1. call.start \in Int /\ call.end \in Int /\ call.kernel \in Int
      /\ call.grain \in Int
    BY DispatchAssumption DEF HostTypeOK, NoCall
<1>2. IsWeighting(cuts)
    BY DispatchAssumption DEF HostTypeOK
<1>3. /\ WorkerStart(cuts, call.start, call.end, slot) \in Int
      /\ WorkerEnd(cuts, call.start, call.end, slot) \in Int
    BY <1>1, <1>2, WorkerStartType
<1>4. cancelSeq \in Int /\ epoch \in Int
    BY DispatchAssumption DEF MemoryTypeOK, HostTypeOK
<1>5. f = "start" \/ f = "end" \/ f = "kernel" \/ f = "cursor" \/ f = "grain"
      \/ f = "baseline" \/ f = "epoch" \/ f = "done" \/ f = "status"
    BY DEF Word
<1> QED
    BY <1>1, <1>3, <1>4, <1>5 DEF Descriptor, OK

-----------------------------------------------------------------------------
-----------------------------------------------------------------------------
LEMMA InitTypeOK == Init => TypeOK
<1>1. SUFFICES ASSUME Init PROVE TypeOK
    OBVIOUS
<1>2. 1 \in 1 .. Len(WriteOrder) /\ 0 \in 0 .. Len(ReadOrder)
    BY WriteOrderType, ReadOrderType
<1>3. 0 \in 0 .. N /\ 0 # N /\ 0 \in 0 .. CancelMax /\ 0 \in 0 .. EpochMax
      /\ 0 \in 0 .. MaxCancels /\ 0 \in 0 .. MaxTimeouts
    BY NAssumption, DispatchAssumption
<1>4. MemoryTypeOK
    BY <1>1, <1>3 DEF Init, MemoryTypeOK
<1>5. HostTypeOK
    BY <1>1, <1>2, <1>3 DEF Init, HostTypeOK, Outcome
<1>6. ControlTypeOK
    BY <1>1, <1>3 DEF Init, ControlTypeOK, WorkerPc
<1>7. LocalTypeOK
    BY <1>1, <1>2 DEF Init, LocalTypeOK, NoLocals, NoItems, Status
<1> QED
    BY <1>4, <1>5, <1>6, <1>7 DEF TypeOK

(* The steps of the Host preserve the types. *)
LEMMA HostStepTypeOK ==
    ASSUME TypeOK,
           \/ \E c \in Calls : Begin(c) \/ Reject(c)
           \/ HostStep \/ CancelActive \/ Timeout
    PROVE  TypeOK'
<1>0. MemoryTypeOK /\ HostTypeOK /\ ControlTypeOK /\ LocalTypeOK
    BY DEF TypeOK
<1>a. ASSUME UNCHANGED localVars
      PROVE  LocalTypeOK'
    BY <1>0, <1>a DEF LocalTypeOK, localVars
<1>b. ASSUME UNCHANGED workerVars
      PROVE  ControlTypeOK' /\ LocalTypeOK'
    BY <1>0, <1>a, <1>b DEF ControlTypeOK, workerVars, localVars
<1>c. ASSUME UNCHANGED <<ctl, cancelSeq>>
      PROVE  MemoryTypeOK'
    BY <1>0, <1>c DEF MemoryTypeOK
<1>1. ASSUME NEW c \in Calls, Begin(c) PROVE TypeOK'
    <2>1. epoch' \in 0 .. EpochMax
        BY <1>0, <1>1, DispatchAssumption DEF Begin, HostTypeOK, NextEpoch
    <2>2. 1 \in 1 .. Len(WriteOrder) /\ 0 \in Worker /\ 0 \in 0 .. N
          /\ 0 \in 0 .. MaxCancels
        BY WriteOrderType, NAssumption, DispatchAssumption DEF Worker
    <2>3. HostTypeOK'
        BY <1>0, <1>1, <2>1, <2>2 DEF Begin, HostTypeOK, Outcome
    <2> QED
        BY <1>1, <1>b, <1>c, <2>3 DEF Begin, TypeOK
<1>2. ASSUME NEW c \in Calls, Reject(c) PROVE TypeOK'
    <2>1. HostTypeOK'
        BY <1>0, <1>2 DEF Reject, HostTypeOK, Outcome
    <2> QED
        BY <1>2, <1>b, <1>c, <2>1 DEF Reject, TypeOK
<1>3. CASE WriteWord
    <2>1. step \in 1 .. 8 /\ slot \in Worker /\ WriteOrder[step] # "epoch"
        BY <1>0, <1>3, WriteOrderType DEF WriteWord, HostTypeOK
    <2>2. WriteOrder[step] \in Word /\ step # 8
        BY <2>1, WriteOrderType
    <2>3. Descriptor(slot)[WriteOrder[step]] \in Int
        BY <1>0, <2>1, <2>2, DescriptorType
    <2>4. MemoryTypeOK'
        BY <1>0, <1>3, <2>1, <2>2, <2>3 DEF WriteWord, MemoryTypeOK
    <2>5. step' \in 1 .. Len(WriteOrder)
        BY <1>3, <2>1, <2>2, WriteOrderType DEF WriteWord
    <2>6. HostTypeOK'
        BY <1>0, <1>3, <2>5 DEF WriteWord, HostTypeOK
    <2> QED
        BY <1>3, <1>b, <2>4, <2>6 DEF WriteWord, TypeOK
<1>4. CASE Publish
    <2>1. slot \in Worker /\ slot + 1 \in 0 .. N
          /\ (slot + 1 # N => slot + 1 \in Worker)
        BY <1>0, <1>4, NAssumption DEF Publish, HostTypeOK, Worker
    <2>2. epoch \in Int /\ "epoch" \in Word
        BY <1>0, DispatchAssumption DEF HostTypeOK, Word
    <2>3. MemoryTypeOK'
        BY <1>0, <1>4, <2>1, <2>2 DEF Publish, MemoryTypeOK
    <2>4. 1 \in 1 .. Len(WriteOrder)
        BY WriteOrderType
    <2>5. HostTypeOK'
        BY <1>0, <1>4, <2>1, <2>4 DEF Publish, HostTypeOK
    <2>6. ControlTypeOK'
        BY <1>0, <1>4, <2>1 DEF Publish, ControlTypeOK, WorkerPc, localVars
    <2> QED
        BY <1>4, <1>a, <2>3, <2>5, <2>6 DEF Publish, TypeOK
<1>5. CASE CancelActive
    <2>1. MemoryTypeOK'
        BY <1>0, <1>5, DispatchAssumption
        DEF CancelActive, MemoryTypeOK, NextCancel
    <2>2. HostTypeOK'
        BY <1>0, <1>5, DispatchAssumption DEF CancelActive, HostTypeOK, hostVars
    <2> QED
        BY <1>5, <1>b, <2>1, <2>2 DEF CancelActive, TypeOK
<1>6. ASSUME NEW o \in Outcome, NEW p \in BOOLEAN, Return(o, p),
             timeouts' \in 0 .. MaxTimeouts
      PROVE  TypeOK'
    <2>1. 0 \in 0 .. EpochMax
        BY DispatchAssumption
    <2>2. HostTypeOK'
        BY <1>0, <1>6, <2>1 DEF Return, HostTypeOK
    <2> QED
        BY <1>6, <1>b, <1>c, <2>2 DEF Return, TypeOK
<1>7. 0 \in 0 .. MaxTimeouts
    BY DispatchAssumption
<1>8. CASE Poll
    <2>1. CASE ReturnRuntimeFailure
        BY <1>6, <1>7, <2>1 DEF ReturnRuntimeFailure, Outcome
    <2>2. CASE ReturnStatus
        BY <1>6, <1>7, <2>2 DEF ReturnStatus, Outcome
    <2>3. CASE ReturnOk
        BY <1>6, <1>7, <2>3 DEF ReturnOk, Outcome
    <2> QED
        BY <1>8, <2>1, <2>2, <2>3 DEF Poll
<1>9. CASE Timeout
    <2>1. timeouts' \in 0 .. MaxTimeouts
        BY <1>0, <1>9, DispatchAssumption DEF Timeout, HostTypeOK
    <2> QED
        BY <1>6, <1>9, <2>1 DEF Timeout, Outcome
<1> QED
    BY <1>1, <1>2, <1>3, <1>4, <1>5, <1>8, <1>9 DEF HostStep

(* The steps of a Worker preserve the types. *)
LEMMA WorkerStepTypeOK ==
    ASSUME TypeOK, NEW w \in Worker, WorkerStep(w)
    PROVE  TypeOK'
<1>0. MemoryTypeOK /\ HostTypeOK /\ ControlTypeOK /\ LocalTypeOK
    BY DEF TypeOK
<1>a. ASSUME UNCHANGED <<hostVars, cancels>>
      PROVE  HostTypeOK'
    BY <1>0, <1>a DEF HostTypeOK, hostVars
<1>b. ASSUME UNCHANGED <<ctl, cancelSeq>>
      PROVE  MemoryTypeOK'
    BY <1>0, <1>b DEF MemoryTypeOK
<1>c. ASSUME UNCHANGED localVars
      PROVE  LocalTypeOK'
    BY <1>0, <1>c DEF LocalTypeOK, localVars
<1>d. ASSUME NEW pc \in WorkerPc, Goto(w, pc), UNCHANGED off,
             off[w] # N \/ pc \in {"result", "status", "done", "dead"}
      PROVE  ControlTypeOK'
    BY <1>0, <1>d DEF ControlTypeOK, Goto
<1>e. wpc[w] \notin {"victim", "result", "status", "done", "dead"} => off[w] # N
    BY <1>0 DEF ControlTypeOK
<1>f. \A pc \in {"check", "parked", "read", "victim", "poll", "claim", "kernel",
                 "catch", "result", "status", "done", "dead"} : pc \in WorkerPc
    BY DEF WorkerPc
<1>g. {"epoch", "done", "start", "end", "status", "cursor"} \subseteq Word
    BY DEF Word
<1>h. Victim(w) \in Worker
    <2>1. w + off[w] \in Nat
        BY <1>0, NAssumption DEF Worker, ControlTypeOK
    <2>2. (w + off[w]) % N \in 0 .. N - 1
        BY <2>1, NAssumption
    <2> QED
        BY <2>2 DEF Victim, Worker
<1>1. CASE Park(w)
    BY <1>1, <1>a, <1>b, <1>c, <1>d, <1>e, <1>f DEF Park, TypeOK, localVars
<1>2. CASE Observe(w)
    <2>1. LocalTypeOK'
        BY <1>0, <1>2, <1>g DEF Observe, LocalTypeOK, MemoryTypeOK
    <2> QED
        BY <1>2, <1>a, <1>b, <1>d, <1>e, <1>f, <2>1 DEF Observe, TypeOK
<1>3. CASE ReadWord(w)
    <2>1. nread[w] \in 0 .. 4
        BY <1>0, <1>3, ReadOrderType DEF ReadWord, LocalTypeOK
    <2>2. ReadOrder[nread[w] + 1] \in Word
        BY <2>1, ReadOrderType
    <2>3. LocalTypeOK'
        BY <1>0, <1>3, <2>1, <2>2, ReadOrderType
        DEF ReadWord, LocalTypeOK, MemoryTypeOK
    <2>4. ControlTypeOK'
        BY <1>0, <1>3 DEF ReadWord, ControlTypeOK
    <2> QED
        BY <1>3, <1>a, <1>b, <2>3, <2>4 DEF ReadWord, TypeOK
<1>4. CASE StartStatic(w)
    <2>1. LocalTypeOK'
        BY <1>0, <1>4, <1>g DEF StartStatic, LocalTypeOK
    <2> QED
        BY <1>4, <1>a, <1>b, <1>d, <1>e, <1>f, <2>1 DEF StartStatic, TypeOK
<1>5. CASE StartDynamic(w)
    BY <1>5, <1>a, <1>b, <1>c, <1>d, <1>e, <1>f
    DEF StartDynamic, TypeOK, localVars
<1>6. CASE NextVictim(w)
    <2>0. ctl[Victim(w)]["end"] \in Int
        BY <1>0, <1>g, <1>h DEF MemoryTypeOK
    <2>a. vend' \in [Worker -> Int]
        <3>1. vend \in [Worker -> Int]
            BY <1>0 DEF LocalTypeOK
        <3>2. vend' = vend \/ vend' = [vend EXCEPT ![w] = ctl[Victim(w)]["end"]]
            BY <1>6 DEF NextVictim
        <3> QED
            BY <2>0, <3>1, <3>2
    <2>1. LocalTypeOK'
        BY <1>0, <1>6, <2>a DEF NextVictim, LocalTypeOK
    <2>2. ControlTypeOK'
        <3>1. CASE off[w] < N
            BY <1>6, <1>d, <1>f, <3>1, NAssumption DEF NextVictim
        <3>2. CASE ~(off[w] < N)
            BY <1>6, <1>d, <1>f, <3>2 DEF NextVictim
        <3> QED
            BY <3>1, <3>2
    <2> QED
        BY <1>6, <1>a, <1>b, <2>1, <2>2 DEF NextVictim, TypeOK
<1>7. CASE CheckCancel(w)
    <2>1. LocalTypeOK'
        BY <1>0, <1>7 DEF CheckCancel, LocalTypeOK, Status
    <2>2. ControlTypeOK'
        BY <1>7, <1>d, <1>e, <1>f DEF CheckCancel
    <2> QED
        BY <1>7, <1>a, <1>b, <2>1, <2>2 DEF CheckCancel, TypeOK
<1>8. CASE Claim(w)
    <2> DEFINE from == ctl[Victim(w)]["cursor"]
               next == from + loc[w]["grain"]
               to   == IF next < vend[w] THEN next ELSE vend[w]
    <2>1. from \in Int /\ vend[w] \in Int /\ loc[w]["grain"] \in Int
        BY <1>0, <1>g, <1>h DEF MemoryTypeOK, LocalTypeOK, Word
    <2>2. to \in Int
        BY <2>1
    <2>3. ctl' = [ctl EXCEPT ![Victim(w)]["cursor"] = to]
          /\ chunk' = [chunk EXCEPT ![w] = <<from, to>>]
        BY <1>8 DEF Claim
    <2> HIDE DEF from, to
    <2>4. MemoryTypeOK'
        BY <1>0, <1>8, <1>g, <1>h, <2>2, <2>3 DEF MemoryTypeOK, Claim
    <2>5. LocalTypeOK'
        BY <1>0, <1>8, <2>1, <2>2, <2>3 DEF LocalTypeOK, Claim
    <2> QED
        BY <1>8, <1>a, <1>d, <1>e, <1>f, <2>4, <2>5 DEF Claim, TypeOK
<1>9. CASE Exhausted(w)
    <2>1. LocalTypeOK'
        BY <1>0, <1>9 DEF Exhausted, LocalTypeOK
    <2>2. ControlTypeOK'
        BY <1>0, <1>9, <1>e, NAssumption
        DEF Exhausted, Goto, ControlTypeOK, WorkerPc
    <2> QED
        BY <1>9, <1>a, <1>b, <2>1, <2>2 DEF Exhausted, TypeOK
<1>10. CASE KernelReturns(w)
    <2>1. LocalTypeOK'
        BY <1>0, <1>10 DEF KernelReturns, LocalTypeOK, Status
    <2>2. ControlTypeOK'
        BY <1>10, <1>d, <1>e, <1>f DEF KernelReturns
    <2> QED
        BY <1>10, <1>a, <1>b, <2>1, <2>2 DEF KernelReturns, TypeOK
<1>11. CASE KernelUnknown(w)
    <2>1. LocalTypeOK'
        BY <1>0, <1>11 DEF KernelUnknown, LocalTypeOK, Status
    <2> QED
        BY <1>11, <1>a, <1>b, <1>d, <1>e, <1>f, <2>1 DEF KernelUnknown, TypeOK
<1>12. CASE KernelThrows(w)
    BY <1>12, <1>a, <1>b, <1>c, <1>d, <1>e, <1>f
    DEF KernelThrows, TypeOK, localVars
<1>13. CASE Catch(w)
    <2>1. LocalTypeOK'
        BY <1>0, <1>13, <1>g DEF Catch, LocalTypeOK, MemoryTypeOK, Status
    <2> QED
        BY <1>13, <1>a, <1>b, <1>d, <1>e, <1>f, <2>1 DEF Catch, TypeOK
<1>14. CASE StoreResult(w)
    BY <1>14, <1>a, <1>b, <1>c, <1>d, <1>f
    DEF StoreResult, TypeOK, localVars
<1>15. CASE StoreStatus(w)
    <2>0. OK \in Int /\ UNKNOWN \in Int /\ RUNTIME_FAILED \in Int
          /\ CANCELLED \in Int
        BY DEF OK, UNKNOWN, RUNTIME_FAILED, CANCELLED
    <2>1. wstatus[w] \in Int
        BY <1>0, <2>0 DEF LocalTypeOK, Status
    <2>2. MemoryTypeOK'
        BY <1>0, <1>15, <1>g, <2>1 DEF StoreStatus, MemoryTypeOK
    <2> QED
        BY <1>15, <1>a, <1>c, <1>d, <1>f, <2>2
        DEF StoreStatus, TypeOK, localVars
<1>16. CASE StoreDone(w)
    <2>1. MemoryTypeOK'
        BY <1>0, <1>16, <1>g DEF StoreDone, MemoryTypeOK, LocalTypeOK
    <2>2. LocalTypeOK'
        BY <1>0, <1>16, ReadOrderType
        DEF StoreDone, LocalTypeOK, NoLocals, NoItems, Status
    <2>3. ControlTypeOK'
        BY <1>0, <1>16, NAssumption
        DEF StoreDone, Goto, ControlTypeOK, WorkerPc
    <2> QED
        BY <1>16, <1>a, <2>1, <2>2, <2>3 DEF StoreDone, TypeOK
<1>17. CASE Gone(w)
    BY <1>17, <1>a, <1>b, <1>c, <1>d, <1>f DEF Gone, TypeOK, localVars
<1> QED
    BY <1>1, <1>2, <1>3, <1>4, <1>5, <1>6, <1>7, <1>8, <1>9, <1>10, <1>11,
       <1>12, <1>13, <1>14, <1>15, <1>16, <1>17 DEF WorkerStep

-----------------------------------------------------------------------------
(* Type correctness: every variable keeps its type, in particular both      *)
(* generation counters stay in range although they wrap (start_run,         *)
(* cancel_active), and no Worker looks for a shard past the last            *)
(* (run_dispatch_worker).                                                   *)
THEOREM TypeCorrect == Spec => []TypeOK
<1>1. Init => TypeOK
    BY InitTypeOK
<1>2. TypeOK /\ [Next]_vars => TypeOK'
    <2> SUFFICES ASSUME TypeOK, [Next]_vars PROVE TypeOK'
        OBVIOUS
    <2>1. CASE \E w \in Worker : WorkerStep(w)
        BY <2>1, WorkerStepTypeOK
    <2>2. CASE \/ \E c \in Calls : Begin(c) \/ Reject(c)
               \/ HostStep \/ CancelActive \/ Timeout
        BY <2>2, HostStepTypeOK
    <2>3. CASE UNCHANGED vars
        BY <2>3 DEF vars, hostVars, workerVars, localVars, TypeOK, MemoryTypeOK,
                    HostTypeOK, ControlTypeOK, LocalTypeOK
    <2> QED
        BY <2>1, <2>2, <2>3 DEF Next
<1> QED
    BY <1>1, <1>2, PTL DEF Spec

-----------------------------------------------------------------------------
(* Slot reuse.  SlotInv is inductive when no dispatch times out.            *)

LEMMA NextEpochFresh ==
    ASSUME NEW e \in 0 .. EpochMax
    PROVE  NextEpoch(e) # e /\ NextEpoch(e) # -1
    BY DispatchAssumption DEF NextEpoch

LEMMA HostSlotInv ==
    ASSUME MaxTimeouts = 0, TypeOK, SlotInv,
           \/ \E c \in Calls : Begin(c) \/ Reject(c)
           \/ HostStep \/ CancelActive \/ Timeout
    PROVE  SlotInv'
<1>0. MemoryTypeOK /\ HostTypeOK /\ ControlTypeOK /\ LocalTypeOK
    BY DEF TypeOK
<1> USE DEF workerVars, localVars, hostVars
<1>1. ASSUME NEW c \in Calls, Begin(c) PROVE SlotInv'
    <2>1. ASSUME NEW w \in Worker PROVE Fresh(w)'
        <3>1. Settled(w)
            BY <1>1 DEF Begin, SlotInv
        <3>2. epoch' # epoch /\ epoch' # -1
            BY <1>0, <1>1, NextEpochFresh DEF Begin, HostTypeOK
        <3> QED
            BY <1>1, <3>1, <3>2 DEF Begin, Settled, Fresh, Quiet
    <2>2. \A w \in Worker : ~(w < 0)
        BY DEF Worker
    <2> QED
        BY <1>1, <2>1, <2>2 DEF Begin, SlotInv
<1>2. ASSUME NEW c \in Calls, Reject(c) PROVE SlotInv'
    BY <1>2 DEF Reject, SlotInv, Settled, Published, Quiet
<1>3. CASE WriteWord
    <2>1. WriteOrder[step] \in Word \ {"done", "epoch"} /\ slot \in Worker
        BY <1>0, <1>3, WriteOrderType DEF WriteWord, HostTypeOK
    <2>2. \A w \in Worker : /\ ctl'[w]["epoch"] = ctl[w]["epoch"]
                            /\ ctl'[w]["done"] = ctl[w]["done"]
        BY <1>0, <1>3, <2>1 DEF WriteWord, MemoryTypeOK
    <2> QED
        BY <1>3, <2>2 DEF WriteWord, SlotInv, Published, Fresh, Quiet
<1>4. CASE Publish
    <2>1. slot \in Worker /\ hpc = "write"
        BY <1>0, <1>4 DEF Publish, HostTypeOK
    <2>2. \A w \in Worker :
             /\ ctl'[w]["epoch"] = IF w = slot THEN epoch ELSE ctl[w]["epoch"]
             /\ ctl'[w]["done"] = ctl[w]["done"]
        BY <1>0, <1>4, <2>1 DEF Publish, MemoryTypeOK, Word
    <2>3. \A w \in Worker : wpc'[w] = IF w = slot /\ wpc[w] = "parked"
                                     THEN "check" ELSE wpc[w]
        BY <1>0, <1>4 DEF Publish, ControlTypeOK
    <2>a. PICK s \in Worker : s = slot
        BY <2>1
    <2>4. Published(s)'
        <3>1. Fresh(s)
            BY <2>1, <2>a DEF SlotInv, Worker
        <3> QED
            BY <1>4, <2>1, <2>a, <2>2, <2>3, <3>1
            DEF Publish, Fresh, Published, Quiet
    <2>5. ASSUME NEW w \in Worker, w # slot
          PROVE  /\ Published(w) => Published(w)'
                 /\ Fresh(w) => Fresh(w)'
        BY <1>4, <2>2, <2>3, <2>5 DEF Publish, Published, Fresh, Quiet
    <2>6. \A w \in Worker : w < slot + 1 <=> w < slot \/ w = slot
        BY <2>1 DEF Worker
    <2>7. \A w \in Worker : IF w < slot' THEN Published(w)' ELSE Fresh(w)'
        BY <1>4, <2>1, <2>a, <2>4, <2>5, <2>6 DEF Publish, SlotInv
    <2>8. \A w \in Worker : w < N
        BY NAssumption DEF Worker
    <2> QED
        BY <1>4, <2>7, <2>8 DEF Publish, SlotInv
<1>5. CASE CancelActive
    BY <1>5 DEF CancelActive, SlotInv, Published, Quiet
<1>6. ASSUME NEW o, Return(o, TRUE), hpc = "wait" PROVE SlotInv'
    BY <1>6 DEF Return, SlotInv, Published, Quiet
<1>7. ASSUME NEW o, NEW p \in BOOLEAN, Return(o, p), hpc = "wait", AllReported
      PROVE  SlotInv'
    <2>1. CASE p
        BY <1>6, <1>7, <2>1 DEF Return, SlotInv
    <2>2. CASE ~p
        <3>1. \A w \in Worker : Settled(w)
            BY <1>7 DEF AllReported, Reported, SlotInv, Published, Settled
        <3> QED
            BY <1>7, <2>2, <3>1 DEF Return, SlotInv, Settled, Quiet
    <2> QED
        BY <2>1, <2>2
<1>8. CASE Poll
    <2>1. (call.api = "range") \in BOOLEAN
        OBVIOUS
    <2> QED
        BY <1>6, <1>7, <1>8, <2>1
        DEF Poll, ReturnRuntimeFailure, ReturnStatus, ReturnOk
<1>9. CASE Timeout
    BY <1>0, <1>9 DEF Timeout, HostTypeOK
<1> QED
    BY <1>1, <1>2, <1>3, <1>4, <1>5, <1>8, <1>9 DEF HostStep

(* What a step of w does to the words and the state SlotInv speaks of: it   *)
(* parks, takes up an epoch, works, reports, or is terminated.              *)
Others(w) == \A v \in Worker \ {w} : /\ wpc'[v] = wpc[v]
                                     /\ seen'[v] = seen[v]
                                     /\ ctl'[v]["done"] = ctl[v]["done"]
EpochsKept == \A v \in Worker : ctl'[v]["epoch"] = ctl[v]["epoch"]
Busy == WorkerPc \ {"check", "parked", "dead"}

Parks(w) == /\ ctl[w]["epoch"] = seen[w]
            /\ wpc[w] = "check" /\ wpc'[w] = "parked"
            /\ seen'[w] = seen[w] /\ ctl'[w]["done"] = ctl[w]["done"]
TakesUp(w) == /\ ctl[w]["epoch"] # seen[w]
              /\ wpc[w] = "check" /\ wpc'[w] = "read"
              /\ seen'[w] = ctl[w]["epoch"]
              /\ ctl'[w]["done"] = ctl[w]["done"]
Works(w) == /\ wpc[w] \in Busy /\ wpc'[w] \in Busy
            /\ seen'[w] \in {seen[w], ctl[w]["epoch"]}
            /\ ctl'[w]["done"] = ctl[w]["done"]
Reports(w) == /\ wpc[w] = "done" /\ wpc'[w] \in {"check", "dead"}
              /\ seen'[w] = seen[w] /\ ctl'[w]["done"] = seen[w]
Dies(w) == /\ failure /\ wpc[w] # "dead" /\ wpc'[w] = "dead"
           /\ seen'[w] = seen[w] /\ ctl'[w]["done"] = ctl[w]["done"]

LEMMA WorkerEffect ==
    ASSUME TypeOK, NEW w \in Worker, WorkerStep(w)
    PROVE  /\ UNCHANGED <<hpc, slot, epoch, failure>>
           /\ Others(w) /\ EpochsKept
           /\ Parks(w) \/ TakesUp(w) \/ Works(w) \/ Reports(w) \/ Dies(w)
<1>0. MemoryTypeOK /\ HostTypeOK /\ ControlTypeOK /\ LocalTypeOK
    BY DEF TypeOK
<1>a. Victim(w) \in Worker
    <2>1. w + off[w] \in Nat
        BY <1>0, NAssumption DEF Worker, ControlTypeOK
    <2>2. (w + off[w]) % N \in 0 .. N - 1
        BY <2>1, NAssumption
    <2> QED
        BY <2>2 DEF Victim, Worker
<1>b. \A pc \in {"read", "victim", "poll", "claim", "kernel", "catch", "result",
                 "status", "done"} : pc \in Busy
    BY DEF Busy, WorkerPc
<1>c. ASSUME NEW pc, Goto(w, pc)
      PROVE  /\ wpc'[w] = pc
             /\ \A v \in Worker \ {w} : wpc'[v] = wpc[v]
    BY <1>0, <1>c DEF Goto, ControlTypeOK
<1>d. ASSUME UNCHANGED seen
      PROVE  \A v \in Worker : seen'[v] = seen[v]
    BY <1>d
<1>e. ASSUME UNCHANGED ctl
      PROVE  EpochsKept /\ \A v \in Worker : ctl'[v]["done"] = ctl[v]["done"]
    BY <1>e DEF EpochsKept
<1> USE DEF Others
<1>1. CASE Park(w)
    BY <1>1, <1>c, <1>d, <1>e DEF Park, hostVars, localVars, Parks
<1>2. CASE Observe(w)
    <2>1. /\ seen'[w] = ctl[w]["epoch"]
          /\ \A v \in Worker \ {w} : seen'[v] = seen[v]
        BY <1>0, <1>2 DEF Observe, LocalTypeOK
    <2> QED
        BY <1>2, <1>c, <1>e, <2>1 DEF Observe, hostVars, TakesUp
<1>3. CASE ReadWord(w)
    BY <1>3, <1>b, <1>d, <1>e DEF ReadWord, hostVars, Works
<1>4. CASE StartStatic(w)
    BY <1>4, <1>b, <1>c, <1>d, <1>e DEF StartStatic, hostVars, Works
<1>5. CASE StartDynamic(w)
    BY <1>5, <1>b, <1>c, <1>d, <1>e DEF StartDynamic, hostVars, localVars, Works
<1>6. CASE NextVictim(w)
    BY <1>6, <1>b, <1>c, <1>d, <1>e DEF NextVictim, hostVars, Works
<1>7. CASE CheckCancel(w)
    BY <1>7, <1>b, <1>c, <1>d, <1>e DEF CheckCancel, hostVars, Works
<1>8. CASE Claim(w)
    <2>1. \A v \in Worker : /\ ctl'[v]["epoch"] = ctl[v]["epoch"]
                            /\ ctl'[v]["done"] = ctl[v]["done"]
        BY <1>0, <1>8, <1>a DEF Claim, MemoryTypeOK, Word
    <2> QED
        BY <1>8, <1>b, <1>c, <1>d, <2>1 DEF Claim, hostVars, Works, EpochsKept
<1>9. CASE Exhausted(w)
    BY <1>9, <1>b, <1>c, <1>d, <1>e DEF Exhausted, hostVars, Works
<1>10. CASE KernelReturns(w)
    BY <1>10, <1>b, <1>c, <1>d, <1>e DEF KernelReturns, hostVars, Works
<1>11. CASE KernelUnknown(w)
    BY <1>11, <1>b, <1>c, <1>d, <1>e DEF KernelUnknown, hostVars, Works
<1>12. CASE KernelThrows(w)
    BY <1>12, <1>b, <1>c, <1>d, <1>e DEF KernelThrows, hostVars, localVars, Works
<1>13. CASE Catch(w)
    <2>1. /\ seen'[w] = ctl[w]["epoch"]
          /\ \A v \in Worker \ {w} : seen'[v] = seen[v]
        BY <1>0, <1>13 DEF Catch, LocalTypeOK
    <2> QED
        BY <1>13, <1>b, <1>c, <1>e, <2>1 DEF Catch, hostVars, Works
<1>14. CASE StoreResult(w)
    BY <1>14, <1>b, <1>c, <1>d, <1>e DEF StoreResult, hostVars, localVars, Works
<1>15. CASE StoreStatus(w)
    <2>1. \A v \in Worker : /\ ctl'[v]["epoch"] = ctl[v]["epoch"]
                            /\ ctl'[v]["done"] = ctl[v]["done"]
        BY <1>0, <1>15 DEF StoreStatus, MemoryTypeOK, Word
    <2> QED
        BY <1>15, <1>b, <1>c, <1>d, <2>1
        DEF StoreStatus, hostVars, localVars, Works, EpochsKept
<1>16. CASE StoreDone(w)
    <2>1. /\ EpochsKept
          /\ ctl'[w]["done"] = seen[w]
          /\ \A v \in Worker \ {w} : ctl'[v]["done"] = ctl[v]["done"]
        BY <1>0, <1>16 DEF StoreDone, MemoryTypeOK, Word, EpochsKept
    <2> QED
        BY <1>16, <1>c, <1>d, <2>1 DEF StoreDone, hostVars, Reports
<1>17. CASE Gone(w)
    BY <1>17, <1>c, <1>d, <1>e DEF Gone, hostVars, localVars, Dies
<1> QED
    BY <1>1, <1>2, <1>3, <1>4, <1>5, <1>6, <1>7, <1>8, <1>9, <1>10, <1>11,
       <1>12, <1>13, <1>14, <1>15, <1>16, <1>17 DEF WorkerStep

LEMMA WorkerSlotInv ==
    ASSUME TypeOK, SlotInv, NEW w \in Worker, WorkerStep(w)
    PROVE  SlotInv'
<1>1. /\ UNCHANGED <<hpc, slot, epoch, failure>>
      /\ Others(w) /\ EpochsKept
      /\ Parks(w) \/ TakesUp(w) \/ Works(w) \/ Reports(w) \/ Dies(w)
    BY WorkerEffect
<1>2. ASSUME NEW v \in Worker, v # w
      PROVE  /\ Settled(v) => Settled(v)'
             /\ Fresh(v) => Fresh(v)'
             /\ Published(v) => Published(v)'
    BY <1>1, <1>2 DEF Others, EpochsKept, Settled, Fresh, Published, Quiet
(* A quiet Worker can only park, or be terminated.                          *)
<1>3. Quiet(w) => Parks(w) \/ Dies(w)
    BY <1>1 DEF Quiet, TakesUp, Works, Reports, Busy
<1>4. /\ Settled(w) => Settled(w)'
      /\ Fresh(w) => Fresh(w)'
    BY <1>1, <1>3 DEF EpochsKept, Settled, Fresh, Quiet, Parks, Dies
<1>5. Published(w) => Published(w)'
    <2>1. CASE Parks(w)
        BY <1>1, <2>1 DEF EpochsKept, Published, Quiet, Parks
    <2>2. CASE TakesUp(w)
        BY <1>1, <2>2 DEF EpochsKept, Published, Quiet, TakesUp
    <2>3. CASE Works(w)
        BY <1>1, <2>3 DEF EpochsKept, Published, Quiet, Works, Busy
    <2>4. CASE Reports(w)
        BY <1>1, <2>4 DEF EpochsKept, Published, Quiet, Reports
    <2>5. CASE Dies(w)
        BY <1>1, <2>5 DEF EpochsKept, Published, Quiet, Dies
    <2> QED
        BY <1>1, <2>1, <2>2, <2>3, <2>4, <2>5
<1> QED
    BY <1>1, <1>2, <1>4, <1>5 DEF SlotInv

(* "The Host waits for every Worker before reusing a slot"                  *)
(* (docs/kernel-abi-v4.md): true of start_run and wait_run whatever the     *)
(* number of Workers, the calls, kernels that throw, cancellations and the  *)
(* scheduling, as long as no dispatch times out.                            *)
THEOREM SlotReuse ==
    ASSUME MaxTimeouts = 0
    PROVE  Spec => []SlotsReusedQuiet
<1>1. Init => SlotInv
    BY DEF Init, SlotInv, Settled, Quiet, Word
<1>2. TypeOK /\ SlotInv /\ [Next]_vars => SlotInv'
    <2> SUFFICES ASSUME TypeOK, SlotInv, [Next]_vars PROVE SlotInv'
        OBVIOUS
    <2>1. CASE \E w \in Worker : WorkerStep(w)
        BY <2>1, WorkerSlotInv
    <2>2. CASE \/ \E c \in Calls : Begin(c) \/ Reject(c)
               \/ HostStep \/ CancelActive \/ Timeout
        BY <2>2, HostSlotInv
    <2>3. CASE UNCHANGED vars
        BY <2>3 DEF vars, hostVars, workerVars, localVars, SlotInv, Settled,
                    Fresh, Published, Quiet
    <2> QED
        BY <2>1, <2>2, <2>3 DEF Next
<1>3. TypeOK /\ SlotInv => SlotsReusedQuiet
    <2> SUFFICES ASSUME TypeOK, SlotInv, hpc = "write", NEW w \in slot .. N - 1
                 PROVE  Quiet(w)
        BY DEF SlotsReusedQuiet
    <2>1. w \in Worker /\ ~(w < slot)
        BY NAssumption DEF TypeOK, HostTypeOK, Worker
    <2> QED
        BY <2>1 DEF SlotInv, Fresh
<1> QED
    BY <1>1, <1>2, <1>3, TypeCorrect, PTL DEF Spec
-----------------------------------------------------------------------------
(* What else holds of a pool none of whose dispatches times out, whatever   *)
(* it dispatches.                                                           *)

Arguments == {"start", "end", "kernel", "grain"}

Given(w) == \A f \in Arguments : ctl[w][f] = Descriptor(w)[f]

(* The slot of w has been published for the dispatch in progress, or for    *)
(* the one that poisoned the pool.                                          *)
IsOut(w) == hpc = "wait" \/ failure \/ (hpc = "write" /\ w < slot)

(* A slot holds what start_run has written to it so far, and a Worker's     *)
(* copies of its words are what the slot holds.                             *)
SlotHolds(w) ==
    /\ IsOut(w) => Given(w)
    /\ hpc = "write" /\ w = slot =>
          \A k \in 1 .. step - 1 : WriteOrder[k] \in Arguments =>
             ctl[w][WriteOrder[k]] = Descriptor(w)[WriteOrder[k]]

CopyAgrees(w) ==
    /\ wpc[w] \in {"check", "parked"} => nread[w] = 0 /\ wstatus[w] = OK
    /\ wpc[w] \in Busy \ {"read"} => nread[w] = 5
    /\ wpc[w] \in Busy => \A k \in 1 .. nread[w] :
                             loc[w][ReadOrder[k]] = ctl[w][ReadOrder[k]]

(* A Worker that has died has reported it, and the Host has not dispatched  *)
(* since, unless the pool is poisoned and its Workers are told to terminate.*)
DeathReported(w) ==
    /\ hpc = "idle" /\ ~failure => wpc[w] # "dead"
    /\ failure => hpc = "idle" /\ outcome # "ok"
    /\ hpc # "idle" /\ wpc[w] = "dead" => /\ ctl[w]["status"] = RUNTIME_FAILED
                                          /\ ctl[w]["done"] = epoch
    /\ wpc[w] = "done" => ctl[w]["status"] = wstatus[w]

HandOver == \A w \in Worker : SlotHolds(w) /\ CopyAgrees(w) /\ DeathReported(w)

DispatchInv == TypeOK /\ SlotInv /\ HandOver
(* What a step of w leaves alone: the Host, the other Workers, and of its   *)
(* own slot the words the Host writes.                                      *)
WordsKept(w) ==
    \A v \in Worker :
       /\ \A f \in Word \ {"cursor", "status", "done"} : ctl'[v][f] = ctl[v][f]
       /\ v # w => \A f \in {"status", "done"} : ctl'[v][f] = ctl[v][f]

LocalsKept(w) == \A v \in Worker \ {w} :
    /\ wpc'[v] = wpc[v] /\ seen'[v] = seen[v]
    /\ nread'[v] = nread[v] /\ loc'[v] = loc[v]
    /\ chunk'[v] = chunk[v] /\ wstatus'[v] = wstatus[v]

LEMMA WorkerFrame ==
    ASSUME TypeOK, NEW w \in Worker, WorkerStep(w)
    PROVE  /\ UNCHANGED <<cancelSeq, hostVars, cancels>>
           /\ WordsKept(w) /\ LocalsKept(w)
<1>0. MemoryTypeOK /\ HostTypeOK /\ ControlTypeOK /\ LocalTypeOK
    BY DEF TypeOK
<1>a. Victim(w) \in Worker
    <2>1. w + off[w] \in Nat
        BY <1>0, NAssumption DEF Worker, ControlTypeOK
    <2>2. (w + off[w]) % N \in 0 .. N - 1
        BY <2>1, NAssumption
    <2> QED
        BY <2>2 DEF Victim, Worker
<1>b. ASSUME UNCHANGED ctl PROVE WordsKept(w)
    BY <1>b DEF WordsKept
<1>c. ASSUME NEW pc, Goto(w, pc)
      PROVE  \A v \in Worker \ {w} : wpc'[v] = wpc[v]
    BY <1>c, <1>0 DEF Goto, ControlTypeOK
<1> USE DEF LocalsKept, localVars
<1>1. CASE Park(w)
    BY <1>1, <1>b, <1>c DEF Park
<1>2. CASE Observe(w)
    BY <1>0, <1>2, <1>b, <1>c DEF Observe, LocalTypeOK
<1>3. CASE ReadWord(w)
    BY <1>0, <1>3, <1>b DEF ReadWord, LocalTypeOK
<1>4. CASE StartStatic(w)
    BY <1>0, <1>4, <1>b, <1>c DEF StartStatic, LocalTypeOK
<1>5. CASE StartDynamic(w)
    BY <1>5, <1>b, <1>c DEF StartDynamic
<1>6. CASE NextVictim(w)
    BY <1>6, <1>b, <1>c DEF NextVictim
<1>7. CASE CheckCancel(w)
    <2>1. \A v \in Worker \ {w} : wpc'[v] = wpc[v]
        BY <1>7, <1>c DEF CheckCancel
    <2>2. \A v \in Worker \ {w} : wstatus'[v] = wstatus[v]
        BY <1>0, <1>7 DEF CheckCancel, LocalTypeOK
    <2> QED
        BY <1>7, <1>b, <2>1, <2>2 DEF CheckCancel
<1>8. CASE Claim(w)
    <2>1. WordsKept(w)
        BY <1>0, <1>8, <1>a DEF Claim, MemoryTypeOK, Word, WordsKept
    <2>2. \A v \in Worker \ {w} : chunk'[v] = chunk[v]
        BY <1>0, <1>8 DEF Claim, LocalTypeOK
    <2> QED
        BY <1>8, <1>c, <2>1, <2>2 DEF Claim
<1>9. CASE Exhausted(w)
    BY <1>9, <1>b, <1>c DEF Exhausted
<1>10. CASE KernelReturns(w)
    <2>1. \A v \in Worker \ {w} : wpc'[v] = wpc[v]
        BY <1>10, <1>c DEF KernelReturns
    <2>2. \A v \in Worker \ {w} : wstatus'[v] = wstatus[v]
        BY <1>0, <1>10 DEF KernelReturns, LocalTypeOK
    <2> QED
        BY <1>10, <1>b, <2>1, <2>2 DEF KernelReturns
<1>11. CASE KernelUnknown(w)
    BY <1>0, <1>11, <1>b, <1>c DEF KernelUnknown, LocalTypeOK
<1>12. CASE KernelThrows(w)
    BY <1>12, <1>b, <1>c DEF KernelThrows
<1>13. CASE Catch(w)
    BY <1>0, <1>13, <1>b, <1>c DEF Catch, LocalTypeOK
<1>14. CASE StoreResult(w)
    BY <1>14, <1>b, <1>c DEF StoreResult
<1>15. CASE StoreStatus(w)
    <2>1. WordsKept(w)
        BY <1>0, <1>15 DEF StoreStatus, MemoryTypeOK, Word, WordsKept
    <2> QED
        BY <1>15, <1>c, <2>1 DEF StoreStatus
<1>16. CASE StoreDone(w)
    <2>1. WordsKept(w)
        BY <1>0, <1>16 DEF StoreDone, MemoryTypeOK, Word, WordsKept
    <2> QED
        BY <1>0, <1>16, <1>c, <2>1 DEF StoreDone, LocalTypeOK
<1>17. CASE Gone(w)
    BY <1>17, <1>b, <1>c DEF Gone
<1> QED
    BY <1>1, <1>2, <1>3, <1>4, <1>5, <1>6, <1>7, <1>8, <1>9, <1>10, <1>11,
       <1>12, <1>13, <1>14, <1>15, <1>16, <1>17 DEF WorkerStep
LEMMA ReadOrderWords ==
    /\ \A k \in 1 .. 5 : ReadOrder[k] \in Word \ {"epoch", "cursor", "status", "done"}
    /\ \A f \in Arguments : \E k \in 1 .. 5 : ReadOrder[k] = f
    /\ \A f \in Arguments : \E k \in 1 .. 7 : WriteOrder[k] = f
<1>1. \A k \in 1 .. 5 : k = 1 \/ k = 2 \/ k = 3 \/ k = 4 \/ k = 5
    OBVIOUS
<1>2. /\ ReadOrder[1] = "start" /\ ReadOrder[2] = "end"
      /\ ReadOrder[3] = "kernel" /\ ReadOrder[4] = "grain"
      /\ ReadOrder[5] = "baseline"
    BY DEF ReadOrder
<1>3. /\ WriteOrder[1] = "start" /\ WriteOrder[2] = "end"
      /\ WriteOrder[3] = "kernel" /\ WriteOrder[6] = "grain"
    BY DEF WriteOrder
<1>4. {1, 2, 3, 4, 5} \subseteq 1 .. 5 /\ {1, 2, 3, 6} \subseteq 1 .. 7
    OBVIOUS
<1> QED
    BY <1>1, <1>2, <1>3, <1>4 DEF Word, Arguments

(* What start_run writes for a Worker to compute with depends on the call   *)
(* and its partition only.                                                  *)
LEMMA DescriptorKept ==
    ASSUME UNCHANGED <<call, cuts>>, NEW w \in Worker
    PROVE  \A f \in Arguments : Descriptor(w)'[f] = Descriptor(w)[f]
<1>1. ASSUME NEW f \in Arguments
      PROVE  f \in Word /\ f \in {"start", "end", "kernel", "grain"}
    BY DEF Arguments, Word
<1>2. /\ WorkerStart(cuts, call.start, call.end, w)'
           = WorkerStart(cuts, call.start, call.end, w)
      /\ WorkerEnd(cuts, call.start, call.end, w)'
           = WorkerEnd(cuts, call.start, call.end, w)
    BY DEF WorkerStart, WorkerEnd
<1> QED
    BY <1>1, <1>2 DEF Descriptor

(* first_failed_status finds a slot that failed if there is one.            *)
LEMMA FailedStatusFound ==
    ASSUME FailedStatus = OK, NEW w \in Worker
    PROVE  ctl[w]["status"] = OK
<1> DEFINE bad == {v \in Worker : ctl[v]["status"] # OK}
           Least(v) == \A u \in bad : v <= u
<1> SUFFICES ASSUME bad # {} PROVE FALSE
    OBVIOUS
<1>1. bad \in SUBSET Nat
    BY NAssumption DEF Worker
<1>2. \E v \in bad : Least(v)
    <2> HIDE DEF bad
    <2> QED
        BY <1>1, LeastNumber
<1>3. (CHOOSE v \in bad : Least(v)) \in bad
    <2> HIDE DEF bad, Least
    <2> QED
        BY <1>2
<1>4. FailedStatus = ctl[CHOOSE v \in bad : Least(v)]["status"]
    BY DEF FailedStatus
<1> QED
    BY <1>3, <1>4

LEMMA HostHandOver ==
    ASSUME MaxTimeouts = 0, DispatchInv,
           \/ \E c \in Calls : Begin(c) \/ Reject(c)
           \/ HostStep \/ CancelActive \/ Timeout
    PROVE  HandOver'
<1>0. /\ MemoryTypeOK /\ HostTypeOK /\ ControlTypeOK /\ LocalTypeOK
      /\ SlotInv /\ HandOver
    BY DEF DispatchInv, TypeOK
<1> USE DEF workerVars, localVars, hostVars
<1>a. ASSUME NEW w \in Worker, CopyAgrees(w),
             wpc'[w] = wpc[w] \/ (wpc[w] = "parked" /\ wpc'[w] = "check"),
             UNCHANGED localVars,
             \/ wpc[w] \notin Busy
             \/ \A k \in 1 .. 5 : ctl'[w][ReadOrder[k]] = ctl[w][ReadOrder[k]]
      PROVE  CopyAgrees(w)'
    <2>1. nread[w] \in 0 .. 5
        BY <1>0, ReadOrderType DEF LocalTypeOK
    <2>2. wpc'[w] \in Busy => wpc[w] \in Busy /\ wpc'[w] = wpc[w]
        BY <1>a DEF Busy
    <2> QED
        BY <1>a, <2>1, <2>2 DEF CopyAgrees
<1>1. ASSUME NEW c \in Calls, Begin(c), NEW w \in Worker
      PROVE  SlotHolds(w)' /\ CopyAgrees(w)' /\ DeathReported(w)'
    <2>1. SlotHolds(w)' /\ DeathReported(w)'
        BY <1>0, <1>1 DEF Begin, HandOver, SlotHolds, IsOut, DeathReported, Worker
    <2> QED
        BY <1>0, <1>1, <1>a, <2>1 DEF Begin, HandOver
<1>2. ASSUME NEW c \in Calls, Reject(c), NEW w \in Worker
      PROVE  SlotHolds(w)' /\ CopyAgrees(w)' /\ DeathReported(w)'
    <2>1. SlotHolds(w)'
        BY <1>0, <1>2, DescriptorKept
        DEF Reject, HandOver, SlotHolds, IsOut, Given
    <2> QED
        BY <1>0, <1>2, <1>a, <2>1 DEF Reject, HandOver, DeathReported
<1>3. ASSUME WriteWord, NEW w \in Worker
      PROVE  SlotHolds(w)' /\ CopyAgrees(w)' /\ DeathReported(w)'
    <2> DEFINE f == WriteOrder[step]
    <2>1. slot \in Worker /\ step \in 1 .. 8 /\ f \in Word /\ hpc = "write"
          /\ ~failure
        BY <1>0, <1>3, WriteOrderType DEF WriteWord, HostTypeOK, SlotInv
    <2>2. UNCHANGED <<call, cuts, hpc, slot, epoch, failure, outcome, workerVars>> /\ step' = step + 1
        BY <1>3 DEF WriteWord
    <2>3. CASE w # slot
        <3>1. ctl'[w] = ctl[w]
            BY <1>0, <1>3, <2>1, <2>3 DEF WriteWord, MemoryTypeOK
        <3>2. SlotHolds(w)'
            BY <1>0, <2>2, <2>3, <3>1, DescriptorKept
            DEF HandOver, SlotHolds, IsOut, Given
        <3>3. CopyAgrees(w)' /\ DeathReported(w)'
            BY <1>0, <2>2, <3>1, <1>a DEF HandOver, DeathReported
        <3> QED
            BY <3>2, <3>3
    <2>4. CASE w = slot
        <3>1. Fresh(w)
            BY <1>0, <2>1, <2>4 DEF SlotInv, Worker
        <3>2. \A g \in Word : ctl'[w][g] = IF g = f THEN Descriptor(w)[g]
                                                    ELSE ctl[w][g]
            BY <1>0, <1>3, <2>1, <2>4 DEF WriteWord, MemoryTypeOK
        <3>3. SlotHolds(w)'
            <4>1. ~IsOut(w)'
                BY <2>1, <2>2, <2>4 DEF IsOut, Worker
            <4>2. ASSUME NEW k \in 1 .. step' - 1, WriteOrder[k] \in Arguments
                  PROVE  ctl'[w][WriteOrder[k]] = Descriptor(w)'[WriteOrder[k]]
                <5>1. k \in 1 .. 8 /\ (k = step \/ k \in 1 .. step - 1)
                    BY <2>1, <2>2
                <5>2. WriteOrder[k] \in Word
                    BY <5>1, WriteOrderType
                <5>3. k \in 1 .. step - 1 =>
                         ctl[w][WriteOrder[k]] = Descriptor(w)[WriteOrder[k]]
                    BY <1>0, <2>1, <2>4, <4>2 DEF HandOver, SlotHolds
                <5>4. Descriptor(w)'[WriteOrder[k]] = Descriptor(w)[WriteOrder[k]]
                    BY <2>2, <4>2, DescriptorKept
                <5> QED
                    BY <3>2, <5>1, <5>2, <5>3, <5>4
            <4> QED
                BY <4>1, <4>2 DEF SlotHolds
        <3>4. wpc[w] \notin Busy /\ wpc[w] # "dead"
            <4>1. wpc[w] = "dead" => ctl[w]["done"] = epoch
                BY <1>0, <2>1 DEF HandOver, DeathReported
            <4> QED
                BY <3>1, <4>1 DEF Fresh, Quiet, Busy
        <3>5. CopyAgrees(w)'
            BY <1>0, <2>2, <3>4, <1>a DEF HandOver
        <3>6. DeathReported(w)'
            BY <1>0, <2>1, <2>2, <3>4 DEF HandOver, DeathReported, Busy, WorkerPc
        <3> QED
            BY <3>3, <3>5, <3>6
    <2> QED
        BY <2>3, <2>4
<1>4. ASSUME Publish, NEW w \in Worker
      PROVE  SlotHolds(w)' /\ CopyAgrees(w)' /\ DeathReported(w)'
    <2>1. slot \in Worker /\ step = 8 /\ hpc = "write" /\ hpc' # "idle" /\ ~failure
        BY <1>0, <1>4, WriteOrderType DEF Publish, HostTypeOK, SlotInv
    <2>2. UNCHANGED <<call, cuts, epoch, failure, localVars>> /\ step' = 1 /\ slot' = slot + 1
        BY <1>4 DEF Publish
    <2>3. \A g \in Word \ {"epoch"} : ctl'[w][g] = ctl[w][g]
        BY <1>0, <1>4, <2>1 DEF Publish, MemoryTypeOK
    <2>4. /\ wpc'[w] = wpc[w] \/ (wpc[w] = "parked" /\ wpc'[w] = "check")
        BY <1>0, <1>4 DEF Publish, ControlTypeOK
    <2>5. ASSUME IsOut(w)' PROVE Given(w)'
        <3>1. w < slot \/ w = slot
            BY <1>4, <2>1, <2>2, <2>5, NAssumption DEF Publish, IsOut, Worker
        <3>2. Given(w)
            <4>1. CASE w < slot
                BY <1>0, <2>1, <4>1 DEF HandOver, SlotHolds, IsOut
            <4>2. CASE w = slot
                <5>1. \A k \in 1 .. 7 : WriteOrder[k] \in Arguments =>
                         ctl[w][WriteOrder[k]] = Descriptor(w)[WriteOrder[k]]
                    BY <1>0, <2>1, <4>2 DEF HandOver, SlotHolds
                <5> QED
                    BY <5>1, ReadOrderWords DEF Given
            <4> QED
                BY <3>1, <4>1, <4>2
        <3>3. Arguments \subseteq Word \ {"epoch"}
            BY DEF Arguments, Word
        <3> QED
            BY <2>2, <2>3, <3>2, <3>3, DescriptorKept DEF Given
    <2>6. SlotHolds(w)'
        BY <2>2, <2>5 DEF SlotHolds
    <2>7. CopyAgrees(w)'
        BY <1>0, <2>2, <2>3, <2>4, <1>a, ReadOrderWords DEF HandOver
    <2>8. DeathReported(w)'
        BY <1>0, <2>1, <2>2, <2>3, <2>4 DEF HandOver, DeathReported, Word
    <2> QED
        BY <2>6, <2>7, <2>8
<1>5. ASSUME CancelActive, NEW w \in Worker
      PROVE  SlotHolds(w)' /\ CopyAgrees(w)' /\ DeathReported(w)'
    <2>1. SlotHolds(w)'
        BY <1>0, <1>5, DescriptorKept
        DEF CancelActive, HandOver, SlotHolds, IsOut, Given
    <2> QED
        BY <1>0, <1>5, <1>a, <2>1 DEF CancelActive, HandOver, DeathReported
<1>6. ASSUME NEW o, NEW p \in BOOLEAN, Return(o, p), hpc = "wait",
             IF p THEN o # "ok" ELSE \A v \in Worker : wpc[v] # "dead",
             NEW w \in Worker
      PROVE  SlotHolds(w)' /\ CopyAgrees(w)' /\ DeathReported(w)'
    <2>1. SlotHolds(w)'
        BY <1>0, <1>6, DescriptorKept
        DEF Return, HandOver, SlotHolds, IsOut, Given
    <2>2. CopyAgrees(w)'
        BY <1>0, <1>6, <1>a DEF Return, HandOver
    <2>3. DeathReported(w)'
        BY <1>0, <1>6 DEF Return, HandOver, DeathReported
    <2> QED
        BY <2>1, <2>2, <2>3
<1>7. ASSUME NEW w \in Worker, wpc[w] = "dead", hpc = "wait"
      PROVE  RuntimeFailed /\ FailedStatus # OK
    <2>1. ctl[w]["status"] = RUNTIME_FAILED /\ ctl[w]["done"] = epoch
        BY <1>0, <1>7 DEF HandOver, DeathReported
    <2> QED
        BY <2>1, FailedStatusFound DEF RuntimeFailed, Reported, OK, RUNTIME_FAILED
<1>8. ASSUME Poll, NEW w \in Worker
      PROVE  SlotHolds(w)' /\ CopyAgrees(w)' /\ DeathReported(w)'
    <2>1. (call.api = "range") \in BOOLEAN
        OBVIOUS
    <2>2. CASE ReturnRuntimeFailure
        BY <1>6, <2>2 DEF ReturnRuntimeFailure
    <2>3. CASE ReturnStatus
        BY <1>6, <1>7, <2>1, <2>3 DEF ReturnStatus
    <2>4. CASE ReturnOk
        BY <1>6, <1>7, <2>4 DEF ReturnOk
    <2> QED
        BY <1>8, <2>2, <2>3, <2>4 DEF Poll
<1>9. CASE Timeout
    BY <1>0, <1>9 DEF Timeout, HostTypeOK
<1> QED
    BY <1>1, <1>2, <1>3, <1>4, <1>5, <1>8, <1>9 DEF HostStep, HandOver
(* During a dispatch a Worker at work has taken up that dispatch.           *)
LEMMA BusyIsOut ==
    ASSUME DispatchInv, NEW w \in Worker, wpc[w] \in Busy
    PROVE  IsOut(w) /\ seen[w] = epoch /\ ctl[w]["done"] # epoch
<1>1. ~Quiet(w) /\ wpc[w] # "check" /\ wpc[w] # "dead"
    BY DEF Quiet, Busy
<1>2. hpc \in {"idle", "write", "wait"}
    BY DEF DispatchInv, TypeOK, HostTypeOK
<1> QED
    BY <1>1, <1>2 DEF DispatchInv, SlotInv, IsOut, Published, Settled, Fresh

(* A Worker that is dead takes no step.                                     *)
LEMMA DeadStops ==
    ASSUME NEW w \in Worker, WorkerStep(w)
    PROVE  wpc[w] # "dead"
BY DEF WorkerStep, Park, Observe, ReadWord, StartStatic, StartDynamic,
       NextVictim, CheckCancel, Claim, Exhausted, KernelReturns, KernelUnknown,
       KernelThrows, Catch, StoreResult, StoreStatus, StoreDone, Gone

(* A Worker is terminated only when no dispatch is in progress.             *)
LEMMA GoneIdle ==
    ASSUME DispatchInv, NEW w \in Worker, Gone(w)
    PROVE  hpc = "idle" /\ failure /\ outcome # "ok"
BY DEF DispatchInv, HandOver, DeathReported, Gone

LEMMA WorkerHandOver ==
    ASSUME DispatchInv, NEW w \in Worker, WorkerStep(w)
    PROVE  HandOver'
<1>0. /\ MemoryTypeOK /\ HostTypeOK /\ ControlTypeOK /\ LocalTypeOK
      /\ SlotInv /\ HandOver /\ TypeOK
    BY DEF DispatchInv, TypeOK
<1>1. /\ UNCHANGED <<cancelSeq, hostVars, cancels>>
      /\ WordsKept(w) /\ LocalsKept(w)
    BY <1>0, WorkerFrame
<1>2. UNCHANGED <<hpc, slot, step, call, cuts, epoch, failure, outcome>>
    BY <1>1 DEF hostVars
<1>3. ASSUME NEW v \in Worker PROVE SlotHolds(v)'
    <2>1. \A f \in Arguments : ctl'[v][f] = ctl[v][f]
        BY <1>1 DEF WordsKept, Arguments, Word
    <2> QED
        BY <1>0, <1>2, <2>1, DescriptorKept DEF HandOver, SlotHolds, IsOut, Given
<1>4. ASSUME NEW v \in Worker
      PROVE  \A k \in 1 .. 5 : ctl'[v][ReadOrder[k]] = ctl[v][ReadOrder[k]]
    BY <1>1, ReadOrderWords DEF WordsKept
<1>5. ASSUME NEW v \in Worker, v # w
      PROVE  CopyAgrees(v)' /\ DeathReported(v)'
    <2>1. /\ nread[v] \in 0 .. 5
          /\ UNCHANGED <<wpc[v], nread[v], loc[v], wstatus[v]>>
          /\ ctl'[v]["status"] = ctl[v]["status"]
          /\ ctl'[v]["done"] = ctl[v]["done"]
        BY <1>0, <1>1, <1>5, ReadOrderType DEF LocalTypeOK, LocalsKept, WordsKept
    <2> QED
        BY <1>0, <1>2, <1>4, <2>1 DEF HandOver, CopyAgrees, DeathReported
<1>e. SUFFICES CopyAgrees(w)' /\ DeathReported(w)'
    BY <1>3, <1>5 DEF HandOver
\* Steps that leave the copies alone.
<1>a. ASSUME wpc[w] \in Busy \ {"read"} \/ (wpc[w] = "read" /\ nread[w] = 5),
             wpc'[w] \in Busy, UNCHANGED <<nread, loc>>
      PROVE  CopyAgrees(w)'
    <2>1. nread[w] = 5 /\ wpc[w] \in Busy
        BY <1>0, <1>a DEF HandOver, CopyAgrees, Busy, WorkerPc
    <2>2. \A k \in 1 .. 5 : loc[w][ReadOrder[k]] = ctl[w][ReadOrder[k]]
        BY <1>0, <2>1 DEF HandOver, CopyAgrees
    <2>3. nread'[w] = 5 /\ loc'[w] = loc[w] /\ wpc'[w] \notin {"check", "parked"}
        BY <1>a, <2>1 DEF Busy
    <2> QED
        BY <1>4, <2>2, <2>3 DEF CopyAgrees
<1>f. failure' => hpc' = "idle" /\ outcome' # "ok"
    BY <1>0, <1>2 DEF HandOver, DeathReported
<1>b. ASSUME wpc'[w] \notin {"dead", "done"}
      PROVE  DeathReported(w)'
    BY <1>b, <1>f DEF DeathReported
<1>c. ASSUME NEW pc, Goto(w, pc)
      PROVE  wpc'[w] = pc
    BY <1>0, <1>c DEF Goto, ControlTypeOK
<1>d. {"read", "victim", "poll", "claim", "kernel", "catch", "result",
       "status", "done"} = Busy
    BY DEF Busy, WorkerPc
<1> USE DEF localVars
<1>6. CASE Park(w)
    BY <1>0, <1>6, <1>b, <1>c, <1>d DEF Park, HandOver, CopyAgrees
<1>7. CASE Observe(w)
    BY <1>0, <1>7, <1>b, <1>c, <1>d DEF Observe, HandOver, CopyAgrees
<1>8. CASE ReadWord(w)
    <2> DEFINE n == nread[w]
    <2>1. n \in 0 .. 4 /\ wpc[w] = "read" /\ wpc'[w] = "read"
        BY <1>0, <1>8, ReadOrderType DEF ReadWord, LocalTypeOK
    <2>2. nread'[w] = n + 1
        BY <1>0, <1>8 DEF ReadWord, LocalTypeOK
    <2>3. \A g \in Word : loc'[w][g] = IF g = ReadOrder[n + 1] THEN ctl[w][g]
                                                               ELSE loc[w][g]
        BY <1>0, <1>8, <2>1, ReadOrderType DEF ReadWord, LocalTypeOK
    <2>4. ASSUME NEW k \in 1 .. n + 1
          PROVE  loc'[w][ReadOrder[k]] = ctl[w][ReadOrder[k]]
        <3>1. k \in 1 .. 5 /\ (k = n + 1 \/ k \in 1 .. n)
            BY <2>1
        <3>2. k \in 1 .. n => loc[w][ReadOrder[k]] = ctl[w][ReadOrder[k]]
            BY <1>0, <1>d, <2>1 DEF HandOver, CopyAgrees
        <3> QED
            BY <2>3, <3>1, <3>2, ReadOrderType
    <2>5. \A k \in 1 .. n + 1 : k \in 1 .. 5
        BY <2>1
    <2>6. CopyAgrees(w)'
        BY <1>4, <2>1, <2>2, <2>4, <2>5 DEF CopyAgrees
    <2> QED
        BY <1>b, <2>1, <2>6
<1>9. CASE StartStatic(w)
    BY <1>9, <1>a, <1>b, <1>c, <1>d, ReadOrderType DEF StartStatic
<1>10. CASE StartDynamic(w)
    BY <1>10, <1>a, <1>b, <1>c, <1>d, ReadOrderType DEF StartDynamic
<1>11. CASE NextVictim(w)
    BY <1>11, <1>a, <1>b, <1>c, <1>d DEF NextVictim
<1>12. CASE CheckCancel(w)
    BY <1>12, <1>a, <1>b, <1>c, <1>d DEF CheckCancel
<1>13. CASE Claim(w)
    BY <1>13, <1>a, <1>b, <1>c, <1>d DEF Claim
<1>14. CASE Exhausted(w)
    BY <1>14, <1>a, <1>b, <1>c, <1>d DEF Exhausted
<1>15. CASE KernelReturns(w)
    BY <1>15, <1>a, <1>b, <1>c, <1>d DEF KernelReturns
<1>16. CASE KernelUnknown(w)
    BY <1>16, <1>a, <1>b, <1>c, <1>d DEF KernelUnknown
<1>17. CASE KernelThrows(w)
    BY <1>17, <1>a, <1>b, <1>c, <1>d DEF KernelThrows
<1>18. CASE Catch(w)
    BY <1>18, <1>a, <1>b, <1>c, <1>d DEF Catch
<1>19. CASE StoreResult(w)
    BY <1>19, <1>a, <1>b, <1>c, <1>d DEF StoreResult
<1>20. CASE StoreStatus(w)
    <2>1. ctl'[w]["status"] = wstatus'[w] /\ wpc'[w] = "done"
        BY <1>0, <1>20, <1>c DEF StoreStatus, MemoryTypeOK, Word
    <2>2. DeathReported(w)'
        BY <2>1, <1>f DEF DeathReported
    <2> QED
        BY <1>20, <1>a, <1>d, <2>1, <2>2 DEF StoreStatus
<1>21. CASE StoreDone(w)
    <2>1. /\ wpc'[w] = IF wstatus[w] = RUNTIME_FAILED THEN "dead" ELSE "check"
          /\ nread'[w] = 0 /\ wstatus'[w] = OK
          /\ ctl'[w]["done"] = seen[w] /\ ctl'[w]["status"] = ctl[w]["status"]
        BY <1>0, <1>21, <1>c DEF StoreDone, MemoryTypeOK, LocalTypeOK, Word
    <2>2. CopyAgrees(w)'
        BY <2>1, <1>d DEF CopyAgrees
    <2>3. ctl[w]["status"] = wstatus[w]
        BY <1>0, <1>21 DEF StoreDone, HandOver, DeathReported
    <2>4. (hpc # "idle" \/ failure) /\ seen[w] = epoch
        BY <1>21, <1>d, BusyIsOut DEF StoreDone, IsOut
    <2>5. DeathReported(w)'
        BY <1>2, <1>f, <2>1, <2>3, <2>4 DEF DeathReported
    <2> QED
        BY <2>2, <2>5
<1>22. CASE Gone(w)
    <2>1. wpc'[w] = "dead" /\ failure'
        BY <1>2, <1>22, <1>c DEF Gone
    <2> QED
        BY <1>d, <1>f, <2>1 DEF CopyAgrees, DeathReported
<1> QED
    BY <1>6, <1>7, <1>8, <1>9, <1>10, <1>11, <1>12, <1>13, <1>14, <1>15, <1>16,
       <1>17, <1>18, <1>19, <1>20, <1>21, <1>22 DEF WorkerStep

LEMMA DispatchInvHolds ==
    ASSUME MaxTimeouts = 0
    PROVE  Spec => []DispatchInv
<1>1. Init => DispatchInv
    <2> SUFFICES ASSUME Init PROVE DispatchInv
        OBVIOUS
    <2>1. SlotInv
        BY DEF Init, SlotInv, Settled, Quiet, Word
    <2>2. HandOver
        BY DEF Init, HandOver, SlotHolds, IsOut, CopyAgrees, DeathReported, Busy
    <2> QED
        BY <2>1, <2>2, InitTypeOK DEF DispatchInv
<1>2. DispatchInv /\ [Next]_vars => DispatchInv'
    <2> SUFFICES ASSUME DispatchInv, [Next]_vars PROVE DispatchInv'
        OBVIOUS
    <2>0. TypeOK /\ SlotInv
        BY DEF DispatchInv
    <2>1. CASE \E w \in Worker : WorkerStep(w)
        BY <2>0, <2>1, WorkerStepTypeOK, WorkerSlotInv, WorkerHandOver
        DEF DispatchInv
    <2>2. CASE \/ \E c \in Calls : Begin(c) \/ Reject(c)
               \/ HostStep \/ CancelActive \/ Timeout
        BY <2>0, <2>2, HostStepTypeOK, HostSlotInv, HostHandOver DEF DispatchInv
    <2>3. CASE UNCHANGED vars
        <3>1. TypeOK' /\ SlotInv'
            BY <2>0, <2>3 DEF vars, hostVars, workerVars, localVars, TypeOK,
               MemoryTypeOK, HostTypeOK, ControlTypeOK, LocalTypeOK, SlotInv,
               Settled, Fresh, Published, Quiet
        <3>2. \A w \in Worker : \A f \in Arguments :
                 Descriptor(w)'[f] = Descriptor(w)[f]
            BY <2>3, DescriptorKept DEF vars, hostVars
        <3>3. HandOver'
            BY <2>3, <3>2 DEF vars, hostVars, workerVars, localVars, DispatchInv,
               HandOver, SlotHolds, IsOut, Given, CopyAgrees, DeathReported
        <3> QED
            BY <3>1, <3>3 DEF DispatchInv
    <2> QED
        BY <2>1, <2>2, <2>3 DEF Next
<1> QED
    BY <1>1, <1>2, PTL DEF Spec

(* A Worker at work computes with the arguments of the dispatch in          *)
(* progress, all of them: it reads its slot one word after the other        *)
(* (run_dispatch_worker) while the Host, which writes it the same way       *)
(* (start_run), is writing other slots, and never takes a word of another   *)
(* dispatch or of a slot half written.                                      *)
ArgumentsAgree ==
    hpc # "idle" => \A w \in Worker : wpc[w] \in Busy \ {"read"} =>
        /\ loc[w]["start"] = WorkerStart(cuts, call.start, call.end, w)
        /\ loc[w]["end"] = WorkerEnd(cuts, call.start, call.end, w)
        /\ loc[w]["kernel"] = call.kernel
        /\ loc[w]["grain"] = call.grain

LEMMA ArgumentsAgreeInv ==
    ASSUME DispatchInv
    PROVE  ArgumentsAgree
<1> SUFFICES ASSUME hpc # "idle", NEW w \in Worker, wpc[w] \in Busy \ {"read"}
             PROVE  \A f \in Arguments : loc[w][f] = Descriptor(w)[f]
    BY DEF ArgumentsAgree, Descriptor, Arguments, Word
<1>1. Given(w)
    BY BusyIsOut DEF DispatchInv, HandOver, SlotHolds
<1>2. \A k \in 1 .. 5 : loc[w][ReadOrder[k]] = ctl[w][ReadOrder[k]]
    BY DEF DispatchInv, HandOver, CopyAgrees
<1> QED
    BY <1>1, <1>2, ReadOrderWords DEF Given

(* The same of every behaviour in which no dispatch times out.              *)
THEOREM NoTornArguments ==
    ASSUME MaxTimeouts = 0
    PROVE  Spec => []ArgumentsAgree
BY DispatchInvHolds, ArgumentsAgreeInv, PTL

(* A slot is given its next arguments only once its last result is there,  *)
(* and no result is read that is not of the epoch it was published for,    *)
(* whichever calls run and however they fail.                              *)
THEOREM SlotInvHolds ==
    ASSUME MaxTimeouts = 0
    PROVE  Spec => []SlotInv
<1>1. DispatchInv => SlotInv
    BY DEF DispatchInv
<1> QED
    BY <1>1, DispatchInvHolds, PTL

-----------------------------------------------------------------------------
(* cancel_active, for any number of Workers, any calls, static or dynamic,  *)
(* and any width of the cancel sequence, as long as no dispatch times out.  *)


(* The cancel sequence c requests after it was b. *)
Later(b, c) == IF b + c > CancelMax THEN b + c - CancelMax ELSE b + c

(* The slot of w holds the baseline of the dispatch in progress, and the    *)
(* sequence has moved on from it by the cancellations requested since.      *)
BaselineWritten(w) == IsOut(w) \/ (hpc = "write" /\ w = slot /\ step = 8)

BaselineAgrees(w) == BaselineWritten(w) =>
    /\ ctl[w]["baseline"] \in 0 .. CancelMax
    /\ cancelSeq = Later(ctl[w]["baseline"], cancels)

(* Who says the dispatch was cancelled, or will say so, has a reason.       *)
CancelledWithReason(w) ==
    /\ wstatus[w] = CANCELLED /\ wpc[w] \in Busy => cancels > 0
    /\ hpc # "idle" /\ ctl[w]["done"] = epoch /\ ctl[w]["status"] = CANCELLED
          => cancels > 0

(* A Worker that claimed a chunk after a request claims no other.           *)
LastClaim(w) ==
    /\ late[w] \in {0, 1}
    /\ late[w] = 1 => /\ cancels > 0
                      /\ wpc[w] \notin {"read", "victim", "poll", "claim"}
                      /\ wpc[w] \in {"check", "parked"} => seen[w] = ctl[w]["epoch"]

CancelInv ==
    /\ late \in [Worker -> {0, 1}]
    /\ hpc = "write" => cancels = 0
    /\ \A w \in Worker : BaselineAgrees(w) /\ CancelledWithReason(w) /\ LastClaim(w)
    /\ CancelledOnRequest

CallInv == DispatchInv /\ CancelInv

(* Fewer requests than the sequence has values never bring it back to where *)
(* it was, although it wraps.                                               *)
LEMMA LaterDiffers ==
    ASSUME NEW b \in 0 .. CancelMax, NEW c \in 0 .. MaxCancels
    PROVE  /\ Later(b, c) = b <=> c = 0
           /\ c < MaxCancels => NextCancel(Later(b, c)) = Later(b, c + 1)
<1>1. CancelMax \in Nat \ {0} /\ MaxCancels \in 0 .. CancelMax - 1
    BY DispatchAssumption
<1> QED
    BY <1>1 DEF Later, NextCancel

(* A Worker that sees a request has one to see, and one that does not look  *)
(* in vain has none.                                                        *)
LEMMA CancelSeenExactly ==
    ASSUME CallInv, NEW w \in Worker, wpc[w] \in Busy \ {"read"}
    PROVE  CancelSeen(w) <=> cancels > 0
<1>1. IsOut(w)
    BY BusyIsOut DEF CallInv
<1>2. \A k \in 1 .. 5 : loc[w][ReadOrder[k]] = ctl[w][ReadOrder[k]]
    BY DEF CallInv, DispatchInv, HandOver, CopyAgrees
<1>3. ReadOrder[5] = "baseline" /\ 5 \in 1 .. 5
    BY DEF ReadOrder
<1>4. loc[w]["baseline"] = ctl[w]["baseline"]
    BY <1>2, <1>3
<1>5. /\ ctl[w]["baseline"] \in 0 .. CancelMax
      /\ cancelSeq = Later(ctl[w]["baseline"], cancels)
    BY <1>1 DEF CallInv, CancelInv, BaselineAgrees, BaselineWritten
<1>6. cancels \in 0 .. MaxCancels /\ MaxCancels \in Nat
    BY DispatchAssumption DEF CallInv, DispatchInv, TypeOK, HostTypeOK
<1> QED
    BY <1>4, <1>5, <1>6, LaterDiffers DEF CancelSeen

(* The status a call returns with is one that a Worker reported.            *)
LEMMA FailedStatusReported ==
    ASSUME FailedStatus # OK
    PROVE  \E w \in Worker : ctl[w]["status"] = FailedStatus
<1> DEFINE bad == {v \in Worker : ctl[v]["status"] # OK}
           Least(v) == \A u \in bad : v <= u
<1>1. bad # {} /\ FailedStatus = ctl[CHOOSE v \in bad : Least(v)]["status"]
    BY DEF FailedStatus
<1>2. bad \in SUBSET Nat
    BY NAssumption DEF Worker
<1>3. \E v \in bad : Least(v)
    <2> HIDE DEF bad
    <2> QED
        BY <1>1, <1>2, LeastNumber
<1>4. (CHOOSE v \in bad : Least(v)) \in bad
    <2> HIDE DEF bad, Least
    <2> QED
        BY <1>3
<1> QED
    BY <1>1, <1>4

LEMMA HostCancelInv ==
    ASSUME MaxTimeouts = 0, CallInv,
           \/ \E c \in Calls : Begin(c) \/ Reject(c)
           \/ HostStep \/ CancelActive \/ Timeout
    PROVE  CancelInv'
<1>0. /\ MemoryTypeOK /\ HostTypeOK /\ ControlTypeOK /\ LocalTypeOK
      /\ SlotInv /\ HandOver /\ CancelInv
    BY DEF CallInv, DispatchInv, TypeOK
<1> USE DEF workerVars, localVars, hostVars
<1>a. ASSUME hpc' # "idle" PROVE CancelledOnRequest'
    BY <1>a DEF CancelledOnRequest
<1>1. ASSUME NEW c \in Calls, Begin(c) PROVE CancelInv'
    <2>1. /\ hpc = "idle" /\ ~failure /\ hpc' = "write" /\ slot' = 0 /\ step' = 1
          /\ epoch' = NextEpoch(epoch) /\ cancels' = 0
          /\ late' = [w \in Worker |-> 0]
          /\ UNCHANGED <<ctl, failure, workerVars>>
        BY <1>1 DEF Begin
    <2>2. ASSUME NEW w \in Worker
          PROVE  BaselineAgrees(w)' /\ CancelledWithReason(w)' /\ LastClaim(w)'
        <3>1. Settled(w) /\ epoch' # epoch /\ epoch' # -1
            BY <1>0, <2>1, NextEpochFresh DEF SlotInv, HostTypeOK
        <3>2. ~BaselineWritten(w)'
            BY <2>1 DEF BaselineWritten, IsOut, Worker
        <3>3. wpc'[w] \notin Busy /\ ctl'[w]["done"] # epoch'
            BY <2>1, <3>1 DEF Settled, Quiet, Busy
        <3> QED
            BY <2>1, <3>2, <3>3 DEF BaselineAgrees, CancelledWithReason, LastClaim
    <2> QED
        BY <2>1, <2>2, <1>a DEF CancelInv
<1>2. ASSUME NEW c \in Calls, Reject(c) PROVE CancelInv'
    <2>1. /\ outcome' # "cancelled" /\ hpc = "idle"
          /\ UNCHANGED <<ctl, cancelSeq, hpc, slot, step, epoch, failure, cancels,
                         late, workerVars>>
        BY <1>2 DEF Reject
    <2>2. \A w \in Worker :
             BaselineAgrees(w)' /\ CancelledWithReason(w)' /\ LastClaim(w)'
        BY <1>0, <2>1 DEF CancelInv, BaselineAgrees, BaselineWritten, IsOut,
                          CancelledWithReason, LastClaim
    <2> QED
        BY <1>0, <2>1, <2>2 DEF CancelInv, CancelledOnRequest
<1>3. CASE WriteWord
    <2>1. /\ WriteOrder[step] \in Word \ {"epoch", "done"} /\ slot \in Worker
          /\ step \in 1 .. 8 /\ hpc = "write" /\ step' = step + 1 /\ cancels = 0
          /\ ~failure
          /\ UNCHANGED <<cancelSeq, hpc, slot, epoch, failure, cancels, late,
                         workerVars>>
        BY <1>0, <1>3, WriteOrderType DEF WriteWord, HostTypeOK, SlotInv, CancelInv
    <2>2. \A w \in Worker : /\ w # slot => ctl'[w] = ctl[w]
                            /\ ctl'[w]["epoch"] = ctl[w]["epoch"]
                            /\ ctl'[w]["done"] = ctl[w]["done"]
        BY <1>0, <1>3, <2>1 DEF WriteWord, MemoryTypeOK, Word
    <2>3. ASSUME NEW w \in Worker PROVE BaselineAgrees(w)'
        <3>1. CASE w # slot
            BY <1>0, <2>1, <2>2, <3>1
            DEF CancelInv, BaselineAgrees, BaselineWritten, IsOut
        <3>2. CASE w = slot /\ step = 7
            <4>1. WriteOrder[step] = "baseline"
                BY <3>2 DEF WriteOrder
            <4>2. Descriptor(slot)["baseline"] = cancelSeq
                BY DEF Descriptor, Word
            <4>3. ctl'[w]["baseline"] = cancelSeq
                BY <1>0, <1>3, <2>1, <3>2, <4>1, <4>2
                DEF WriteWord, MemoryTypeOK, Word
            <4>4. cancelSeq \in 0 .. CancelMax /\ CancelMax \in Nat
                BY <1>0, DispatchAssumption DEF MemoryTypeOK
            <4> QED
                BY <2>1, <4>3, <4>4 DEF BaselineAgrees, Later
        <3>3. CASE w = slot /\ step # 7
            BY <2>1, <3>3 DEF BaselineAgrees, BaselineWritten, IsOut, Worker
        <3> QED
            BY <3>1, <3>2, <3>3
    <2>4. ASSUME NEW w \in Worker PROVE CancelledWithReason(w)' /\ LastClaim(w)'
        <3>1. LastClaim(w)'
            BY <1>0, <2>1, <2>2 DEF CancelInv, LastClaim
        <3>2. CASE w # slot
            BY <1>0, <2>1, <2>2, <3>1, <3>2 DEF CancelInv, CancelledWithReason
        <3>3. CASE w = slot
            <4>1. Fresh(w)
                BY <1>0, <2>1, <3>3 DEF SlotInv, Worker
            <4> QED
                BY <1>0, <2>1, <2>2, <3>1, <4>1
                DEF CancelInv, CancelledWithReason, Fresh
        <3> QED
            BY <3>2, <3>3
    <2> QED
        BY <1>0, <2>1, <2>3, <2>4, <1>a DEF CancelInv
<1>4. CASE Publish
    <2>1. /\ slot \in Worker /\ step = 8 /\ hpc = "write" /\ hpc' # "idle"
          /\ slot' = slot + 1 /\ step' = 1 /\ cancels = 0
          /\ hpc' = "wait" => slot + 1 = N
          /\ UNCHANGED <<cancelSeq, epoch, failure, cancels, late, localVars>>
        BY <1>0, <1>4, WriteOrderType DEF Publish, HostTypeOK, CancelInv
    <2>2. \A w \in Worker : \A g \in Word \ {"epoch"} : ctl'[w][g] = ctl[w][g]
        BY <1>0, <1>4, <2>1 DEF Publish, MemoryTypeOK
    <2>3. \A w \in Worker : wpc'[w] = wpc[w] \/ (wpc[w] = "parked" /\ wpc'[w] = "check")
        BY <1>0, <1>4 DEF Publish, ControlTypeOK
    <2>4. {"baseline", "done", "status"} \subseteq Word \ {"epoch"}
        BY DEF Word
    <2>5. ASSUME NEW w \in Worker PROVE BaselineAgrees(w)'
        <3>1. BaselineWritten(w)' => BaselineWritten(w)
            BY <2>1, NAssumption DEF BaselineWritten, IsOut, Worker
        <3> QED
            BY <1>0, <2>1, <2>2, <2>4, <3>1 DEF CancelInv, BaselineAgrees
    <2>6. ASSUME NEW w \in Worker PROVE CancelledWithReason(w)' /\ LastClaim(w)'
        BY <1>0, <2>1, <2>2, <2>3, <2>4
        DEF CancelInv, CancelledWithReason, LastClaim, Busy
    <2> QED
        BY <1>0, <2>1, <2>5, <2>6, <1>a DEF CancelInv
<1>5. CASE CancelActive
    <2>1. /\ hpc = "wait" /\ cancels \in 0 .. MaxCancels /\ cancels < MaxCancels
          /\ MaxCancels \in Nat
          /\ cancelSeq' = NextCancel(cancelSeq) /\ cancels' = cancels + 1
          /\ UNCHANGED <<ctl, hpc, slot, step, epoch, failure, late, workerVars>>
        BY <1>0, <1>5, DispatchAssumption DEF CancelActive, HostTypeOK
    <2>2. ASSUME NEW w \in Worker PROVE BaselineAgrees(w)'
        BY <1>0, <2>1, LaterDiffers
        DEF CancelInv, BaselineAgrees, BaselineWritten, IsOut
    <2>3. ASSUME NEW w \in Worker PROVE CancelledWithReason(w)' /\ LastClaim(w)'
        BY <1>0, <2>1 DEF CancelInv, CancelledWithReason, LastClaim
    <2> QED
        BY <1>0, <2>1, <2>2, <2>3, <1>a DEF CancelInv
<1>6. ASSUME NEW o, NEW p \in BOOLEAN, Return(o, p), hpc = "wait",
             o = "cancelled" => cancels > 0
      PROVE  CancelInv'
    <2>1. /\ hpc' = "idle" /\ outcome' = o
          /\ UNCHANGED <<ctl, cancelSeq, slot, step, epoch, cancels, late, workerVars>>
        BY <1>6 DEF Return
    <2>2. ASSUME NEW w \in Worker
          PROVE  BaselineAgrees(w)' /\ CancelledWithReason(w)' /\ LastClaim(w)'
        BY <1>0, <1>6, <2>1
        DEF CancelInv, BaselineAgrees, BaselineWritten, IsOut,
            CancelledWithReason, LastClaim, Busy
    <2>3. CancelledOnRequest'
        BY <1>6, <2>1 DEF CancelledOnRequest
    <2> QED
        BY <1>0, <2>1, <2>2, <2>3 DEF CancelInv
<1>7. CASE Poll
    <2>1. (call.api = "range") \in BOOLEAN
        OBVIOUS
    <2>2. CASE ReturnRuntimeFailure
        BY <1>6, <2>2 DEF ReturnRuntimeFailure
    <2>3. CASE ReturnStatus
        <3>1. FailedStatus = CANCELLED => cancels > 0
            <4> SUFFICES ASSUME FailedStatus = CANCELLED PROVE cancels > 0
                OBVIOUS
            <4>1. PICK w \in Worker : ctl[w]["status"] = CANCELLED
                BY FailedStatusReported DEF CANCELLED, OK
            <4>2. ctl[w]["done"] = epoch /\ hpc # "idle"
                BY <2>3 DEF ReturnStatus, AllReported, Reported
            <4> QED
                BY <1>0, <4>1, <4>2 DEF CancelInv, CancelledWithReason
        <3> QED
            BY <1>6, <2>1, <2>3, <3>1 DEF ReturnStatus
    <2>4. CASE ReturnOk
        BY <1>6, <2>4 DEF ReturnOk
    <2> QED
        BY <1>7, <2>2, <2>3, <2>4 DEF Poll
<1>8. CASE Timeout
    BY <1>0, <1>8 DEF Timeout, HostTypeOK
<1> QED
    BY <1>1, <1>2, <1>3, <1>4, <1>5, <1>7, <1>8 DEF HostStep
LEMMA WorkerCancelInv ==
    ASSUME CallInv, NEW w \in Worker, WorkerStep(w)
    PROVE  CancelInv'
<1>0. /\ MemoryTypeOK /\ HostTypeOK /\ ControlTypeOK /\ LocalTypeOK
      /\ SlotInv /\ HandOver /\ CancelInv /\ TypeOK
    BY DEF CallInv, DispatchInv, TypeOK
<1>1. /\ UNCHANGED <<cancelSeq, hostVars, cancels>>
      /\ WordsKept(w) /\ LocalsKept(w)
    BY <1>0, WorkerFrame
<1>2. UNCHANGED <<cancelSeq, hpc, slot, step, epoch, failure, outcome, cancels>>
    BY <1>1 DEF hostVars
<1>3. \A v \in Worker :
         /\ ctl'[v]["baseline"] = ctl[v]["baseline"]
         /\ ctl'[v]["epoch"] = ctl[v]["epoch"]
         /\ v # w => /\ ctl'[v]["status"] = ctl[v]["status"]
                     /\ ctl'[v]["done"] = ctl[v]["done"]
    BY <1>1 DEF WordsKept, Word
<1>4. \A v \in Worker : BaselineAgrees(v)'
    BY <1>0, <1>2, <1>3 DEF CancelInv, BaselineAgrees, BaselineWritten, IsOut
<1>a. cancels \in Nat
    BY <1>0, DispatchAssumption DEF HostTypeOK
<1>5. /\ late' \in [Worker -> {0, 1}]
      /\ \A v \in Worker \ {w} : late'[v] = late[v]
      /\ late'[w] = late[w]
            \/ (wpc[w] = "claim" /\ wpc'[w] = "kernel"
                  /\ late[w] = 0 /\ late'[w] = 1 /\ cancels > 0)
    <2>1. CASE Claim(w)
        <3>1. late[w] = 0 /\ wpc[w] = "claim" /\ wpc'[w] = "kernel"
            BY <1>0, <2>1 DEF Claim, Goto, ControlTypeOK, CancelInv, LastClaim
        <3>2. late' = [late EXCEPT ![w] = IF cancels > 0 THEN 1 ELSE 0]
            BY <1>0, <2>1, <3>1 DEF Claim, CancelInv
        <3> QED
            BY <1>0, <3>1, <3>2 DEF CancelInv
    <2>2. CASE ~Claim(w)
        <3>1. late' = late
            BY <2>2 DEF WorkerStep, Park, Observe, ReadWord, StartStatic,
               StartDynamic, NextVictim, CheckCancel, Exhausted, KernelReturns,
               KernelUnknown, KernelThrows, Catch, StoreResult, StoreStatus,
               StoreDone, Gone
        <3> QED
            BY <1>0, <3>1 DEF CancelInv
    <2> QED
        BY <2>1, <2>2
<1>6. ASSUME NEW v \in Worker \ {w}
      PROVE  CancelledWithReason(v)' /\ LastClaim(v)'
    BY <1>0, <1>1, <1>2, <1>3, <1>5
    DEF LocalsKept, CancelInv, CancelledWithReason, LastClaim
<1>e. SUFFICES CancelledWithReason(w)' /\ LastClaim(w)'
    BY <1>0, <1>2, <1>4, <1>5, <1>6 DEF CancelInv, CancelledOnRequest
<1>7. CancelledWithReason(w) /\ LastClaim(w)
    BY <1>0 DEF CancelInv
<1>b. ASSUME NEW pc, Goto(w, pc)
      PROVE  wpc'[w] = pc
    BY <1>0, <1>b DEF Goto, ControlTypeOK
<1>c. {"read", "victim", "poll", "claim", "kernel", "catch", "result",
       "status", "done"} = Busy
    BY DEF Busy, WorkerPc
\* A step from a busy state to a busy state that does not report.
<1>d. ASSUME wpc[w] \in Busy, wpc'[w] \in Busy,
             wstatus'[w] = CANCELLED => wstatus[w] = CANCELLED \/ cancels > 0,
             late[w] = 1 => wpc'[w] \notin {"read", "victim", "poll", "claim"},
             ctl'[w]["done"] = ctl[w]["done"]
      PROVE  CancelledWithReason(w)' /\ LastClaim(w)'
    <2>1. ctl[w]["done"] # epoch
        BY <1>d, BusyIsOut DEF CallInv
    <2>2. CancelledWithReason(w)'
        BY <1>2, <1>7, <1>d, <2>1 DEF CancelledWithReason
    <2>3. LastClaim(w)'
        BY <1>2, <1>5, <1>7, <1>c, <1>d DEF LastClaim
    <2> QED
        BY <2>2, <2>3
<1> USE DEF localVars
<1>8. CASE Park(w)
    <2>1. wpc'[w] = "parked" /\ wpc[w] = "check" /\ UNCHANGED <<ctl, seen, wstatus, late>>
        BY <1>8, <1>b DEF Park
    <2> QED
        BY <1>2, <1>7, <1>c, <2>1 DEF CancelledWithReason, LastClaim
<1>9. CASE Observe(w)
    <2>1. wpc'[w] = "read" /\ UNCHANGED <<ctl, wstatus, late>>
          /\ wpc[w] = "check" /\ seen[w] # ctl[w]["epoch"]
        BY <1>9, <1>b DEF Observe
    <2>2. wstatus[w] = OK /\ late[w] = 0
        BY <1>0, <1>7, <2>1 DEF HandOver, CopyAgrees, LastClaim
    <2> QED
        BY <1>2, <1>7, <2>1, <2>2 DEF CancelledWithReason, LastClaim, OK, CANCELLED
<1>10. CASE ReadWord(w)
    BY <1>7, <1>10, <1>c, <1>d DEF ReadWord, LastClaim
<1>11. CASE StartStatic(w)
    BY <1>11, <1>b, <1>c, <1>d DEF StartStatic
<1>12. CASE StartDynamic(w)
    BY <1>7, <1>12, <1>b, <1>c, <1>d DEF StartDynamic, LastClaim
<1>13. CASE NextVictim(w)
    BY <1>7, <1>13, <1>b, <1>c, <1>d DEF NextVictim, LastClaim
<1>14. CASE CheckCancel(w)
    <2>1. CancelSeen(w) => cancels > 0
        BY <1>14, <1>c, CancelSeenExactly DEF CheckCancel
    <2>2. late[w] # 1
        BY <1>7, <1>14 DEF CheckCancel, LastClaim
    <2>3. /\ wpc[w] \in Busy /\ wpc'[w] \in Busy /\ UNCHANGED ctl
          /\ wstatus'[w] = wstatus[w] \/ CancelSeen(w)
        BY <1>14, <1>b, <1>c DEF CheckCancel
    <2> QED
        BY <1>d, <2>1, <2>2, <2>3
<1>15. CASE Claim(w)
    <2>1. Victim(w) \in Worker
        <3>1. w + off[w] \in Nat
            BY <1>0, NAssumption DEF Worker, ControlTypeOK
        <3>2. (w + off[w]) % N \in 0 .. N - 1
            BY <3>1, NAssumption
        <3> QED
            BY <3>2 DEF Victim, Worker
    <2>2. ctl'[w]["done"] = ctl[w]["done"]
        BY <1>0, <1>15, <2>1 DEF Claim, MemoryTypeOK, Word
    <2> QED
        BY <1>15, <1>b, <1>c, <1>d, <2>2 DEF Claim
<1>16. CASE Exhausted(w)
    BY <1>7, <1>16, <1>b, <1>c, <1>d DEF Exhausted, LastClaim
<1>17. CASE KernelReturns(w)
    <2>1. CancelSeen(w) <=> cancels > 0
        BY <1>17, <1>c, CancelSeenExactly DEF KernelReturns
    <2>2. late[w] = 1 => CancelSeen(w)
        BY <1>7, <2>1 DEF LastClaim
    <2>3. /\ wpc[w] \in Busy /\ UNCHANGED ctl
          /\ wstatus'[w] = wstatus[w] \/ CancelSeen(w)
          /\ wpc'[w] = "result" \/ (wpc'[w] = "poll" /\ ~CancelSeen(w))
        BY <1>17, <1>b, <1>c DEF KernelReturns
    <2> QED
        BY <1>c, <1>d, <2>1, <2>2, <2>3
<1>18. CASE KernelUnknown(w)
    <2>1. wstatus'[w] = UNKNOWN
        BY <1>0, <1>18 DEF KernelUnknown, LocalTypeOK
    <2> QED
        BY <1>18, <1>b, <1>c, <1>d, <2>1 DEF KernelUnknown, UNKNOWN, CANCELLED
<1>19. CASE KernelThrows(w)
    BY <1>19, <1>b, <1>c, <1>d DEF KernelThrows
<1>20. CASE Catch(w)
    <2>1. wstatus'[w] = RUNTIME_FAILED
        BY <1>0, <1>20 DEF Catch, LocalTypeOK
    <2> QED
        BY <1>20, <1>b, <1>c, <1>d, <2>1 DEF Catch, RUNTIME_FAILED, CANCELLED
<1>21. CASE StoreResult(w)
    BY <1>21, <1>b, <1>c, <1>d DEF StoreResult
<1>22. CASE StoreStatus(w)
    <2>1. ctl'[w]["done"] = ctl[w]["done"]
        BY <1>0, <1>22 DEF StoreStatus, MemoryTypeOK, Word
    <2> QED
        BY <1>22, <1>b, <1>c, <1>d, <2>1 DEF StoreStatus
<1>23. CASE StoreDone(w)
    <2>1. /\ wpc[w] = "done" /\ wpc'[w] \in {"check", "dead"}
          /\ seen'[w] = seen[w] /\ late'[w] = late[w] /\ wstatus'[w] = OK
          /\ ctl'[w]["status"] = ctl[w]["status"]
        BY <1>0, <1>23, <1>b DEF StoreDone, MemoryTypeOK, LocalTypeOK, Word
    <2>2. ctl[w]["status"] = wstatus[w]
        BY <1>0, <2>1 DEF HandOver, DeathReported
    <2>3. CancelledWithReason(w)'
        BY <1>2, <1>7, <1>c, <2>1, <2>2 DEF CancelledWithReason, Busy
    <2>4. seen[w] = ctl[w]["epoch"]
        BY <1>0, <1>c, <2>1, BusyIsOut DEF CallInv, IsOut, SlotInv, Published
    <2>5. LastClaim(w)'
        BY <1>2, <1>3, <1>7, <2>1, <2>4 DEF LastClaim
    <2> QED
        BY <2>3, <2>5
<1>24. CASE Gone(w)
    <2>1. wpc'[w] = "dead" /\ UNCHANGED <<ctl, late>>
        BY <1>24, <1>b DEF Gone
    <2> QED
        BY <1>2, <1>7, <1>c, <2>1 DEF CancelledWithReason, LastClaim
<1> QED
    BY <1>8, <1>9, <1>10, <1>11, <1>12, <1>13, <1>14, <1>15, <1>16, <1>17,
       <1>18, <1>19, <1>20, <1>21, <1>22, <1>23, <1>24 DEF WorkerStep

LEMMA CallInvHolds ==
    ASSUME MaxTimeouts = 0
    PROVE  Spec => []CallInv
<1>1. Init => CancelInv
    <2> SUFFICES ASSUME Init PROVE CancelInv
        OBVIOUS
    <2> QED
        BY DEF Init, CancelInv, BaselineAgrees, BaselineWritten, IsOut,
           CancelledWithReason, LastClaim, CancelledOnRequest, Busy
<1>2. DispatchInv /\ CancelInv /\ [Next]_vars => CancelInv'
    <2> SUFFICES ASSUME CallInv, [Next]_vars PROVE CancelInv'
        BY DEF CallInv
    <2>1. CASE \E w \in Worker : WorkerStep(w)
        BY <2>1, WorkerCancelInv
    <2>2. CASE \/ \E c \in Calls : Begin(c) \/ Reject(c)
               \/ HostStep \/ CancelActive \/ Timeout
        BY <2>2, HostCancelInv
    <2>3. CASE UNCHANGED vars
        BY <2>3 DEF vars, hostVars, workerVars, localVars, CallInv, CancelInv,
           BaselineAgrees, BaselineWritten, IsOut, CancelledWithReason, LastClaim,
           CancelledOnRequest
    <2> QED
        BY <2>1, <2>2, <2>3 DEF Next
<1> QED
    BY <1>1, <1>2, DispatchInvHolds, PTL DEF Spec, CallInv

-----------------------------------------------------------------------------
(* A dispatch is reported cancelled only if cancel_active was called while  *)
(* it ran: a request that came too late for one dispatch is not taken for   *)
(* one to cancel the next, which starts from the sequence as it is then     *)
(* (CONTROL_CANCEL_BASELINE).                                               *)
THEOREM CancelledOnRequestHolds ==
    ASSUME MaxTimeouts = 0
    PROVE  Spec => []CancelledOnRequest
<1>1. CallInv => CancelledOnRequest
    BY DEF CallInv, CancelInv
<1> QED
    BY <1>1, CallInvHolds, PTL

(* Once a cancellation is requested, a Worker takes at most the one chunk   *)
(* whose check it had already passed, however often the request is repeated *)
(* while the sequence has not come round (run_dispatch_worker's checks      *)
(* before and after each chunk).                                            *)
THEOREM PromptCancelHolds ==
    ASSUME MaxTimeouts = 0
    PROVE  Spec => []PromptCancel
<1>1. CallInv => PromptCancel
    BY DEF CallInv, CancelInv, LastClaim, PromptCancel
<1> QED
    BY <1>1, CallInvHolds, PTL
=============================================================================
