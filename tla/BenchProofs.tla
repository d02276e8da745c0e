---------------------------- MODULE BenchProofs ----------------------------
(***************************************************************************)
(* What is proved about the two programs that run the benchmark Worker:    *)
(* the mutex of mutex.mbt excludes, a run of the contended counter that    *)
(* settles well has lost no increment, a batch of the message pool that    *)
(* succeeds has transformed what it was asked to, once, and no transform   *)
(* is lost to another before a deadline passes.                            *)
(***************************************************************************)
EXTENDS MCBench, FiniteSetTheorems, SequenceTheorems, TLAPS

Numbers == INSTANCE PartitionProofs

-----------------------------------------------------------------------------
(* The mutex, in either program and whatever else their Hosts do.          *)

Labels == InCounter \cup InTransform \cup {"none", "boot", "idle", "dead", "stopped"}

MutexInv == /\ wpc \in [Worker -> Labels] /\ lock \in {0, 1}
            /\ MutualExclusion

(* A Worker that does not take part leaves the mutex as it is: wpc changes *)
(* only between labels outside the critical section.                       *)
LEMMA Aside ==
    ASSUME MutexInv, wpc' \in [Worker -> Labels], UNCHANGED lock,
           \A v \in Worker : wpc'[v] \in Holding => wpc[v] \in Holding
    PROVE  MutexInv'
  BY DEF MutexInv, MutualExclusion

LEMMA MutexWorker == ASSUME MutexInv, NEW w \in Worker, WorkerStep(w) PROVE MutexInv'
<1> USE DEF Goto, wordVars, localVars, Labels, InCounter, InTransform, Holding
<1>0. wpc \in [Worker -> Labels]
  BY DEF MutexInv
<1>1. CASE LoadScript(w) \/ Receive(w) \/ Gate(w) \/ LockWait(w) \/ Report(w)
           \/ TransformStep(w)
  <2>1. /\ UNCHANGED lock
        /\ \/ wpc' = wpc
           \/ \E to \in Labels \ Holding : wpc' = [wpc EXCEPT ![w] = to]
    <3>1. CASE LoadScript(w) \/ Gate(w) \/ LockWait(w) \/ Report(w)
      BY <3>1 DEF LoadScript, Gate, LockWait, Report
    <3>2. CASE Receive(w)
      BY <3>2 DEF Receive
    <3>3. CASE TransformStep(w)
      BY <3>3 DEF TransformStep, LoadItem, StoreItem, Transformed
    <3> QED
      BY <1>1, <3>1, <3>2, <3>3
  <2> QED
    BY <1>0, <2>1, Aside
<1>2. CASE TryLock(w)
  BY <1>2 DEF TryLock, MutexInv, MutualExclusion, Holding
<1>3. CASE ReadCounter(w) \/ WriteCounter(w)
  BY <1>3 DEF ReadCounter, WriteCounter, MutexInv, MutualExclusion, Holding
<1>4. CASE Unlock(w)
  BY <1>4 DEF Unlock, MutexInv, MutualExclusion, Holding
<1>5. CASE NotifyOne(w)
  <2> DEFINE next == IF todo[w] = 1 THEN "report" ELSE "lock"
  <2>1. /\ UNCHANGED lock
        /\ \/ wpc' = [wpc EXCEPT ![w] = next]
           \/ \E v \in Worker : wpc' = [wpc EXCEPT ![w] = next, ![v] = "lock"]
    BY <1>5 DEF NotifyOne, Parked
  <2>2. next \in Labels \ Holding /\ "lock" \in Labels \ Holding
    OBVIOUS
  <2> HIDE DEF next
  <2>3. CASE wpc' = [wpc EXCEPT ![w] = next]
    BY <1>0, <2>1, <2>2, <2>3, Aside
  <2>4. ASSUME NEW v \in Worker, wpc' = [wpc EXCEPT ![w] = next, ![v] = "lock"]
        PROVE  MutexInv'
    BY <1>0, <2>1, <2>2, <2>4, Aside
  <2> QED
    BY <2>1, <2>3, <2>4
<1> QED
  BY <1>1, <1>2, <1>3, <1>4, <1>5 DEF WorkerStep, CounterStep

(* The Hosts start Workers, stop them, and open the gate. *)
LEMMA MutexHost ==
    ASSUME MutexInv, CounterHostStep \/ CounterTimeout \/ PoolNext
    PROVE  MutexInv'
<1> USE DEF wordVars, localVars, workerVars
<1>0. wpc \in [Worker -> Labels]
  BY DEF MutexInv
<1>1. UNCHANGED lock
  BY DEF CounterHostStep, CounterTimeout, PoolNext, CreateWorkers, CounterReturn,
         OnCounterEvent, Create, PoolHandlers, OnPoolMessage, OnPoolError, Reject,
         Close, Transform, ListenerTimeout
<1>2. \/ UNCHANGED wpc
      \/ wpc' = [v \in Worker |-> "boot"] \/ wpc' = [v \in Worker |-> "stopped"]
      \/ wpc' = Wake(wpc)
      \/ \E stopped : wpc' = [v \in Worker |-> IF v \in stopped THEN "stopped" ELSE wpc[v]]
  <2>1. CASE CounterHostStep \/ CounterTimeout
    BY <2>1 DEF CounterHostStep, CounterTimeout, CreateWorkers, CounterReturn,
                OnCounterEvent, Answer, OnReady, OnResult, OnError
  <2>2. CASE PoolNext
    BY <2>2 DEF PoolNext, Create, PoolHandlers, OnPoolMessage, OnPoolError, Reject, Close,
                Stop, Transform, ListenerTimeout
  <2> QED
    BY <2>1, <2>2
<1> QED
  BY <1>0, <1>1, <1>2, Aside DEF Wake, Holding, Labels, InCounter

(* No two Workers are in the critical section, however many there are.     *)
THEOREM MutualExclusionHolds == Spec => []MutualExclusion
<1>1. Init => MutexInv
  BY DEF Init, WorkerInit, MutexInv, MutualExclusion, Holding, Labels
<1>2. MutexInv /\ [Next]_vars => MutexInv'
  <2> SUFFICES ASSUME MutexInv, [Next]_vars PROVE MutexInv'
    OBVIOUS
  <2>1. CASE UNCHANGED vars
    BY <2>1 DEF vars, workerVars, MutexInv, MutualExclusion
  <2>2. \/ CounterHostStep \/ CounterTimeout \/ PoolNext
        \/ \E w \in Worker : WorkerStep(w)
        \/ UNCHANGED vars
    BY DEF Next, CounterHost, CounterLimit, PoolHost, CounterWorker, PoolWorker,
           PoolWorkerStep
  <2> QED
    BY <2>1, <2>2, MutexHost, MutexWorker
<1>3. MutexInv => MutualExclusion
  BY DEF MutexInv
<1> QED
  BY <1>1, <1>2, <1>3, PTL DEF Spec

-----------------------------------------------------------------------------
(* The contended counter.  A Worker goes through its messages one after    *)
(* the other, at most two of them under way in a direction at a time.      *)

Online      == [type |-> "online"]
Failed      == [type |-> "error"]
Ready       == [type |-> "ready"]
InitMessage(w) == [type |-> "init", id |-> w]
Initialized(w) == [type |-> "initialized", id |-> w]
CounterMessage == [type |-> "counter"]
Result(n)   == [type |-> "result", observed |-> n]

(* Between the Host and an idle Worker: before the counter message, with   *)
(* its result under way, and when the Host has that.                       *)
Handshake(w) == \/ inbox[w] = <<>> /\ outbox[w] \in {<<Online>>, <<Initialized(w)>>}
                \/ inbox[w] \in {<<InitMessage(w)>>, <<CounterMessage>>} /\ outbox[w] = <<>>
Reporting(w) == /\ inbox[w] = <<>>
                /\ \E n \in Nat : outbox[w] \in {<<Result(n)>>, <<Ready, Result(n)>>}
Finished(w)  == wpc[w] = "idle" /\ inbox[w] = <<>> /\ outbox[w] = <<>>

Phase(w) ==
    \/ wpc[w] = "boot" /\ inbox[w] = <<>> /\ outbox[w] = <<>>
    \/ wpc[w] = "dead" /\ inbox[w] = <<>> /\ outbox[w] \in {<<>>, <<Failed>>}
    \/ wpc[w] = "idle" /\ (Handshake(w) \/ Reporting(w) \/ Finished(w))
    \/ /\ wpc[w] \in InCounter /\ inbox[w] = <<>> /\ outbox[w] \in {<<>>, <<Ready>>}
       /\ IF wpc[w] = "report" THEN todo[w] = 0 ELSE todo[w] \in 1 .. Iterations
       /\ wpc[w] \in {"gate", "gateWait", "gateParked"} => todo[w] = Iterations

(* The increments a Worker has stored. *)
Done(w) == IF wpc[w] \in InCounter
           THEN Iterations - todo[w] + (IF wpc[w] \in {"unlock", "notify"} THEN 1 ELSE 0)
           ELSE IF wpc[w] = "idle" /\ (Reporting(w) \/ Finished(w)) THEN Iterations ELSE 0
DoneBy == [w \in Worker |-> Done(w)]

(* total is the sum of f: there are partial sums that lead to it. *)
Sums(f, total) ==
    \E s \in [0 .. N -> Nat] : /\ s[0] = 0 /\ s[N] = total
                               /\ \A w \in Worker : s[w + 1] = s[w] + f[w]

CountTypes ==
    /\ cpc \in {"idle", "running", "returned"}
    /\ counter \in Nat /\ resultCount \in Nat
    /\ todo \in [Worker -> Nat] /\ seen \in [Worker -> Nat]
    /\ inbox = [w \in Worker |-> inbox[w]] /\ outbox = [w \in Worker |-> outbox[w]]

NotStarted == /\ settled = "no" /\ counter = 0 /\ lock = 0 /\ resultCount = 0
              /\ \A w \in Worker : wpc[w] = "none" /\ inbox[w] = <<>> /\ outbox[w] = <<>>

FinishedWorkers == {w \in Worker : Finished(w)}

Counted ==
    /\ \A w \in Worker : Phase(w)
    /\ lock = 1 => \E w \in Worker : wpc[w] \in Holding
    /\ \A w \in Worker : wpc[w] = "write" => seen[w] = counter
    /\ Sums(DoneBy, counter)
    /\ resultCount = Cardinality(FinishedWorkers)
    /\ settled = "ok" => FinishedWorkers = Worker

CountInv ==
    /\ MutexInv
    /\ program \in {"counter", "pool"}
    /\ program = "pool" => settled = "no"
    /\ program = "counter" =>
          /\ CountTypes
          /\ cpc = "idle" => NotStarted
          /\ cpc = "running" => Counted
          /\ cpc = "returned" => /\ \A w \in Worker : wpc[w] = "stopped"
                                 /\ settled # "no" /\ CounterExact

LEMMA ShortQueues ==
    ASSUME NEW x, NEW y
    PROVE  /\ <<x>> # <<>> /\ Head(<<x>>) = x /\ Tail(<<x>>) = <<>>
           /\ <<x, y>> # <<>> /\ Head(<<x, y>>) = x /\ Tail(<<x, y>>) = <<y>>
           /\ Append(<<>>, x) = <<x>> /\ Append(<<x>>, y) = <<x, y>>
<1>1. <<x>> # <<>> /\ Head(<<x>>) = x
  OBVIOUS
<1>2. Tail(<<x>>) = <<>>
  OBVIOUS
<1>3. <<x, y>> # <<>> /\ Head(<<x, y>>) = x
  OBVIOUS
<1>4. Tail(<<x, y>>) = <<y>>
  OBVIOUS
<1>5. Append(<<>>, x) = <<x>>
  OBVIOUS
<1>6. Append(<<x>>, y) = <<x, y>>
  <2>1. <<x>> \in Seq({x, y}) /\ <<x, y>> \in Seq({x, y})
    OBVIOUS
  <2>2. Append(<<x>>, y) \in Seq({x, y}) /\ Len(Append(<<x>>, y)) = 2
        /\ Append(<<x>>, y)[1] = x /\ Append(<<x>>, y)[2] = y
    BY <2>1
  <2>3. Len(<<x, y>>) = 2 /\ <<x, y>>[1] = x /\ <<x, y>>[2] = y
    OBVIOUS
  <2> DEFINE left == Append(<<x>>, y)
             right == <<x, y>>
  <2>4. /\ left \in Seq({x, y}) /\ right \in Seq({x, y}) /\ Len(left) = Len(right)
        /\ \A i \in 1 .. Len(left) : left[i] = right[i]
    <3> HIDE DEF left, right
    <3>1. Len(left) = 2 /\ Len(right) = 2 /\ left[1] = right[1] /\ left[2] = right[2]
      BY <2>2, <2>3 DEF left, right
    <3>2. left \in Seq({x, y}) /\ right \in Seq({x, y})
      BY <2>1, <2>2 DEF left, right
    <3> QED
      BY <3>1, <3>2
  <2> HIDE DEF left, right
  <2>5. left = right
    BY <2>4, SeqEqual
  <2> QED
    BY <2>5 DEF left, right
<1> QED
  BY <1>1, <1>2, <1>3, <1>4, <1>5, <1>6

LEMMA SumZero == Sums([w \in Worker |-> 0], 0)
<1> DEFINE s == [i \in 0 .. N |-> 0]
<1>1. s \in [0 .. N -> Nat] /\ s[0] = 0 /\ s[N] = 0
  BY BenchAssumption
<1>2. \A w \in Worker : s[w + 1] = s[w] + [v \in Worker |-> 0][w]
  BY BenchAssumption DEF Worker
<1> HIDE DEF s
<1> QED
  BY <1>1, <1>2 DEF Sums

LEMMA SumGrows ==
    ASSUME NEW f \in [Worker -> Int], NEW total \in Nat, Sums(f, total), NEW w \in Worker
    PROVE  Sums([f EXCEPT ![w] = @ + 1], total + 1)
<1>1. PICK s \in [0 .. N -> Nat] : /\ s[0] = 0 /\ s[N] = total
                                   /\ \A v \in Worker : s[v + 1] = s[v] + f[v]
  BY DEF Sums
<1> DEFINE g == [f EXCEPT ![w] = @ + 1]
           r == [i \in 0 .. N |-> IF i > w THEN s[i] + 1 ELSE s[i]]
<1>2. r \in [0 .. N -> Nat] /\ r[0] = 0 /\ r[N] = total + 1
  BY <1>1, BenchAssumption DEF Worker
<1>3. ASSUME NEW v \in Worker PROVE r[v + 1] = r[v] + g[v]
  <2>1. v \in 0 .. N /\ v + 1 \in 0 .. N /\ v \in Int /\ w \in Int
    BY BenchAssumption DEF Worker
  <2>2. s[v + 1] = s[v] + f[v] /\ s[v] \in Int /\ s[v + 1] \in Int /\ f[v] \in Int
    BY <1>1, <2>1
  <2>3. g[v] = IF v = w THEN f[v] + 1 ELSE f[v]
    OBVIOUS
  <2> QED
    BY <2>1, <2>2, <2>3
<1> QED
  BY <1>2, <1>3 DEF Sums

LEMMA SumAll ==
    ASSUME NEW f \in [Worker -> Int], NEW total \in Nat, Sums(f, total),
           \A w \in Worker : f[w] = Iterations
    PROVE  total = N * Iterations
<1>1. PICK s \in [0 .. N -> Nat] : /\ s[0] = 0 /\ s[N] = total
                                   /\ \A v \in Worker : s[v + 1] = s[v] + f[v]
  BY DEF Sums
<1> DEFINE Wrong == {i \in 0 .. N : s[i] # i * Iterations}
<1>2. CASE Wrong = {}
  <2>1. N \in 0 .. N
    BY BenchAssumption
  <2> QED
    BY <1>1, <1>2, <2>1
<1>3. CASE Wrong # {}
  <2>1. Wrong \subseteq Nat
    BY BenchAssumption
  <2>2. PICK m \in Wrong : \A k \in Wrong : m <= k
    <3> HIDE DEF Wrong
    <3> QED
      BY <1>3, <2>1, Numbers!LeastNumber, BenchAssumption
  <2>3. m \in 0 .. N /\ s[m] # m * Iterations
    OBVIOUS
  <2>4. m # 0
    BY <1>1, <2>3, BenchAssumption
  <2>5. m - 1 \in Worker /\ m - 1 \in 0 .. N /\ m - 1 \notin Wrong
    BY <2>2, <2>3, <2>4, BenchAssumption DEF Worker
  <2>6. s[m - 1] = (m - 1) * Iterations /\ s[(m - 1) + 1] = s[m - 1] + Iterations
    BY <1>1, <2>5
  <2>7. (m - 1) + 1 = m /\ (m - 1) * Iterations + Iterations = m * Iterations
    BY <2>3, BenchAssumption
  <2> QED
    BY <2>3, <2>6, <2>7
<1> QED
  BY <1>2, <1>3

(* A Worker nobody reaches but to wake it is where it was.                 *)
Reached(v) == ~ /\ inbox'[v] = inbox[v] /\ outbox'[v] = outbox[v] /\ todo'[v] = todo[v]
                /\ \/ wpc'[v] = wpc[v]
                   \/ wpc[v] = "lockParked" /\ wpc'[v] = "lock"
                   \/ wpc[v] = "gateParked" /\ wpc'[v] = "gate"

LEMMA Others ==
    ASSUME NEW v \in Worker, Phase(v), ~ Reached(v)
    PROVE  Phase(v)' /\ Done(v)' = Done(v) /\ (Finished(v)' <=> Finished(v))
  BY DEF Reached, Phase, Done, Finished, Reporting, Handshake, InCounter

(* No other message is taken for a result. *)
LEMMA NoResult ==
    ASSUME NEW m, m.type # "result", NEW n
    PROVE  <<m>> # <<Result(n)>> /\ <<m>> # <<Ready, Result(n)>>
<1>1. <<m>>[1] = m /\ <<Result(n)>>[1] = Result(n) /\ Result(n).type = "result"
  BY DEF Result
<1>2. Len(<<m>>) = 1 /\ Len(<<Ready, Result(n)>>) = 2
  OBVIOUS
<1> QED
  BY <1>1, <1>2

(* What a step of a Worker of the counter comes to: it keeps to its phases *)
(* and reaches nobody but to wake a Worker, and only the store counts.     *)
Moves(w) ==
    /\ todo' \in [Worker -> Nat] /\ seen' \in [Worker -> Nat]
    /\ inbox' = [v \in Worker |-> inbox'[v]] /\ outbox' = [v \in Worker |-> outbox'[v]]
    /\ \A v \in Worker \ {w} : ~ Reached(v)
    /\ Phase(w)'
    /\ Done(w)' = Done(w) + (IF wpc[w] = "write" THEN 1 ELSE 0)
    /\ counter' = IF wpc[w] = "write" THEN seen[w] + 1 ELSE counter
    /\ Finished(w)' <=> Finished(w)

LEMMA Changed ==
    ASSUME NEW f, f = [v \in Worker |-> f[v]], NEW w \in Worker, NEW x
    PROVE  /\ [f EXCEPT ![w] = x] = [v \in Worker |-> [f EXCEPT ![w] = x][v]]
           /\ [f EXCEPT ![w] = x][w] = x
           /\ \A v \in Worker \ {w} : [f EXCEPT ![w] = x][v] = f[v]
  OBVIOUS

LEMMA WorkerMoves ==
    ASSUME wpc \in [Worker -> Labels], CountTypes, NEW w \in Worker, Phase(w), WorkerStep(w)
    PROVE  Moves(w)
<1> USE DEF Goto, PostToHost, wordVars, localVars, CountTypes, Moves, Reached
<1>0. Iterations \in Nat \ {0}
  BY BenchAssumption
<1>1. CASE LoadScript(w)
  <2>1. inbox[w] = <<>> /\ outbox[w] = <<>> /\ wpc[w] = "boot"
    BY <1>1 DEF LoadScript, Phase, Handshake, Reporting, Finished, InCounter
  <2>2. \/ wpc' = [wpc EXCEPT ![w] = "idle"] /\ outbox' = [outbox EXCEPT ![w] = <<Online>>]
        \/ wpc' = [wpc EXCEPT ![w] = "dead"] /\ outbox' = [outbox EXCEPT ![w] = <<Failed>>]
    BY <1>1, <2>1, ShortQueues DEF LoadScript, Online, Failed
  <2>3. UNCHANGED <<inbox, wordVars, data, localVars>>
    BY <1>1 DEF LoadScript
  <2>4. outbox'[w] # <<>> /\ inbox'[w] = <<>>
    BY <2>1, <2>2, <2>3, ShortQueues
  <2>5. ~ Finished(w)' /\ ~ Finished(w)
    BY <2>1, <2>4 DEF Finished
  <2>6. CASE wpc' = [wpc EXCEPT ![w] = "idle"] /\ outbox' = [outbox EXCEPT ![w] = <<Online>>]
    <3>1. outbox'[w] = <<Online>> /\ wpc'[w] = "idle"
      BY <2>6
    <3>2. Online.type # "result"
      BY DEF Online
    <3>3. ~ Reporting(w)'
      BY <3>1, <3>2, NoResult DEF Reporting
    <3>4. Phase(w)'
      BY <2>4, <3>1 DEF Phase, Handshake
    <3>5. Done(w)' = 0 /\ Done(w) = 0
      BY <2>1, <2>5, <3>1, <3>3 DEF Done, InCounter
    <3>6. outbox' = [v \in Worker |-> outbox'[v]] /\ inbox' = [v \in Worker |-> inbox'[v]]
      BY <2>3, <2>6, Changed
    <3>7. \A v \in Worker \ {w} : ~ Reached(v)
      BY <2>3, <2>6, Changed
    <3>8. UNCHANGED <<counter, seen, todo>> /\ wpc[w] # "write"
      BY <2>1, <2>3
    <3> QED
      BY <2>5, <3>4, <3>5, <3>6, <3>7, <3>8
  <2>7. CASE wpc' = [wpc EXCEPT ![w] = "dead"] /\ outbox' = [outbox EXCEPT ![w] = <<Failed>>]
    <3>1. outbox'[w] = <<Failed>> /\ wpc'[w] = "dead"
      BY <2>7
    <3>4. Phase(w)'
      BY <2>4, <3>1 DEF Phase
    <3>5. Done(w)' = 0 /\ Done(w) = 0
      BY <2>1, <3>1 DEF Done, InCounter
    <3>6. outbox' = [v \in Worker |-> outbox'[v]] /\ inbox' = [v \in Worker |-> inbox'[v]]
      BY <2>3, <2>7, Changed
    <3>7. \A v \in Worker \ {w} : ~ Reached(v)
      BY <2>3, <2>7, Changed
    <3>8. UNCHANGED <<counter, seen, todo>> /\ wpc[w] # "write"
      BY <2>1, <2>3
    <3> QED
      BY <2>5, <3>4, <3>5, <3>6, <3>7, <3>8
  <2> QED
    BY <2>2, <2>6, <2>7
<1>2. CASE Receive(w)
  <2>1. wpc[w] = "idle" /\ inbox[w] \in {<<InitMessage(w)>>, <<CounterMessage>>}
        /\ outbox[w] = <<>>
    BY <1>2 DEF Receive, Phase, Handshake, Reporting, Finished, InCounter
  <2>2. ~ Reporting(w) /\ ~ Finished(w) /\ Done(w) = 0
    BY <1>2, <2>1 DEF Receive, Reporting, Finished, Done, InCounter
  <2>3. inbox' = [inbox EXCEPT ![w] = <<>>] /\ UNCHANGED <<wordVars, data, seen>>
    BY <1>2, <2>1, ShortQueues DEF Receive
  <2>4. CASE inbox[w] = <<InitMessage(w)>>
    <3>1. Head(inbox[w]) = InitMessage(w)
      BY <2>4, ShortQueues
    <3>2. outbox' = [outbox EXCEPT ![w] = <<Initialized(w)>>] /\ UNCHANGED <<wpc, todo>>
      BY <1>2, <2>1, <3>1, ShortQueues DEF Receive, InitMessage, Initialized
    <3>3. Initialized(w).type # "result"
      BY DEF Initialized
    <3>4. outbox'[w] = <<Initialized(w)>> /\ inbox'[w] = <<>> /\ outbox'[w] # <<>>
      BY <2>3, <3>2, ShortQueues
    <3>5. ~ Reporting(w)' /\ ~ Finished(w)'
      BY <3>3, <3>4, NoResult DEF Reporting, Finished
    <3>6. Phase(w)'
      BY <2>1, <3>2, <3>4 DEF Phase, Handshake, Initialized
    <3>7. Done(w)' = 0
      BY <2>1, <3>2, <3>5 DEF Done, InCounter
    <3>8. outbox' = [v \in Worker |-> outbox'[v]] /\ inbox' = [v \in Worker |-> inbox'[v]]
      BY <2>3, <3>2, Changed
    <3>9. \A v \in Worker \ {w} : ~ Reached(v)
      BY <2>3, <3>2, Changed
    <3>10. UNCHANGED <<counter, seen, todo>> /\ wpc[w] # "write"
      BY <2>1, <2>3, <3>2
    <3> QED
      BY <2>2, <3>5, <3>6, <3>7, <3>8, <3>9, <3>10
  <2>5. CASE inbox[w] = <<CounterMessage>>
    <3>1. Head(inbox[w]) = CounterMessage
      BY <2>5, ShortQueues
    <3>2. /\ outbox' = [outbox EXCEPT ![w] = <<Ready>>] /\ wpc' = [wpc EXCEPT ![w] = "gate"]
          /\ todo' = [todo EXCEPT ![w] = Iterations]
      BY <1>2, <2>1, <3>1, ShortQueues DEF Receive, CounterMessage, Ready
    <3>3. /\ outbox'[w] = <<Ready>> /\ inbox'[w] = <<>> /\ wpc'[w] = "gate"
          /\ todo'[w] = Iterations
      BY <2>3, <3>2
    <3>4. Phase(w)' /\ ~ Finished(w)' /\ Done(w)' = 0
      BY <1>0, <3>3 DEF Phase, Finished, Done, InCounter
    <3>5. outbox' = [v \in Worker |-> outbox'[v]] /\ inbox' = [v \in Worker |-> inbox'[v]]
      BY <2>3, <3>2, Changed
    <3>6. \A v \in Worker \ {w} : ~ Reached(v)
      BY <2>3, <3>2, Changed
    <3>7. UNCHANGED <<counter, seen>> /\ wpc[w] # "write" /\ todo' \in [Worker -> Nat]
      BY <1>0, <2>1, <2>3, <3>2
    <3> QED
      BY <2>2, <3>4, <3>5, <3>6, <3>7
  <2> QED
    BY <2>1, <2>4, <2>5
<1>3. CASE Gate(w) \/ LockWait(w) \/ TryLock(w)
  BY <1>0, <1>3 DEF Gate, LockWait, TryLock, Phase, Finished, Done, InCounter
<1>4. CASE ReadCounter(w) \/ WriteCounter(w) \/ Unlock(w)
  BY <1>0, <1>4 DEF ReadCounter, WriteCounter, Unlock, Phase, Finished, Done, InCounter
<1>5. CASE NotifyOne(w)
  <2>1. /\ todo' = [todo EXCEPT ![w] = @ - 1] /\ wpc[w] = "notify"
        /\ UNCHANGED <<inbox, outbox, wordVars, data, seen>>
    BY <1>5 DEF NotifyOne
  <2>2. /\ wpc'[w] = IF todo[w] = 1 THEN "report" ELSE "lock"
        /\ \A v \in Worker \ {w} : wpc'[v] = wpc[v] \/ (wpc[v] = "lockParked" /\ wpc'[v] = "lock")
    BY <1>5 DEF NotifyOne, Parked
  <2>3. inbox[w] = <<>> /\ outbox[w] \in {<<>>, <<Ready>>} /\ todo[w] \in 1 .. Iterations
    BY <2>1 DEF Phase, InCounter
  <2>4. todo'[w] = todo[w] - 1 /\ todo' \in [Worker -> Nat]
    BY <2>1, <2>3, <1>0
  <2>5. Phase(w)' /\ ~ Finished(w) /\ ~ Finished(w)'
    BY <1>0, <2>1, <2>2, <2>3, <2>4 DEF Phase, Finished, InCounter
  <2>6. Done(w)' = Done(w)
    BY <1>0, <2>1, <2>2, <2>3, <2>4 DEF Done, InCounter
  <2>7. Done(w) \in Int
    BY <1>0, <2>1, <2>3 DEF Done, InCounter
  <2> QED
    BY <2>1, <2>2, <2>4, <2>5, <2>6, <2>7
<1>6. CASE Report(w)
  <2>1. wpc[w] = "report" /\ inbox[w] = <<>> /\ outbox[w] \in {<<>>, <<Ready>>} /\ todo[w] = 0
    BY <1>6 DEF Report, Phase, InCounter
  <2>2. /\ wpc' = [wpc EXCEPT ![w] = "idle"]
        /\ outbox' = [outbox EXCEPT ![w] = Append(@, Result(counter))]
        /\ UNCHANGED <<inbox, wordVars, data, localVars>>
    BY <1>6 DEF Report, Result
  <2>3. outbox'[w] \in {<<Result(counter)>>, <<Ready, Result(counter)>>}
    <3>1. outbox'[w] = Append(outbox[w], Result(counter))
      BY <2>2 DEF CountTypes
    <3>2. CASE outbox[w] = <<>>
      BY <3>1, <3>2, ShortQueues
    <3>3. CASE outbox[w] = <<Ready>>
      BY <3>1, <3>3, ShortQueues
    <3> QED
      BY <2>1, <3>2, <3>3
  <2>4. outbox'[w] # <<>> /\ inbox'[w] = <<>> /\ wpc'[w] = "idle"
    BY <2>1, <2>2, <2>3, ShortQueues
  <2>5. Reporting(w)'
    BY <2>3, <2>4 DEF Reporting
  <2>6. Phase(w)' /\ ~ Finished(w)' /\ ~ Finished(w)
    BY <2>1, <2>4, <2>5 DEF Phase, Finished
  <2>7. Done(w)' = Iterations /\ Done(w) = Iterations
    BY <1>0, <2>1, <2>4, <2>5 DEF Done, InCounter
  <2>8. outbox' = [v \in Worker |-> outbox'[v]] /\ inbox' = [v \in Worker |-> inbox'[v]]
    BY <2>2, Changed
  <2>9. \A v \in Worker \ {w} : ~ Reached(v)
    BY <2>2, Changed
  <2>10. UNCHANGED <<counter, seen, todo>> /\ wpc[w] # "write"
    BY <2>1, <2>2
  <2> QED
    BY <1>0, <2>6, <2>7, <2>8, <2>9, <2>10
<1>7. ~ TransformStep(w)
  BY DEF TransformStep, LoadItem, StoreItem, Transformed, Phase, InCounter
<1> QED
  BY <1>1, <1>2, <1>3, <1>4, <1>5, <1>6, <1>7 DEF WorkerStep, CounterStep

LEMMA DoneInt == ASSUME CountTypes, NEW w \in Worker PROVE Done(w) \in Int
  BY BenchAssumption DEF CountTypes, Done

LEMMA CountWorker ==
    ASSUME MutexInv, CountTypes, Counted, NEW w \in Worker, WorkerStep(w), UNCHANGED counterVars
    PROVE  CountTypes' /\ Counted'
<1>0. /\ wpc \in [Worker -> Labels] /\ Phase(w) /\ Iterations \in Nat
      /\ seen \in [Worker -> Nat] /\ counter \in Nat
  BY BenchAssumption DEF MutexInv, Counted, CountTypes
<1>1. Moves(w)
  BY <1>0, WorkerMoves
<1>2. MutexInv'
  BY MutexWorker
<1>3. \A v \in Worker \ {w} : Phase(v)' /\ Done(v)' = Done(v) /\ (Finished(v)' <=> Finished(v))
  BY <1>1, Others DEF Counted, Moves
<1>4. FinishedWorkers' = FinishedWorkers
  BY <1>1, <1>3 DEF FinishedWorkers, Moves
<1>5. (\A v \in Worker : Phase(v))'
  BY <1>1, <1>3 DEF Moves
<1>6. Sums(DoneBy, counter)'
  <2>1. DoneBy \in [Worker -> Int] /\ Sums(DoneBy, counter) /\ counter \in Nat
    BY DoneInt DEF DoneBy, Counted, CountTypes
  <2>2. \A v \in Worker : DoneBy[v] = Done(v) /\ DoneBy'[v] = Done(v)'
    BY DEF DoneBy
  <2>3. CASE wpc[w] = "write"
    <3>1. counter' = counter + 1
      BY <1>1, <2>3 DEF Moves, Counted
    <3>2. DoneBy' = [DoneBy EXCEPT ![w] = @ + 1]
      BY <1>1, <1>3, <2>2, <2>3 DEF DoneBy, Moves
    <3>3. Sums(DoneBy', counter')
      BY <2>1, <3>1, <3>2, SumGrows
    <3> QED
      BY <3>3 DEF Sums
  <2>4. CASE wpc[w] # "write"
    <3>1. counter' = counter
      BY <1>1, <2>4 DEF Moves
    <3>2. Done(w) \in Int
      BY DoneInt
    <3>3. DoneBy' = DoneBy
      BY <1>1, <1>3, <2>2, <2>4, <3>2 DEF DoneBy, Moves
    <3>4. Sums(DoneBy', counter')
      BY <2>1, <3>1, <3>3
    <3> QED
      BY <3>4 DEF Sums
  <2> QED
    BY <2>3, <2>4
<1>7. \A v \in Worker \ {w} :
         \/ wpc'[v] = wpc[v]
         \/ wpc'[v] \in {"lock", "gate"} /\ wpc[v] \in {"lockParked", "gateParked"}
  <2>1. \A v \in Worker \ {w} : ~ Reached(v)
    BY <1>1 DEF Moves
  <2> QED
    BY <2>1 DEF Reached
<1>8. CASE wpc[w] \in Holding
  <2>1. \/ /\ wpc[w] = "read" /\ wpc'[w] = "write" /\ seen' = [seen EXCEPT ![w] = counter]
           /\ UNCHANGED <<counter, lock>>
        \/ wpc[w] = "write" /\ wpc'[w] = "unlock" /\ UNCHANGED <<seen, lock>>
        \/ wpc[w] = "unlock" /\ wpc'[w] = "notify" /\ lock' = 0 /\ UNCHANGED <<seen, counter>>
    BY <1>0, <1>8
    DEF WorkerStep, CounterStep, TransformStep, LoadScript, Receive, Gate, TryLock, LockWait,
        ReadCounter, WriteCounter, Unlock, NotifyOne, Report, LoadItem, StoreItem,
        Transformed, Goto, wordVars, localVars, Holding
  <2>2. \A v \in Worker \ {w} : wpc[v] \notin Holding /\ wpc'[v] \notin Holding
    BY <1>7, <1>8 DEF MutexInv, MutualExclusion, Holding
  <2>3. (\A v \in Worker : wpc[v] = "write" => seen[v] = counter)'
    BY <1>0, <2>1, <2>2 DEF Holding
  <2>4. (lock = 1 => \E v \in Worker : wpc[v] \in Holding)'
    BY <2>1 DEF Holding
  <2> QED
    BY <1>1, <1>4, <1>5, <1>6, <2>3, <2>4 DEF Counted, CountTypes, Moves, counterVars
<1>9. CASE wpc[w] \notin Holding
  <2>1. /\ UNCHANGED counter
        /\ \/ UNCHANGED lock /\ wpc'[w] \notin Holding
           \/ wpc[w] = "lock" /\ lock = 0 /\ wpc'[w] = "read"
           \/ wpc[w] = "lock" /\ lock = 1 /\ lock' = 1 /\ wpc'[w] \notin Holding
        /\ \A v \in Worker \ {w} : seen'[v] = seen[v]
    <3>1. ~ ReadCounter(w) /\ ~ WriteCounter(w) /\ ~ Unlock(w) /\ ~ TransformStep(w)
      BY <1>0, <1>9 DEF ReadCounter, WriteCounter, Unlock, TransformStep, LoadItem, StoreItem,
                        Transformed, Phase, Holding, InCounter
    <3>2. CASE LoadScript(w) \/ Gate(w) \/ LockWait(w) \/ Report(w)
      BY <1>0, <3>2 DEF LoadScript, Gate, LockWait, Report, Goto, wordVars, localVars, Holding
    <3>3. CASE Receive(w)
      BY <1>0, <3>3 DEF Receive, Goto, wordVars, localVars, Holding
    <3>4. CASE TryLock(w)
      BY <1>0, <3>4 DEF TryLock, Goto, localVars, Holding, MutexInv
    <3>5. CASE NotifyOne(w)
      BY <1>0, <3>5 DEF NotifyOne, Parked, Goto, wordVars, Holding
    <3> QED
      BY <3>1, <3>2, <3>3, <3>4, <3>5 DEF WorkerStep, CounterStep
  <2>2. (\A v \in Worker : wpc[v] = "write" => seen[v] = counter)'
    BY <1>7, <2>1 DEF Holding, Counted
  <2>3. (lock = 1 => \E v \in Worker : wpc[v] \in Holding)'
    BY <1>7, <1>9, <2>1 DEF Holding, Counted
  <2> QED
    BY <1>1, <1>4, <1>5, <1>6, <2>1, <2>2, <2>3 DEF Counted, CountTypes, Moves, counterVars
<1> QED
  BY <1>8, <1>9

(* What the Host takes from a channel is one of these. *)
Heads(w) ==
    \/ /\ inbox[w] = <<>> /\ wpc[w] = "idle"
       /\ \/ outbox[w] \in {<<Online>>, <<Initialized(w)>>}
          \/ \E n \in Nat : outbox[w] \in {<<Result(n)>>, <<Ready, Result(n)>>}
    \/ inbox[w] = <<>> /\ wpc[w] = "dead" /\ outbox[w] = <<Failed>>
    \/ inbox[w] = <<>> /\ wpc[w] \in InCounter /\ outbox[w] = <<Ready>>

LEMMA HostHeads == ASSUME NEW w, Phase(w), outbox[w] # <<>> PROVE Heads(w)
  BY DEF Phase, Heads, Handshake, Reporting, Finished

(* What a handler of the Host comes to. *)
Handled(w) ==
    /\ inbox' = [v \in Worker |-> inbox'[v]] /\ outbox' = [v \in Worker |-> outbox'[v]]
    /\ \A v \in Worker \ {w} : ~ Reached(v)
    /\ Phase(w)'
    /\ Done(w)' = Done(w)
    /\ ~ Finished(w)
    /\ \A v \in Worker : wpc'[v] = wpc[v] \/ (wpc[v] = "gateParked" /\ wpc'[v] = "gate")
    /\ \/ /\ resultCount' = resultCount + 1 /\ Finished(w)'
          /\ settled' = IF settled = "no" /\ resultCount' = N THEN "ok" ELSE settled
       \/ /\ resultCount' = resultCount /\ ~ Finished(w)'
          /\ settled' = IF settled = "no" /\ Head(outbox[w]).type = "error"
                        THEN "failed" ELSE settled

LEMMA HostHandles ==
    ASSUME wpc \in [Worker -> Labels], CountTypes, NEW w \in Worker, Phase(w), OnCounterEvent(w)
    PROVE  Handled(w)
<1> USE DEF CountTypes
<1>0. /\ outbox[w] # <<>> /\ outbox' = [outbox EXCEPT ![w] = Tail(@)] /\ ~ Finished(w)
      /\ UNCHANGED <<todo, seen, counter, lock>> /\ Heads(w) /\ inbox[w] = <<>>
  BY HostHeads DEF OnCounterEvent, localVars, Finished, Heads
<1>1. /\ outbox' = [v \in Worker |-> outbox'[v]] /\ outbox'[w] = Tail(outbox[w])
      /\ \A v \in Worker \ {w} : outbox'[v] = outbox[v]
  BY <1>0, Changed
<1>5. outbox'[w] = Tail(outbox[w])
  BY <1>1
<1>2. CASE outbox[w] \in {<<Online>>, <<Initialized(w)>>}
  <2>1. wpc[w] = "idle"
    <3>1. <<Online>> # <<Ready>> /\ <<Initialized(w)>> # <<Ready>>
          /\ <<Online>> # <<Failed>> /\ <<Initialized(w)>> # <<Failed>>
      <4>1. /\ Online.type = "online" /\ Ready.type = "ready" /\ Failed.type = "error"
            /\ Initialized(w).type = "initialized"
        BY DEF Online, Ready, Failed, Initialized
      <4> QED
        BY <4>1, ShortQueues
    <3> QED
      BY <1>0, <1>2, <3>1 DEF Heads
  <2>2. outbox'[w] = <<>> /\ Head(outbox[w]).type \in {"online", "initialized"}
    <3>1. outbox'[w] = <<>> /\ Head(outbox[w]) \in {Online, Initialized(w)}
      <4>1. Head(outbox[w]) \in {Online, Initialized(w)}
        BY <1>2, ShortQueues
      <4>2. outbox'[w] = <<>>
        BY <1>5, <1>2, ShortQueues
      <4> QED
        BY <4>1, <4>2
    <3> QED
      BY <3>1 DEF Online, Initialized
  <2>3. \E m \in {InitMessage(w), CounterMessage} :
           /\ inbox' = [inbox EXCEPT ![w] = <<m>>]
           /\ UNCHANGED <<wpc, start, readyCount, resultCount, settled>>
    BY <1>0, <2>2, ShortQueues
    DEF OnCounterEvent, Answer, OnReady, OnResult, OnError, InitMessage, CounterMessage
  <2>4. inbox' = [v \in Worker |-> inbox'[v]] /\ \A v \in Worker \ {w} : inbox'[v] = inbox[v]
    BY <2>3, Changed
  <2>5. inbox'[w] \in {<<InitMessage(w)>>, <<CounterMessage>>} /\ inbox'[w] # <<>>
    BY <2>3, ShortQueues
  <2>6. ~ Reporting(w) /\ ~ Reporting(w)' /\ ~ Finished(w)'
    <3>1. Online.type # "result" /\ Initialized(w).type # "result"
      BY DEF Online, Initialized
    <3> QED
      BY <1>2, <2>5, <3>1, NoResult DEF Reporting, Finished
  <2>7. Phase(w)'
    BY <2>1, <2>2, <2>3, <2>5 DEF Phase, Handshake, InitMessage
  <2>8. Done(w)' = Done(w)
    BY <1>0, <2>1, <2>3, <2>6 DEF Done, InCounter
  <2>9. \A v \in Worker \ {w} : ~ Reached(v)
    BY <1>0, <1>1, <2>3, <2>4 DEF Reached
  <2> QED
    BY <1>0, <1>1, <2>2, <2>3, <2>4, <2>6, <2>7, <2>8, <2>9 DEF Handled
<1>3. CASE Head(outbox[w]).type \in {"ready", "result", "error"}
  <2>1. UNCHANGED inbox
    BY <1>3 DEF OnCounterEvent, Answer, OnReady, OnResult, OnError
  <2>2. \/ UNCHANGED wpc
        \/ wpc' = Wake(wpc)
    BY <1>3 DEF OnCounterEvent, Answer, OnReady, OnResult, OnError
  <2>3. \A v \in Worker : wpc'[v] = wpc[v] \/ (wpc[v] = "gateParked" /\ wpc'[v] = "gate")
    BY <2>2 DEF Wake
  <2>4. \A v \in Worker \ {w} : ~ Reached(v)
    BY <1>0, <1>1, <2>1, <2>3 DEF Reached
  <2>5. CASE outbox[w] = <<Ready>> /\ wpc[w] \in InCounter
    <3>1. Head(outbox[w]).type = "ready" /\ outbox'[w] = <<>>
      <4>1. Head(outbox[w]) = Ready /\ outbox'[w] = <<>>
        <5>1. Head(outbox[w]) = Ready
          BY <2>5, ShortQueues
        <5>2. outbox'[w] = <<>>
          BY <1>5, <2>5, ShortQueues
        <5> QED
          BY <5>1, <5>2
      <4> QED
        BY <4>1 DEF Ready
    <3>2. UNCHANGED <<resultCount, settled>>
      BY <3>1 DEF OnCounterEvent, Answer, OnReady, OnResult, OnError
    <3>3. Phase(w)' /\ Done(w)' = Done(w) /\ ~ Finished(w)'
      BY <1>0, <2>1, <2>3, <2>5, <3>1 DEF Phase, Done, Finished, InCounter
    <3> QED
      BY <1>0, <1>1, <2>1, <2>3, <2>4, <3>1, <3>2, <3>3 DEF Handled
  <2>6. CASE outbox[w] = <<Failed>> /\ wpc[w] = "dead"
    <3>1. Head(outbox[w]).type = "error" /\ outbox'[w] = <<>>
      <4>1. Head(outbox[w]) = Failed /\ outbox'[w] = <<>>
        <5>1. Head(outbox[w]) = Failed
          BY <2>6, ShortQueues
        <5>2. outbox'[w] = <<>>
          BY <1>5, <2>6, ShortQueues
        <5> QED
          BY <5>1, <5>2
      <4> QED
        BY <4>1 DEF Failed
    <3>2. /\ resultCount' = resultCount
          /\ settled' = IF settled = "no" THEN "failed" ELSE settled
      BY <3>1 DEF OnCounterEvent, Answer, OnReady, OnResult, OnError, Settle
    <3>3. Phase(w)' /\ Done(w)' = Done(w) /\ ~ Finished(w)'
      BY <1>0, <2>1, <2>3, <2>6, <3>1 DEF Phase, Done, Finished, InCounter
    <3> QED
      BY <1>0, <1>1, <2>1, <2>3, <2>4, <3>1, <3>2, <3>3 DEF Handled
  <2>7. ASSUME NEW n \in Nat, outbox[w] = <<Ready, Result(n)>>, wpc[w] = "idle" PROVE Handled(w)
    <3>1. Head(outbox[w]).type = "ready" /\ outbox'[w] = <<Result(n)>> /\ outbox'[w] # <<>>
      <4>1. Head(outbox[w]) = Ready /\ outbox'[w] = <<Result(n)>> /\ outbox'[w] # <<>>
        <5>1. Head(outbox[w]) = Ready
          BY <2>7, ShortQueues
        <5>2. outbox'[w] = <<Result(n)>>
          <6>1. Tail(<<Ready, Result(n)>>) = <<Result(n)>>
            BY ShortQueues
          <6> QED
            BY <1>5, <2>7, <6>1
        <5>3. outbox'[w] # <<>>
          BY <5>2, ShortQueues
        <5> QED
          BY <5>1, <5>2, <5>3
      <4> QED
        BY <4>1 DEF Ready
    <3>2. UNCHANGED <<resultCount, settled>>
      BY <3>1 DEF OnCounterEvent, Answer, OnReady, OnResult, OnError
    <3>3. Reporting(w) /\ Reporting(w)' /\ wpc'[w] = "idle"
      BY <1>0, <2>1, <2>3, <2>7, <3>1 DEF Reporting
    <3>4. Phase(w)' /\ Done(w)' = Done(w) /\ ~ Finished(w)'
      BY <2>7, <3>1, <3>3 DEF Phase, Done, Finished, InCounter
    <3> QED
      BY <1>0, <1>1, <2>1, <2>3, <2>4, <3>1, <3>2, <3>4 DEF Handled
  <2>8. ASSUME NEW n \in Nat, outbox[w] = <<Result(n)>>, wpc[w] = "idle" PROVE Handled(w)
    <3>1. Head(outbox[w]).type = "result" /\ outbox'[w] = <<>>
      <4>1. Head(outbox[w]) = Result(n) /\ outbox'[w] = <<>>
        <5>1. Head(outbox[w]) = Result(n)
          BY <2>8, ShortQueues
        <5>2. outbox'[w] = <<>>
          BY <1>5, <2>8, ShortQueues
        <5> QED
          BY <5>1, <5>2
      <4> QED
        BY <4>1 DEF Result
    <3>2. /\ resultCount' = resultCount + 1
          /\ settled' = IF settled = "no" /\ resultCount' = N THEN "ok" ELSE settled
      BY <3>1 DEF OnCounterEvent, Answer, OnReady, OnResult, OnError, Settle
    <3>3. Reporting(w) /\ Finished(w)' /\ wpc'[w] = "idle"
      BY <1>0, <2>1, <2>3, <2>8, <3>1 DEF Reporting, Finished
    <3>4. Phase(w)' /\ Done(w)' = Done(w)
      BY <2>8, <3>3 DEF Phase, Done, InCounter, Finished
    <3> QED
      BY <1>0, <1>1, <2>1, <2>3, <2>4, <3>2, <3>3, <3>4 DEF Handled
  <2>9. outbox[w] \notin {<<Online>>, <<Initialized(w)>>}
    BY <1>3, ShortQueues DEF Online, Initialized
  <2> QED
    BY <1>0, <2>5, <2>6, <2>7, <2>8, <2>9 DEF Heads
<1>4. outbox[w] \in {<<Online>>, <<Initialized(w)>>}
      \/ Head(outbox[w]).type \in {"ready", "result", "error"}
  BY <1>0, ShortQueues DEF Heads, Ready, Result, Failed
<1> QED
  BY <1>2, <1>3, <1>4

LEMMA CountHost ==
    ASSUME MutexInv, CountTypes, Counted, NEW w \in Worker, OnCounterEvent(w)
    PROVE  CountTypes' /\ Counted'
<1>0. /\ wpc \in [Worker -> Labels] /\ Phase(w) /\ resultCount \in Nat
      /\ UNCHANGED <<todo, seen, counter, lock, cpc>>
  BY DEF MutexInv, Counted, CountTypes, OnCounterEvent, localVars
<1>1. Handled(w)
  BY <1>0, HostHandles
<1>2. \A v \in Worker \ {w} : Phase(v)' /\ Done(v)' = Done(v) /\ (Finished(v)' <=> Finished(v))
  BY <1>1, Others DEF Counted, Handled
<1>3. (\A v \in Worker : Phase(v))'
  BY <1>1, <1>2 DEF Handled
<1>4. Sums(DoneBy, counter)'
  <2>1. DoneBy' = DoneBy
    BY <1>1, <1>2 DEF DoneBy, Handled
  <2> QED
    BY <1>0, <2>1 DEF Counted, Sums
<1>5. /\ (lock = 1 => \E v \in Worker : wpc[v] \in Holding)'
      /\ (\A v \in Worker : wpc[v] = "write" => seen[v] = counter)'
  <2>1. \A v \in Worker : wpc'[v] = wpc[v] \/ (wpc[v] = "gateParked" /\ wpc'[v] = "gate")
    BY <1>1 DEF Handled
  <2> QED
    BY <1>0, <2>1 DEF Counted, Holding
<1>6. /\ FinishedWorkers \in SUBSET Worker /\ FinishedWorkers' \in SUBSET Worker
      /\ IsFiniteSet(Worker) /\ Cardinality(Worker) = N
      /\ IsFiniteSet(FinishedWorkers) /\ w \notin FinishedWorkers
  <2>1. IsFiniteSet(Worker) /\ Cardinality(Worker) = N
    BY FS_Interval, BenchAssumption DEF Worker
  <2>2. FinishedWorkers \in SUBSET Worker /\ FinishedWorkers' \in SUBSET Worker
    BY DEF FinishedWorkers
  <2>3. IsFiniteSet(FinishedWorkers)
    BY <2>1, <2>2, FS_Subset
  <2> QED
    BY <1>1, <2>1, <2>2, <2>3 DEF FinishedWorkers, Handled
<1>7. settled # "ok"
  BY <1>6 DEF Counted
<1>8. resultCount' = Cardinality(FinishedWorkers') /\ resultCount' \in Nat
      /\ (settled' = "ok" => FinishedWorkers' = Worker)
  <2>1. CASE Finished(w)'
    <3>1. /\ resultCount' = resultCount + 1
          /\ settled' = IF settled = "no" /\ resultCount' = N THEN "ok" ELSE settled
      BY <1>1, <2>1 DEF Handled
    <3>2. FinishedWorkers' = FinishedWorkers \cup {w}
      BY <1>2, <2>1 DEF FinishedWorkers
    <3>3. Cardinality(FinishedWorkers') = resultCount + 1
      BY <1>6, <3>2, FS_AddElement DEF Counted
    <3>4. resultCount' = N => FinishedWorkers' = Worker
      BY <1>6, <3>1, <3>3, FS_Subset
    <3> QED
      BY <1>0, <1>7, <3>1, <3>3, <3>4
  <2>2. CASE ~ Finished(w)'
    <3>1. /\ resultCount' = resultCount
          /\ settled' = IF settled = "no" /\ Head(outbox[w]).type = "error"
                        THEN "failed" ELSE settled
      BY <1>1, <2>2 DEF Handled
    <3>2. FinishedWorkers' = FinishedWorkers
      BY <1>1, <1>2, <2>2 DEF FinishedWorkers, Handled
    <3> QED
      BY <1>0, <1>7, <3>1, <3>2 DEF Counted
  <2> QED
    BY <2>1, <2>2
<1> QED
  BY <1>0, <1>1, <1>3, <1>4, <1>5, <1>8 DEF Counted, CountTypes, Handled

(* A run that has settled well has the sum it is after. *)
LEMMA CountedIsExact ==
    ASSUME MutexInv, CountTypes, Counted
    PROVE  CounterExact
<1> SUFFICES ASSUME settled = "ok" PROVE CounterExact
  BY DEF CounterExact
<1>1. \A w \in Worker : Finished(w)
  BY DEF Counted, FinishedWorkers
<1>2. \A w \in Worker : wpc[w] \notin InCounter /\ wpc[w] \notin Holding /\ Done(w) = Iterations
  BY <1>1 DEF Finished, InCounter, Holding, Done
<1>3. lock = 0
  BY <1>2 DEF MutexInv, Counted
<1>4. DoneBy \in [Worker -> Int] /\ counter \in Nat /\ Sums(DoneBy, counter)
      /\ \A w \in Worker : DoneBy[w] = Iterations
  BY <1>2, DoneInt DEF DoneBy, Counted, CountTypes
<1>5. counter = N * Iterations
  BY <1>4, SumAll
<1> QED
  BY <1>2, <1>3, <1>5 DEF CounterExact

LEMMA CountStarts ==
    ASSUME MutexInv, CountTypes, NotStarted, CreateWorkers
    PROVE  CountTypes' /\ Counted'
<1>1. /\ \A w \in Worker : wpc'[w] = "boot" /\ inbox'[w] = <<>> /\ outbox'[w] = <<>>
      /\ lock' = 0 /\ counter' = 0 /\ resultCount' = 0 /\ settled' = "no" /\ cpc' = "running"
      /\ UNCHANGED <<inbox, outbox, todo, seen>>
  BY DEF CreateWorkers, NotStarted, wordVars, localVars
<1>2. (\A w \in Worker : Phase(w))'
  BY <1>1 DEF Phase
<1>3. DoneBy' = [w \in Worker |-> 0] /\ FinishedWorkers' = {}
  BY <1>1 DEF DoneBy, Done, FinishedWorkers, Finished, InCounter
<1>4. Sums(DoneBy, counter)'
  BY <1>1, <1>3, SumZero DEF Sums
<1>5. Cardinality({}) = 0
  BY FS_EmptySet
<1> QED
  BY <1>1, <1>2, <1>3, <1>4, <1>5 DEF Counted, CountTypes

LEMMA CountStep == ASSUME CountInv, Next PROVE CountInv'
<1>0. MutexInv'
  BY MutexHost, MutexWorker
  DEF Next, CountInv, CounterHost, CounterLimit, PoolHost, CounterWorker, PoolWorker,
      PoolWorkerStep
<1>1. CASE program = "pool"
  BY <1>0, <1>1
  DEF CountInv, Next, CounterHost, CounterLimit, PoolHost, CounterWorker, PoolWorker, Counting,
      Pooling, counterVars
<1>2. CASE program = "counter"
  <2>1. /\ program' = "counter"
        /\ \/ CounterHostStep \/ CounterTimeout
           \/ \E w \in Worker : WorkerStep(w) /\ UNCHANGED counterVars
    BY <1>2
    DEF Next, CounterHost, CounterLimit, PoolHost, CounterWorker, PoolWorker, Counting, Pooling
  <2> USE <1>0, <1>2, <2>1 DEF CountInv
  <2>2. ASSUME NEW w \in Worker, WorkerStep(w), UNCHANGED counterVars PROVE CountInv'
    <3>1. wpc[w] \notin {"none", "stopped"}
      BY <2>2
      DEF WorkerStep, LoadScript, Receive, CounterStep, TransformStep, Gate, TryLock, LockWait,
          ReadCounter, WriteCounter, Unlock, NotifyOne, Report, LoadItem, StoreItem, Transformed
    <3>2. cpc = "running" /\ cpc' = "running" /\ CountTypes
      BY <2>2, <3>1 DEF CountTypes, NotStarted, counterVars
    <3> QED
      BY <2>2, <3>2, CountWorker
  <2>3. ASSUME NEW w \in Worker, OnCounterEvent(w) PROVE CountInv'
    <3>1. cpc = "running" /\ cpc' = "running"
      BY <2>3 DEF OnCounterEvent
    <3> QED
      BY <2>3, <3>1, CountHost
  <2>4. CASE CreateWorkers
    <3>1. cpc = "idle" /\ cpc' = "running"
      BY <2>4 DEF CreateWorkers
    <3> QED
      BY <2>4, <3>1, CountStarts
  <2>5. CASE CounterTimeout
    <3>1. cpc = "running" /\ cpc' = "running" /\ settled' = "failed"
          /\ UNCHANGED <<workerVars, resultCount>>
      BY <2>5 DEF CounterTimeout
    <3>2. CountTypes' /\ Counted'
      BY <3>1 DEF workerVars, CountTypes, Counted, Phase, Handshake, Reporting, Finished,
                  DoneBy, Done, Sums, FinishedWorkers
    <3> QED
      BY <3>1, <3>2
  <2>6. CASE CounterReturn
    <3>1. /\ cpc = "running" /\ cpc' = "returned" /\ settled # "no"
          /\ wpc' = [w \in Worker |-> "stopped"]
          /\ inbox' = [w \in Worker |-> <<>>] /\ outbox' = [w \in Worker |-> <<>>]
          /\ UNCHANGED <<lock, counter, todo, seen, resultCount, settled>>
      BY <2>6 DEF CounterReturn, wordVars, localVars
    <3>2. CounterExact
      BY <3>1, CountedIsExact
    <3>3. CounterExact'
      BY <3>1, <3>2 DEF CounterExact, InCounter
    <3>4. CountTypes'
      BY <3>1 DEF CountTypes
    <3> QED
      BY <3>1, <3>3, <3>4
  <2> QED
    BY <2>2, <2>3, <2>4, <2>5, <2>6 DEF CounterHostStep
<1> QED
  BY <1>1, <1>2 DEF CountInv

LEMMA CountInvHolds == Spec => []CountInv
<1>1. Init => CountInv
  <2> SUFFICES ASSUME Init PROVE CountInv
    OBVIOUS
  <2>1. MutexInv
    BY DEF Init, WorkerInit, MutexInv, MutualExclusion, Holding, Labels
  <2> QED
    BY <2>1 DEF Init, WorkerInit, CounterInit, CountInv, CountTypes, NotStarted
<1>2. CountInv /\ [Next]_vars => CountInv'
  <2> SUFFICES ASSUME CountInv, UNCHANGED vars PROVE CountInv'
    BY CountStep
  <2> QED
    BY DEF vars, workerVars, counterVars, CountInv, CountTypes, NotStarted, Counted, Phase,
           Handshake, Reporting, Finished, DoneBy, Done, Sums, FinishedWorkers, MutexInv,
           MutualExclusion, CounterExact
<1> QED
  BY <1>1, <1>2, PTL DEF Spec

(* For every number of Workers and of increments, and every interleaving   *)
(* of them: when the run settles well, the counter is exactly their        *)
(* product, the mutex free and no Worker at work (runContendedCounter,     *)
(* harness.ts, over mutex.mbt).                                            *)
THEOREM CounterExactHolds == Spec => []CounterExact
<1>1. CountInv => CounterExact
  <2>1. CASE program = "pool"
    BY <2>1 DEF CountInv, CounterExact
  <2>2. CASE program = "counter"
    BY <2>2, CountedIsExact DEF CountInv, CountTypes, NotStarted, CounterExact
  <2> QED
    BY <2>1, <2>2 DEF CountInv
<1> QED
  BY <1>1, CountInvHolds, PTL
-----------------------------------------------------------------------------
(* The message pool.  A Worker has its share of the current batch before   *)
(* it, under way, or behind it; whatever it has of earlier batches counts  *)
(* for those.                                                              *)

Message == [type : {"init"}, id : Worker]
           \cup [type : {"transform"}, batch : Batch, start : Nat, end : Nat]
Reply == [type : {"online", "error"}] \cup [type : {"initialized"}, id : Worker]
         \cup [type : {"transformed"}, id : Worker, batch : Batch]

BatchTypes ==
    /\ wpc \in [Worker -> InTransform \cup {"none", "boot", "idle", "dead", "stopped"}]
    /\ inbox \in [Worker -> Seq(Message)] /\ outbox \in [Worker -> Seq(Reply)]
    /\ task \in [Worker -> [start : Nat, end : Nat, batch : 0 .. MaxBatches]]
    /\ listeners \subseteq Listener
    /\ batchId \in 0 .. MaxBatches /\ asked \in 0 .. Elements
    /\ hits \in [Batch -> [Item -> Nat]]

(* Nothing is there of a batch yet to come, and a wait for an answer names *)
(* its batch.                                                              *)
NoneAhead ==
    /\ \A w \in Worker :
          /\ \A k \in 1 .. Len(inbox[w]) :
                inbox[w][k].type = "transform" => inbox[w][k].batch <= batchId
          /\ \A k \in 1 .. Len(outbox[w]) :
                outbox[w][k].type = "transformed" => outbox[w][k].batch <= batchId
          /\ task[w].batch <= batchId
          /\ wpc[w] \in InTransform => task[w].batch # 0
    /\ \A l \in listeners : l.batch <= batchId /\ (l.type = "transformed" <=> l.batch # 0)
    /\ \A b \in Batch : b > batchId => \A i \in Item : hits[b][i] = 0
    /\ ppc \in {"none", "online", "initialized"} => batchId = 0
    /\ ppc = "batch" \/ outcome = "ok" => batchId # 0

(* The items of a share below s have been transformed in this batch, once. *)
HitUpTo(w, s) == \A i \in Share(asked, w).start .. Share(asked, w).end - 1 :
                    hits[batchId][i] = IF i < s THEN 1 ELSE 0
AllHit(w) == HitUpTo(w, Share(asked, w).end)

Current(m) == m.type = "transform" /\ m.batch = batchId
Waiting(w) == \E k \in 1 .. Len(inbox[w]) : Current(inbox[w][k])
Working(w) == wpc[w] \in InTransform /\ task[w].batch = batchId

Turn(w) ==
    /\ \A k \in 1 .. Len(inbox[w]) : Current(inbox[w][k]) =>
          /\ k = Len(inbox[w])
          /\ inbox[w][k].start = Share(asked, w).start
          /\ inbox[w][k].end = Share(asked, w).end
    /\ Waiting(w) => ~ Working(w) /\ HitUpTo(w, Share(asked, w).start)
    /\ Working(w) => /\ Share(asked, w).start <= task[w].start
                     /\ task[w].start <= Share(asked, w).end
                     /\ task[w].end = Share(asked, w).end
                     /\ wpc[w] = "store" => task[w].start < task[w].end
                     /\ HitUpTo(w, task[w].start)
    /\ Waiting(w) \/ Working(w) \/ wpc[w] = "stopped" \/ AllHit(w)

(* Whoever has answered is done.                                           *)
Answered(w) == \/ outcome = "ok"
               \/ ppc = "batch" /\ \A l \in listeners : l.batch = batchId => l.worker # w
               \/ \E k \in 1 .. Len(outbox[w]) :
                     outbox[w][k].type = "transformed" /\ outbox[w][k].batch = batchId

InBatch == /\ \A w \in Worker : Turn(w) /\ (Answered(w) => AllHit(w))
           /\ \A i \in Item : i >= asked => hits[batchId][i] = 0

BatchInv == /\ program \in {"counter", "pool"}
            /\ program = "counter" => outcome = "none"
            /\ program = "pool" => /\ BatchTypes /\ NoneAhead
                                   /\ batchId # 0 => InBatch

(* The shares of a batch are in the order of the Workers, and cover it.    *)
LEMMA SharesOfBatch ==
    ASSUME NEW n \in 0 .. Elements
    PROVE  /\ \A w \in Worker : /\ Share(n, w).start \in Nat /\ Share(n, w).end \in Nat
                                /\ Share(n, w).start <= Share(n, w).end
                                /\ Share(n, w).end <= n
           /\ \A v, w \in Worker : v < w => Share(n, v).end <= Share(n, w).start
           /\ \A i \in 0 .. n - 1 : \E w \in Worker :
                 Share(n, w).start <= i /\ i < Share(n, w).end
<1> DEFINE b == [v \in 0 .. N |-> v]
           Cut(v) == (n * v) \div N
<1>0. n \in Nat /\ N \in Nat \ {0} /\ \A w \in Worker : w \in 0 .. N /\ w + 1 \in 0 .. N
  BY BenchAssumption DEF Worker
<1>1. Numbers!IsWeighting(b)
  <2>1. b \in [0 .. N -> Nat] /\ b[0] = 0
    BY <1>0
  <2>2. \A w \in Worker : b[w] < b[w + 1]
    BY <1>0 DEF Worker
  <2> HIDE DEF b
  <2> QED
    BY <2>1, <2>2 DEF Numbers!IsWeighting, Numbers!Worker, Worker
<1>2. \A v \in 0 .. N : Numbers!WorkerStart(b, 0, n, v) = Cut(v)
  BY <1>0 DEF Numbers!WorkerStart
<1>3. \A v \in 0 .. N : Cut(v) \in Int
  BY <1>0
<1>4. \A v, w \in 0 .. N : v <= w => Cut(v) <= Cut(w)
  <2> HIDE DEF b, Cut
  <2> QED
    BY <1>0, <1>1, <1>2, Numbers!CutsGrow
<1>5. Cut(0) = 0 /\ Cut(N) = n
  BY <1>0
<1>6. \A w \in Worker : Share(n, w).start = Cut(w) /\ Share(n, w).end = Cut(w + 1)
  BY DEF Share
<1> HIDE DEF Cut
<1>7. ASSUME NEW i \in 0 .. n - 1 PROVE \E w \in Worker : Cut(w) <= i /\ i < Cut(w + 1)
  <2> DEFINE K == {v \in 0 .. N : i < Cut(v)}
  <2>1. N \in K /\ K \subseteq Nat
    BY <1>0, <1>5
  <2>2. PICK m \in K : \A k \in K : m <= k
    <3> HIDE DEF K
    <3> QED
      BY <2>1, Numbers!LeastNumber, BenchAssumption
  <2>3. m # 0 /\ m \in 0 .. N
    BY <1>5
  <2>4. m - 1 \in Worker /\ m - 1 \in 0 .. N /\ m - 1 \notin K /\ (m - 1) + 1 = m
    BY <1>0, <2>2, <2>3 DEF Worker
  <2>5. Cut(m - 1) <= i
    BY <1>3, <2>4
  <2> QED
    BY <2>4, <2>5
<1>8. ASSUME NEW w \in Worker
      PROVE  Cut(w) \in Nat /\ Cut(w + 1) \in Nat /\ Cut(w) <= Cut(w + 1) /\ Cut(w + 1) <= n
  <2>1. 0 <= w /\ w <= w + 1 /\ w + 1 <= N /\ w \in 0 .. N /\ w + 1 \in 0 .. N
        /\ 0 \in 0 .. N /\ N \in 0 .. N
    BY <1>0 DEF Worker
  <2>2. Cut(0) <= Cut(w) /\ Cut(w) <= Cut(w + 1) /\ Cut(w + 1) <= Cut(N)
    BY <1>4, <2>1
  <2> QED
    BY <1>0, <1>3, <1>5, <2>1, <2>2
<1>9. ASSUME NEW v \in Worker, NEW w \in Worker, v < w PROVE Cut(v + 1) <= Cut(w)
  <2>1. v + 1 <= w /\ v + 1 \in 0 .. N /\ w \in 0 .. N
    BY <1>0, <1>9 DEF Worker
  <2> QED
    BY <1>4, <2>1
<1> QED
  BY <1>6, <1>7, <1>8, <1>9

LEMMA Undisturbed ==
    ASSUME NEW v \in Worker, Turn(v), Answered(v) => AllHit(v),
           UNCHANGED <<asked, batchId, outcome, ppc, listeners>>,
           inbox'[v] = inbox[v], outbox'[v] = outbox[v], wpc'[v] = wpc[v], task'[v] = task[v],
           \A i \in Share(asked, v).start .. Share(asked, v).end - 1 :
              hits'[batchId][i] = hits[batchId][i]
    PROVE  Turn(v)' /\ (Answered(v) => AllHit(v))'
  BY DEF Turn, Answered, AllHit, HitUpTo, Current, Waiting, Working

LEMMA QueueTail ==
    ASSUME NEW S, NEW q \in Seq(S), q # <<>>
    PROVE  /\ Head(q) = q[1] /\ Head(q) \in S /\ Tail(q) \in Seq(S)
           /\ Len(q) \in Nat \ {0} /\ Len(Tail(q)) = Len(q) - 1
           /\ \A k \in 1 .. Len(Tail(q)) : Tail(q)[k] = q[k + 1]
  OBVIOUS

LEMMA QueueAppend ==
    ASSUME NEW S, NEW q \in Seq(S), NEW m \in S
    PROVE  /\ Append(q, m) \in Seq(S) /\ Len(Append(q, m)) = Len(q) + 1
           /\ Len(q) \in Nat
           /\ \A k \in 1 .. Len(q) : Append(q, m)[k] = q[k]
           /\ Append(q, m)[Len(q) + 1] = m
  OBVIOUS

(* An item of one share is not in another. *)
LEMMA OtherShare ==
    ASSUME NEW n \in 0 .. Elements, NEW v \in Worker, NEW w \in Worker, v # w, NEW i \in Int,
           Share(n, w).start <= i, i < Share(n, w).end
    PROVE  i \notin Share(n, v).start .. Share(n, v).end - 1
<1>1. v \in Int /\ w \in Int
  BY BenchAssumption DEF Worker
<1>2. /\ Share(n, v).start \in Nat /\ Share(n, v).end \in Nat
      /\ Share(n, w).start \in Nat /\ Share(n, w).end \in Nat
      /\ v < w => Share(n, v).end <= Share(n, w).start
      /\ w < v => Share(n, w).end <= Share(n, v).start
  BY SharesOfBatch
<1> HIDE DEF Share
<1> QED
  BY <1>1, <1>2

(* A Worker says something that is not an answer to the current batch, or  *)
(* has transformed its share of it.                                        *)
LEMMA SaysMore ==
    ASSUME BatchTypes, NEW w \in Worker, NEW m \in Reply, m.type = "transformed" => m.batch <= batchId,
           outbox' = [outbox EXCEPT ![w] = Append(@, m)], NoneAhead, UNCHANGED batchId
    PROVE  /\ outbox' \in [Worker -> Seq(Reply)]
           /\ \A v \in Worker \ {w} : outbox'[v] = outbox[v]
           /\ \A v \in Worker : \A k \in 1 .. Len(outbox'[v]) :
                 outbox'[v][k].type = "transformed" => outbox'[v][k].batch <= batchId
           /\ \A k \in 1 .. Len(outbox'[w]) :
                 outbox'[w][k] = m \/ \E j \in 1 .. Len(outbox[w]) : outbox'[w][k] = outbox[w][j]
<1>1. outbox \in [Worker -> Seq(Reply)] /\ outbox[w] \in Seq(Reply)
  BY DEF BatchTypes
<1>2. /\ outbox'[w] = Append(outbox[w], m) /\ outbox'[w] \in Seq(Reply)
      /\ \A v \in Worker \ {w} : outbox'[v] = outbox[v]
  BY <1>1, QueueAppend
<1>3. outbox' \in [Worker -> Seq(Reply)]
  BY <1>1, <1>2
<1>4. \A k \in 1 .. Len(outbox'[w]) :
         outbox'[w][k] = m \/ \E j \in 1 .. Len(outbox[w]) : outbox'[w][k] = outbox[w][j]
  <2>1. /\ Len(outbox'[w]) = Len(outbox[w]) + 1 /\ Len(outbox[w]) \in Nat
        /\ \A k \in 1 .. Len(outbox[w]) : outbox'[w][k] = outbox[w][k]
        /\ outbox'[w][Len(outbox[w]) + 1] = m
    BY <1>1, <1>2, QueueAppend
  <2> QED
    BY <2>1
<1>5. \A v \in Worker : \A k \in 1 .. Len(outbox'[v]) :
         outbox'[v][k].type = "transformed" => outbox'[v][k].batch <= batchId
  BY <1>2, <1>4 DEF NoneAhead
<1> QED
  BY <1>2, <1>3, <1>4, <1>5

LEMMA BatchWorker ==
    ASSUME BatchTypes, NoneAhead, batchId # 0 => InBatch, NEW w \in Worker, PoolWorkerStep(w)
    PROVE  BatchTypes' /\ NoneAhead' /\ (batchId # 0 => InBatch)'
<1> USE DEF wordVars, localVars, Goto, PostToHost
<1>0. /\ UNCHANGED <<asked, batchId, outcome, ppc, listeners>>
      /\ LoadScript(w) \/ Receive(w) \/ LoadItem(w) \/ StoreItem(w) \/ Transformed(w)
      /\ wpc[w] # "store" => UNCHANGED hits
  BY DEF PoolWorkerStep, WorkerStep, TransformStep, CounterStep, Gate, TryLock, LockWait,
         ReadCounter, WriteCounter, Unlock, NotifyOne, Report, BatchTypes, InTransform
<1>00. /\ wpc \in [Worker -> InTransform \cup {"none", "boot", "idle", "dead", "stopped"}]
       /\ task \in [Worker -> [start : Nat, end : Nat, batch : 0 .. MaxBatches]]
       /\ inbox \in [Worker -> Seq(Message)]
       /\ hits \in [Batch -> [Item -> Nat]] /\ batchId \in 0 .. MaxBatches
  BY DEF BatchTypes
<1>1. CASE LoadScript(w)
  <2>1. PICK m \in Reply, to \in {"idle", "dead"} :
           /\ m.type # "transformed" /\ wpc' = [wpc EXCEPT ![w] = to]
           /\ outbox' = [outbox EXCEPT ![w] = Append(@, m)]
    <3>1. PICK type \in {"online", "error"}, to \in {"idle", "dead"} :
             /\ wpc' = [wpc EXCEPT ![w] = to]
             /\ outbox' = [outbox EXCEPT ![w] = Append(@, [type |-> type])]
      BY <1>1 DEF LoadScript
    <3>2. [type |-> type] \in Reply /\ [type |-> type].type # "transformed"
      BY DEF Reply
    <3> QED
      BY <3>1, <3>2
  <2>3. wpc[w] = "boot" /\ UNCHANGED <<inbox, task, hits>>
    BY <1>0, <1>1 DEF LoadScript
  <2>4. /\ outbox' \in [Worker -> Seq(Reply)]
        /\ \A v \in Worker \ {w} : outbox'[v] = outbox[v]
        /\ \A v \in Worker : \A k \in 1 .. Len(outbox'[v]) :
              outbox'[v][k].type = "transformed" => outbox'[v][k].batch <= batchId
        /\ \A k \in 1 .. Len(outbox'[w]) : outbox'[w][k].type = "transformed" =>
              \E j \in 1 .. Len(outbox[w]) : outbox'[w][k] = outbox[w][j]
    <3>1. /\ outbox' \in [Worker -> Seq(Reply)]
          /\ \A v \in Worker \ {w} : outbox'[v] = outbox[v]
          /\ \A v \in Worker : \A k \in 1 .. Len(outbox'[v]) :
                outbox'[v][k].type = "transformed" => outbox'[v][k].batch <= batchId
          /\ \A k \in 1 .. Len(outbox'[w]) :
                outbox'[w][k] = m \/ \E j \in 1 .. Len(outbox[w]) : outbox'[w][k] = outbox[w][j]
      BY <1>0, <2>1, SaysMore
    <3> QED
      BY <2>1, <3>1
  <2>5. wpc' \in [Worker -> InTransform \cup {"none", "boot", "idle", "dead", "stopped"}]
        /\ \A v \in Worker \ {w} : wpc'[v] = wpc[v]
    BY <1>00, <2>1
  <2>6. BatchTypes' /\ NoneAhead'
    <3>1. BatchTypes'
      BY <1>0, <1>00, <2>1, <2>3, <2>4, <2>5 DEF BatchTypes
    <3>2. \A v \in Worker : wpc'[v] \in InTransform => wpc[v] \in InTransform
      BY <1>00, <2>1, <2>5 DEF InTransform
    <3> QED
      BY <1>0, <2>3, <2>4, <3>1, <3>2 DEF NoneAhead
  <2>7. ASSUME batchId # 0 PROVE InBatch'
    <3>1. \A v \in Worker \ {w} : Turn(v)' /\ (Answered(v) => AllHit(v))'
      BY <1>0, <2>3, <2>4, <2>5, <2>7, Undisturbed DEF InBatch
    <3>2. Turn(w)'
      BY <1>0, <1>00, <2>1, <2>3, <2>7
      DEF InBatch, Turn, AllHit, HitUpTo, Current, Waiting, Working, InTransform
    <3>3. (Answered(w) => AllHit(w))'
      BY <1>0, <2>3, <2>4, <2>7 DEF InBatch, Answered, AllHit, HitUpTo
    <3> QED
      BY <1>0, <2>3, <2>7, <3>1, <3>2, <3>3 DEF InBatch
  <2> QED
    BY <1>0, <2>6, <2>7
<1>2. CASE Receive(w)
  <2> DEFINE m == Head(inbox[w])
             q == Tail(inbox[w])
  <2>1. wpc[w] = "idle" /\ inbox[w] # <<>> /\ inbox' = [inbox EXCEPT ![w] = q]
        /\ UNCHANGED hits
    BY <1>0, <1>2 DEF Receive
  <2>2. /\ m = inbox[w][1] /\ m \in Message /\ q \in Seq(Message)
        /\ Len(inbox[w]) \in Nat \ {0} /\ Len(q) = Len(inbox[w]) - 1
        /\ \A k \in 1 .. Len(q) : q[k] = inbox[w][k + 1]
    BY <1>00, <2>1, QueueTail
  <2> HIDE DEF m, q
  <2>3. /\ inbox' \in [Worker -> Seq(Message)] /\ inbox'[w] = q
        /\ \A v \in Worker \ {w} : inbox'[v] = inbox[v]
    BY <1>00, <2>1, <2>2
  <2>4. \A v \in Worker : \A k \in 1 .. Len(inbox'[v]) :
           inbox'[v][k].type = "transform" => inbox'[v][k].batch <= batchId
    <3>1. \A k \in 1 .. Len(q) : k + 1 \in 1 .. Len(inbox[w]) /\ q[k] = inbox[w][k + 1]
      BY <2>2
    <3>2. \A k \in 1 .. Len(q) : q[k].type = "transform" => q[k].batch <= batchId
      BY <3>1 DEF NoneAhead
    <3> QED
      BY <2>3, <3>2 DEF NoneAhead
  <2>4a. ASSUME batchId # 0
         PROVE  /\ \A k \in 1 .. Len(q) : Current(q[k]) =>
                      /\ k = Len(q)
                      /\ q[k].start = Share(asked, w).start /\ q[k].end = Share(asked, w).end
                /\ (\E k \in 1 .. Len(q) : Current(q[k])) => Waiting(w)
                /\ ~ Current(m) /\ Waiting(w) => \E k \in 1 .. Len(q) : Current(q[k])
                /\ Current(m) => /\ Waiting(w) /\ Len(q) = 0
                                 /\ m.start = Share(asked, w).start
                                 /\ m.end = Share(asked, w).end
    <3>1. \A k \in 1 .. Len(inbox[w]) : Current(inbox[w][k]) =>
             /\ k = Len(inbox[w])
             /\ inbox[w][k].start = Share(asked, w).start
             /\ inbox[w][k].end = Share(asked, w).end
      BY <2>4a DEF InBatch, Turn
    <3>2. \A k \in 1 .. Len(inbox[w]) : k = 1 \/ (k - 1 \in 1 .. Len(q) /\ q[k - 1] = inbox[w][k])
      BY <2>2
    <3>3. \A k \in 1 .. Len(q) : k + 1 \in 1 .. Len(inbox[w]) /\ q[k] = inbox[w][k + 1]
      BY <2>2
    <3> HIDE DEF Current
    <3>4. \A k \in 1 .. Len(q) : Current(q[k]) =>
             /\ k = Len(q)
             /\ q[k].start = Share(asked, w).start /\ q[k].end = Share(asked, w).end
      BY <2>2, <3>1, <3>3
    <3>5. (\E k \in 1 .. Len(q) : Current(q[k])) => Waiting(w)
      BY <3>3 DEF Waiting
    <3>6. ~ Current(m) /\ Waiting(w) => \E k \in 1 .. Len(q) : Current(q[k])
      BY <2>2, <3>2 DEF Waiting
    <3>7. Current(m) => /\ Waiting(w) /\ Len(q) = 0
                        /\ m.start = Share(asked, w).start /\ m.end = Share(asked, w).end
      <4>1. 1 \in 1 .. Len(inbox[w])
        BY <2>2
      <4>2. Current(m) => /\ 1 = Len(inbox[w]) /\ m.start = Share(asked, w).start
                          /\ m.end = Share(asked, w).end
        BY <2>2, <3>1, <4>1
      <4>3. Current(m) => Waiting(w)
        BY <2>2, <4>1 DEF Waiting
      <4> QED
        BY <2>2, <4>2, <4>3
    <3> QED
      BY <3>4, <3>5, <3>6, <3>7
  <2>5. CASE m.type = "init" /\ UNCHANGED <<wpc, task>>
             /\ PostToHost(w, [type |-> "initialized", id |-> m.id])
    <3>1. PICK r \in Reply : r.type # "transformed" /\ outbox' = [outbox EXCEPT ![w] = Append(@, r)]
      <4>1. m.id \in Worker
        BY <2>2, <2>5 DEF Message
      <4>2. [type |-> "initialized", id |-> m.id] \in Reply
        BY <4>1 DEF Reply
      <4> QED
        BY <2>5, <4>2
    <3>2. /\ outbox' \in [Worker -> Seq(Reply)]
          /\ \A v \in Worker \ {w} : outbox'[v] = outbox[v]
          /\ \A v \in Worker : \A k \in 1 .. Len(outbox'[v]) :
                outbox'[v][k].type = "transformed" => outbox'[v][k].batch <= batchId
          /\ \A k \in 1 .. Len(outbox'[w]) : outbox'[w][k].type = "transformed" =>
                \E j \in 1 .. Len(outbox[w]) : outbox'[w][k] = outbox[w][j]
      <4>1. /\ outbox' \in [Worker -> Seq(Reply)]
            /\ \A v \in Worker \ {w} : outbox'[v] = outbox[v]
            /\ \A v \in Worker : \A k \in 1 .. Len(outbox'[v]) :
                  outbox'[v][k].type = "transformed" => outbox'[v][k].batch <= batchId
            /\ \A k \in 1 .. Len(outbox'[w]) :
                  outbox'[w][k] = r \/ \E j \in 1 .. Len(outbox[w]) : outbox'[w][k] = outbox[w][j]
        BY <1>0, <3>1, SaysMore
      <4> QED
        BY <3>1, <4>1
    <3>3. BatchTypes' /\ NoneAhead'
      BY <1>0, <2>1, <2>3, <2>4, <2>5, <3>2 DEF BatchTypes, NoneAhead
    <3>4. ASSUME batchId # 0 PROVE InBatch'
      <4>1. \A v \in Worker \ {w} : Turn(v)' /\ (Answered(v) => AllHit(v))'
        BY <1>0, <2>1, <2>3, <2>5, <3>2, <3>4, Undisturbed DEF InBatch
      <4>2. ~ Working(w) /\ ~ Working(w)'
        BY <1>0, <2>1, <2>5 DEF Working, InTransform
      <4>3. ~ Current(m) /\ UNCHANGED <<asked, batchId, wpc>>
        BY <1>0, <2>5 DEF Current
      <4>4. Turn(w)'
        BY <2>1, <2>3, <2>4a, <3>4, <4>2, <4>3
        DEF InBatch, Turn, Waiting, Current, AllHit, HitUpTo
      <4>5. (Answered(w) => AllHit(w))'
        <5>1. Answered(w)' => Answered(w)
          BY <1>0, <3>2 DEF Answered
        <5>2. AllHit(w) => AllHit(w)'
          BY <1>0, <2>1 DEF AllHit, HitUpTo
        <5> QED
          BY <3>4, <5>1, <5>2 DEF InBatch
      <4> QED
        BY <1>0, <2>1, <3>4, <4>1, <4>4, <4>5 DEF InBatch
    <3> QED
      BY <1>0, <3>3, <3>4
  <2>6. CASE /\ m.type = "transform" /\ wpc' = [wpc EXCEPT ![w] = "load"]
             /\ task' = [task EXCEPT ![w] = [start |-> m.start, end |-> m.end, batch |-> m.batch]]
             /\ UNCHANGED outbox
    <3>1. m.start \in Nat /\ m.end \in Nat /\ m.batch \in Batch /\ m.batch <= batchId
      <4>1. m.start \in Nat /\ m.end \in Nat /\ m.batch \in Batch
        BY <2>2, <2>6 DEF Message
      <4> QED
        BY <2>2, <2>6, <4>1 DEF NoneAhead
    <3>2. /\ wpc' \in [Worker -> InTransform \cup {"none", "boot", "idle", "dead", "stopped"}]
          /\ wpc'[w] = "load" /\ \A v \in Worker \ {w} : wpc'[v] = wpc[v]
      BY <1>00, <2>6 DEF InTransform
    <3>3. /\ task' \in [Worker -> [start : Nat, end : Nat, batch : 0 .. MaxBatches]]
          /\ \A v \in Worker \ {w} : task'[v] = task[v]
          /\ task'[w].start = m.start /\ task'[w].end = m.end /\ task'[w].batch = m.batch
      BY <1>00, <2>6, <3>1 DEF Batch
    <3>4. BatchTypes' /\ NoneAhead'
      <4>1. BatchTypes'
        BY <1>0, <2>1, <2>3, <2>6, <3>2, <3>3 DEF BatchTypes
      <4>2. \A v \in Worker : /\ task'[v].batch <= batchId
                              /\ wpc'[v] \in InTransform => task'[v].batch # 0
        BY <3>1, <3>2, <3>3 DEF NoneAhead, Batch
      <4>3. \A v \in Worker : \A k \in 1 .. Len(outbox'[v]) :
               outbox'[v][k].type = "transformed" => outbox'[v][k].batch <= batchId
        BY <2>6 DEF NoneAhead
      <4>4. /\ \A l \in listeners' : l.batch <= batchId /\ (l.type = "transformed" <=> l.batch # 0)
            /\ \A b \in Batch : b > batchId => \A i \in Item : hits'[b][i] = 0
            /\ ppc' \in {"none", "online", "initialized"} => batchId = 0
            /\ ppc' = "batch" \/ outcome' = "ok" => batchId # 0
        BY <1>0, <2>1 DEF NoneAhead
      <4>5. \A v \in Worker :
              /\ \A k \in 1 .. Len(inbox'[v]) :
                    inbox'[v][k].type = "transform" => inbox'[v][k].batch <= batchId
              /\ \A k \in 1 .. Len(outbox'[v]) :
                    outbox'[v][k].type = "transformed" => outbox'[v][k].batch <= batchId
              /\ task'[v].batch <= batchId
              /\ wpc'[v] \in InTransform => task'[v].batch # 0
        <5> TAKE v \in Worker
        <5>1. \A k \in 1 .. Len(inbox'[v]) :
                 inbox'[v][k].type = "transform" => inbox'[v][k].batch <= batchId
          BY <2>4
        <5>2. \A k \in 1 .. Len(outbox'[v]) :
                 outbox'[v][k].type = "transformed" => outbox'[v][k].batch <= batchId
          BY <4>3
        <5>3. task'[v].batch <= batchId /\ (wpc'[v] \in InTransform => task'[v].batch # 0)
          BY <4>2
        <5> QED
          BY <5>1, <5>2, <5>3
      <4> QED
        BY <1>0, <4>1, <4>4, <4>5 DEF NoneAhead
    <3>5. ASSUME batchId # 0 PROVE InBatch'
      <4>1. \A v \in Worker \ {w} : Turn(v)' /\ (Answered(v) => AllHit(v))'
        BY <1>0, <2>1, <2>3, <2>6, <3>2, <3>3, <3>5, Undisturbed DEF InBatch
      <4>2. ~ Working(w) /\ wpc[w] # "stopped" /\ UNCHANGED <<asked, batchId, hits>>
        BY <1>0, <2>1 DEF Working, InTransform
      <4>3. Working(w)' <=> Current(m)
        BY <2>6, <3>2, <3>3, <4>2 DEF Working, Current, InTransform
      <4>4. asked \in 0 .. Elements
        BY DEF BatchTypes
      <4>5. Turn(w)'
        <5>1. (\A k \in 1 .. Len(inbox[w]) : Current(inbox[w][k]) =>
                  /\ k = Len(inbox[w])
                  /\ inbox[w][k].start = Share(asked, w).start
                  /\ inbox[w][k].end = Share(asked, w).end)'
          BY <2>3, <2>4a, <3>5, <4>2 DEF Current
        <5>2. CASE Current(m)
          <6>1. ~ Waiting(w)'
            BY <2>3, <2>4a, <3>5, <5>2 DEF Waiting
          <6>2. HitUpTo(w, Share(asked, w).start)
            BY <2>4a, <3>5, <5>2 DEF InBatch, Turn
          <6>3. HitUpTo(w, Share(asked, w).start)'
            BY <4>2, <6>2 DEF HitUpTo
          <6>4. Share(asked, w).start <= Share(asked, w).end
                /\ Share(asked, w).start \in Nat
            BY <4>4, SharesOfBatch
          <6>5. task'[w].start = Share(asked, w).start /\ task'[w].end = Share(asked, w).end
            BY <2>4a, <3>3, <3>5, <5>2
          <6> QED
            BY <3>2, <4>2, <4>3, <5>1, <5>2, <6>1, <6>3, <6>4, <6>5 DEF Turn
        <5>3. CASE ~ Current(m)
          <6>1. Waiting(w)' <=> Waiting(w)
            BY <2>3, <2>4a, <3>5, <4>2, <5>3 DEF Waiting, Current
          <6>2. /\ Waiting(w) => HitUpTo(w, Share(asked, w).start)
                /\ Waiting(w) \/ AllHit(w)
            BY <3>5, <4>2 DEF InBatch, Turn
          <6>3. /\ Waiting(w) => HitUpTo(w, Share(asked, w).start)'
                /\ Waiting(w) \/ AllHit(w)'
            BY <4>2, <6>2 DEF HitUpTo, AllHit
          <6> QED
            BY <4>2, <4>3, <5>1, <5>3, <6>1, <6>3 DEF Turn
        <5> QED
          BY <5>2, <5>3
      <4>6. (Answered(w) => AllHit(w))'
        BY <1>0, <2>6, <3>5, <4>2 DEF InBatch, Answered, AllHit, HitUpTo
      <4> QED
        BY <1>0, <2>1, <3>5, <4>1, <4>5, <4>6 DEF InBatch
    <3> QED
      BY <1>0, <3>4, <3>5
  <2> QED
    BY <1>2, <2>2, <2>5, <2>6 DEF Receive, Message, m
<1>3. CASE LoadItem(w)
  <2>1. /\ wpc[w] = "load" /\ wpc' = [wpc EXCEPT ![w] = "store"] /\ task[w].start < task[w].end
        /\ UNCHANGED <<inbox, outbox, task, hits>>
    BY <1>0, <1>3 DEF LoadItem
  <2>2. wpc' \in [Worker -> InTransform \cup {"none", "boot", "idle", "dead", "stopped"}]
        /\ wpc'[w] = "store" /\ \A v \in Worker \ {w} : wpc'[v] = wpc[v]
    BY <1>00, <2>1 DEF InTransform
  <2>3. BatchTypes' /\ NoneAhead'
    BY <1>0, <2>1, <2>2 DEF BatchTypes, NoneAhead
  <2>4. ASSUME batchId # 0 PROVE InBatch'
    <3>1. \A v \in Worker \ {w} : Turn(v)' /\ (Answered(v) => AllHit(v))'
      BY <1>0, <2>1, <2>2, <2>4, Undisturbed DEF InBatch
    <3>2. Turn(w)' /\ (Answered(w) => AllHit(w))'
      BY <1>0, <2>1, <2>2, <2>4
      DEF InBatch, Turn, Answered, AllHit, HitUpTo, Current, Waiting, Working, InTransform
    <3> QED
      BY <1>0, <2>1, <2>4, <3>1, <3>2 DEF InBatch
  <2> QED
    BY <1>0, <2>3, <2>4
<1>4. CASE StoreItem(w)
  <2>1. /\ wpc[w] = "store" /\ wpc' = [wpc EXCEPT ![w] = "load"]
        /\ task' = [task EXCEPT ![w].start = @ + 1]
        /\ hits' = [hits EXCEPT ![task[w].batch][task[w].start] = @ + 1]
        /\ UNCHANGED <<inbox, outbox>>
    BY <1>4 DEF StoreItem, PoolWorkerStep, CountHits
  <2> DEFINE t == task[w].start
             b == task[w].batch
  <2>2. t \in Nat /\ b \in Batch /\ b <= batchId /\ batchId # 0 /\ batchId \in Batch
    BY <1>00, <2>1 DEF NoneAhead, InTransform, Batch
  <2>3. /\ wpc' \in [Worker -> InTransform \cup {"none", "boot", "idle", "dead", "stopped"}]
        /\ wpc'[w] = "load" /\ \A v \in Worker \ {w} : wpc'[v] = wpc[v]
    BY <1>00, <2>1 DEF InTransform
  <2>4. /\ task' \in [Worker -> [start : Nat, end : Nat, batch : 0 .. MaxBatches]]
        /\ \A v \in Worker \ {w} : task'[v] = task[v]
        /\ task'[w].start = t + 1 /\ task'[w].end = task[w].end /\ task'[w].batch = b
    <3>1. PICK next \in Nat : next = t + 1
      BY <2>2
    <3>2. task' = [task EXCEPT ![w] = [task[w] EXCEPT !.start = next]]
      BY <1>00, <2>1, <3>1
    <3>3. task[w] \in [start : Nat, end : Nat, batch : 0 .. MaxBatches]
      BY <1>00
    <3>4. PICK r : r = [task[w] EXCEPT !.start = next]
      OBVIOUS
    <3>5. /\ r \in [start : Nat, end : Nat, batch : 0 .. MaxBatches]
          /\ r.start = next /\ r.end = task[w].end /\ r.batch = b
      BY <3>3, <3>4
    <3>6. task' = [task EXCEPT ![w] = r]
      BY <3>2, <3>4
    <3> QED
      BY <1>00, <3>1, <3>5, <3>6
  <2>5. /\ hits' \in [Batch -> [Item -> Nat]]
        /\ \A c \in Batch, i \in Item :
              hits'[c][i] = IF c = b /\ i = t THEN hits[c][i] + 1 ELSE hits[c][i]
    <3>1. PICK g \in [Item -> Nat] : g = hits[b]
      BY <1>00, <2>2
    <3>2. hits' = [hits EXCEPT ![b] = [g EXCEPT ![t] = g[t] + 1]]
      BY <2>1, <3>1
    <3>3. PICK r : r = [g EXCEPT ![t] = g[t] + 1]
      OBVIOUS
    <3>4. /\ r \in [Item -> Nat]
          /\ \A i \in Item : r[i] = IF i = t THEN g[i] + 1 ELSE g[i]
      <4>1. CASE t \in Item
        BY <3>3, <4>1
      <4>2. CASE t \notin Item
        BY <3>3, <4>2
      <4> QED
        BY <4>1, <4>2
    <3>5. hits' = [hits EXCEPT ![b] = r]
      BY <3>2, <3>3
    <3> QED
      BY <1>00, <2>2, <3>1, <3>4, <3>5
  <2>6. BatchTypes' /\ NoneAhead'
    <3>1. BatchTypes'
      BY <1>0, <2>1, <2>3, <2>4, <2>5 DEF BatchTypes
    <3>2. \A v \in Worker : /\ task'[v].batch <= batchId
                            /\ wpc'[v] \in InTransform => task'[v].batch # 0
      <4> TAKE v \in Worker
      <4>1. CASE v = w
        BY <2>2, <2>4, <4>1 DEF Batch
      <4>2. CASE v # w
        BY <2>3, <2>4, <4>2 DEF NoneAhead
      <4> QED
        BY <4>1, <4>2
    <3>3. \A c \in Batch : c > batchId => \A i \in Item : hits'[c][i] = 0
      <4>1. \A c \in Batch : c > batchId => c # b
        BY <2>2 DEF Batch
      <4>2. \A c \in Batch : c > batchId => \A i \in Item : hits[c][i] = 0
        BY DEF NoneAhead
      <4> QED
        BY <2>5, <4>1, <4>2
    <3> QED
      BY <1>0, <2>1, <3>1, <3>2, <3>3 DEF NoneAhead
  <2>7. asked \in 0 .. Elements /\ InBatch
    BY <2>2 DEF BatchTypes
  <2>8. \A v \in Worker : \A i \in Share(asked, v).start .. Share(asked, v).end - 1 : i \in Item
    BY <2>7, SharesOfBatch, BenchAssumption DEF Item
  <2>9. CASE b # batchId
    <3>1. \A i \in Item : hits'[batchId][i] = hits[batchId][i]
      BY <2>2, <2>5, <2>9
    <3>2. \A v \in Worker \ {w} : Turn(v)' /\ (Answered(v) => AllHit(v))'
      BY <1>0, <2>1, <2>3, <2>4, <2>7, <2>8, <3>1, Undisturbed DEF InBatch
    <3>3. ~ Working(w) /\ ~ Working(w)' /\ wpc[w] # "stopped"
      BY <1>0, <2>1, <2>4, <2>9 DEF Working
    <3>4. Turn(w)' /\ (Answered(w) => AllHit(w))'
      BY <1>0, <2>1, <2>7, <2>8, <3>1, <3>3
      DEF InBatch, Turn, Answered, AllHit, HitUpTo, Current, Waiting
    <3> QED
      BY <1>0, <2>6, <2>7, <3>1, <3>2, <3>4 DEF InBatch
  <2>10. CASE b = batchId
    <3>1. Working(w) /\ Working(w)'
      BY <1>0, <2>1, <2>3, <2>4, <2>10 DEF Working, InTransform
    <3>2. /\ Share(asked, w).start <= t /\ t < Share(asked, w).end
          /\ task[w].end = Share(asked, w).end /\ HitUpTo(w, t) /\ ~ Waiting(w)
      BY <2>1, <2>7, <3>1 DEF InBatch, Turn
    <3>3. t \in Item /\ t < asked /\ hits[batchId][t] = 0
      <4>1. Share(asked, w).start \in Nat /\ Share(asked, w).end \in Nat
            /\ Share(asked, w).end <= asked
        BY <2>7, SharesOfBatch
      <4>2. t \in Share(asked, w).start .. Share(asked, w).end - 1
        BY <2>2, <3>2, <4>1
      <4> QED
        BY <2>2, <2>7, <2>8, <3>2, <4>1, <4>2 DEF HitUpTo
    <3>4. \A i \in Item : hits'[batchId][i] = IF i = t THEN 1 ELSE hits[batchId][i]
      BY <2>2, <2>5, <2>10, <3>3
    <3>5. ASSUME NEW v \in Worker \ {w} PROVE Turn(v)' /\ (Answered(v) => AllHit(v))'
      <4>1. t \notin Share(asked, v).start .. Share(asked, v).end - 1
        BY <2>2, <2>7, <3>2, OtherShare
      <4>2. \A i \in Share(asked, v).start .. Share(asked, v).end - 1 :
               hits'[batchId][i] = hits[batchId][i]
        BY <2>8, <3>4, <4>1
      <4> QED
        BY <1>0, <2>1, <2>3, <2>4, <2>7, <4>2, Undisturbed DEF InBatch
    <3>6. ~ Answered(w)
      <4>1. Share(asked, w).start \in Nat /\ Share(asked, w).end \in Nat
        BY <2>7, SharesOfBatch
      <4>2. t \in Share(asked, w).start .. Share(asked, w).end - 1
        BY <2>2, <3>2, <4>1
      <4>3. ~ AllHit(w)
        BY <3>2, <3>3, <4>2 DEF AllHit, HitUpTo
      <4> QED
        BY <2>7, <4>3 DEF InBatch
    <3>7. ~ Answered(w)'
      BY <1>0, <2>1, <3>6 DEF Answered
    <3>8. HitUpTo(w, task[w].start)'
      <4> SUFFICES ASSUME NEW i \in Share(asked, w).start .. Share(asked, w).end - 1
                   PROVE  hits'[batchId][i] = IF i < t + 1 THEN 1 ELSE 0
        BY <1>0, <2>4 DEF HitUpTo
      <4>1. Share(asked, w).start \in Nat /\ Share(asked, w).end \in Nat
        BY <2>7, SharesOfBatch
      <4>2. i \in Int /\ i \in Item
        BY <2>8, <4>1
      <4>3. hits[batchId][i] = IF i < t THEN 1 ELSE 0
        BY <3>2 DEF HitUpTo
      <4>4. hits'[batchId][i] = IF i = t THEN 1 ELSE hits[batchId][i]
        BY <3>4, <4>2
      <4> QED
        BY <2>2, <4>2, <4>3, <4>4
    <3>9. Turn(w)'
      <4>1. Share(asked, w).start <= t + 1 /\ t + 1 <= Share(asked, w).end
        <5>1. Share(asked, w).start \in Nat /\ Share(asked, w).end \in Nat
          BY <2>7, SharesOfBatch
        <5> HIDE DEF t
        <5> QED
          BY <2>2, <3>2, <5>1
      <4>2. ~ Waiting(w)' /\ UNCHANGED <<asked, batchId>>
        BY <1>0, <2>1, <3>2 DEF Waiting, Current
      <4>3. (\A k \in 1 .. Len(inbox[w]) : ~ Current(inbox[w][k]))'
        BY <4>2 DEF Waiting
      <4>4. task'[w].start = t + 1 /\ task'[w].end = Share(asked, w).end /\ wpc'[w] = "load"
        BY <2>3, <2>4, <3>2
      <4> HIDE DEF t
      <4> QED
        BY <3>1, <3>8, <4>1, <4>2, <4>3, <4>4 DEF Turn
    <3> QED
      <4>1. \A i \in Item : i >= asked => hits'[batchId][i] = 0
        BY <2>2, <2>7, <3>3, <3>4 DEF InBatch, Item
      <4> QED
        BY <1>0, <2>6, <3>5, <3>7, <3>9, <4>1 DEF InBatch
  <2> QED
    BY <2>9, <2>10
<1>5. CASE Transformed(w)
  <2> DEFINE m == [type |-> "transformed", id |-> w, batch |-> task[w].batch]
  <2>1. /\ wpc[w] = "load" /\ wpc' = [wpc EXCEPT ![w] = "idle"] /\ task[w].start >= task[w].end
        /\ outbox' = [outbox EXCEPT ![w] = Append(@, m)]
        /\ UNCHANGED <<inbox, task, hits>>
    BY <1>0, <1>5 DEF Transformed
  <2>2. m \in Reply /\ m.type = "transformed" /\ m.batch = task[w].batch /\ m.batch <= batchId
    <3>1. task[w].batch \in Batch /\ task[w].batch <= batchId
      BY <1>00, <2>1 DEF NoneAhead, InTransform, Batch
    <3> QED
      BY <3>1 DEF Reply
  <2> HIDE DEF m
  <2>3. /\ outbox' \in [Worker -> Seq(Reply)]
        /\ \A v \in Worker \ {w} : outbox'[v] = outbox[v]
        /\ \A v \in Worker : \A k \in 1 .. Len(outbox'[v]) :
              outbox'[v][k].type = "transformed" => outbox'[v][k].batch <= batchId
        /\ \A k \in 1 .. Len(outbox'[w]) :
              outbox'[w][k] = m \/ \E j \in 1 .. Len(outbox[w]) : outbox'[w][k] = outbox[w][j]
    BY <1>0, <2>1, <2>2, SaysMore
  <2>4. /\ wpc' \in [Worker -> InTransform \cup {"none", "boot", "idle", "dead", "stopped"}]
        /\ wpc'[w] = "idle" /\ \A v \in Worker \ {w} : wpc'[v] = wpc[v]
    BY <1>00, <2>1
  <2>5. BatchTypes' /\ NoneAhead'
    <3>1. BatchTypes'
      BY <1>0, <2>1, <2>3, <2>4 DEF BatchTypes
    <3>2. \A v \in Worker : wpc'[v] \in InTransform => wpc[v] \in InTransform
      BY <2>4 DEF InTransform
    <3> QED
      BY <1>0, <2>1, <2>3, <3>1, <3>2 DEF NoneAhead
  <2>6. ASSUME batchId # 0 PROVE InBatch'
    <3>1. \A v \in Worker \ {w} : Turn(v)' /\ (Answered(v) => AllHit(v))'
      BY <1>0, <2>1, <2>3, <2>4, <2>6, Undisturbed DEF InBatch
    <3>2. Working(w) => AllHit(w)
      <4> SUFFICES ASSUME Working(w) PROVE AllHit(w)
        OBVIOUS
      <4>1. HitUpTo(w, task[w].start) /\ task[w].start = Share(asked, w).end
        <5>1. /\ task[w].start <= Share(asked, w).end /\ task[w].end = Share(asked, w).end
              /\ HitUpTo(w, task[w].start) /\ task[w].start \in Nat
          BY <1>00, <2>6 DEF InBatch, Turn
        <5> QED
          BY <1>00, <2>1, <5>1
      <4> QED
        BY <4>1 DEF AllHit
    <3>3. ~ Working(w)' /\ wpc[w] # "stopped" /\ UNCHANGED <<asked, batchId, hits>>
      BY <1>0, <2>1, <2>4 DEF Working, InTransform
    <3>4. Turn(w)'
      BY <2>1, <2>6, <3>2, <3>3 DEF InBatch, Turn, AllHit, HitUpTo, Current, Waiting
    <3>5. m.batch = batchId => Working(w)
      BY <2>1, <2>2 DEF Working, InTransform
    <3>6. (Answered(w) => AllHit(w))'
      BY <1>0, <2>3, <2>6, <3>2, <3>3, <3>5 DEF InBatch, Answered, AllHit, HitUpTo
    <3> QED
      BY <1>0, <2>1, <2>6, <3>1, <3>4, <3>6 DEF InBatch
  <2> QED
    BY <1>0, <2>5, <2>6
<1> QED
  BY <1>0, <1>1, <1>2, <1>3, <1>4, <1>5

(* A Worker whose queues the Host leaves alone, or that it stops. *)
LEMMA HeldTurn ==
    ASSUME NEW v \in Worker, Turn(v), UNCHANGED <<asked, batchId, hits>>,
           \/ wpc'[v] = wpc[v] /\ inbox'[v] = inbox[v] /\ task'[v] = task[v]
           \/ wpc'[v] = "stopped" /\ inbox'[v] = <<>>
    PROVE  Turn(v)'
<1>1. CASE wpc'[v] = wpc[v] /\ inbox'[v] = inbox[v] /\ task'[v] = task[v]
  BY <1>1 DEF Turn, AllHit, HitUpTo, Current, Waiting, Working
<1>2. CASE wpc'[v] = "stopped" /\ inbox'[v] = <<>>
  <2>1. ~ Waiting(v)' /\ ~ Working(v)' /\ Len(inbox'[v]) = 0
    BY <1>2 DEF Waiting, Working, InTransform
  <2> QED
    BY <1>2, <2>1 DEF Turn
<1> QED
  BY <1>1, <1>2

(* A handler that removes a message and the listeners it is for: the       *)
(* listener of the current batch goes with the answer to it.               *)
LEMMA BatchMessage ==
    ASSUME BatchTypes, NoneAhead, batchId # 0 => InBatch, NEW w \in Worker, OnPoolMessage(w)
    PROVE  BatchTypes' /\ NoneAhead' /\ (batchId # 0 => InBatch)'
<1> DEFINE m == Head(outbox[w])
           taken == {l \in listeners : Matches(l, w, m)}
           rest == listeners \ taken
<1>1. /\ outbox[w] # <<>> /\ outbox' = [outbox EXCEPT ![w] = Tail(outbox[w])]
      /\ UNCHANGED <<wpc, task, batchId, asked, hits>>
  BY DEF OnPoolMessage, localVars
<1>2. \/ ppc # "batch" /\ Resolve(rest)
      \/ ppc = "batch" /\ ~ (\E l \in rest : Awaited(l)) /\ Resolve(rest)
      \/ listeners' = rest /\ UNCHANGED <<inbox, ppc, busy, outcome>>
  BY DEF OnPoolMessage
<1>3. /\ outbox \in [Worker -> Seq(Reply)] /\ inbox \in [Worker -> Seq(Message)]
      /\ listeners \subseteq Listener /\ batchId \in 0 .. MaxBatches
  BY DEF BatchTypes
<1>4. /\ outbox' \in [Worker -> Seq(Reply)] /\ 1 \in 1 .. Len(outbox[w]) /\ m = outbox[w][1]
      /\ \A v \in Worker : \A k \in 1 .. Len(outbox'[v]) :
            \E j \in 1 .. Len(outbox[v]) : outbox'[v][k] = outbox[v][j]
  <2>1. outbox[w] \in Seq(Reply)
    BY <1>3
  <2>2. /\ m = outbox[w][1] /\ Tail(outbox[w]) \in Seq(Reply)
        /\ Len(outbox[w]) \in Nat \ {0} /\ Len(Tail(outbox[w])) = Len(outbox[w]) - 1
        /\ \A k \in 1 .. Len(Tail(outbox[w])) : Tail(outbox[w])[k] = outbox[w][k + 1]
    BY <1>1, <2>1, QueueTail
  <2>3. \A k \in 1 .. Len(Tail(outbox[w])) : k + 1 \in 1 .. Len(outbox[w])
    BY <2>2
  <2>4. /\ outbox'[w] = Tail(outbox[w]) /\ outbox' \in [Worker -> Seq(Reply)]
        /\ \A v \in Worker \ {w} : outbox'[v] = outbox[v]
    BY <1>1, <1>3, <2>2
  <2>5. \A k \in 1 .. Len(outbox'[w]) : \E j \in 1 .. Len(outbox[w]) : outbox'[w][k] = outbox[w][j]
    BY <2>2, <2>3, <2>4
  <2>6. 1 \in 1 .. Len(outbox[w])
    BY <2>2
  <2>7. \A v \in Worker : \A k \in 1 .. Len(outbox'[v]) :
           \E j \in 1 .. Len(outbox[v]) : outbox'[v][k] = outbox[v][j]
    <3> TAKE v \in Worker
    <3>1. CASE v = w
      BY <2>5, <3>1
    <3>2. CASE v # w
      BY <2>4, <3>2
    <3> QED
      BY <3>1, <3>2
  <2> QED
    BY <2>2, <2>4, <2>6, <2>7
<1> HIDE DEF m
<1>5. /\ listeners' \subseteq listeners \cup Listen("initialized", 0)
      /\ rest \subseteq listeners'
      /\ \A l \in listeners' : l.batch # 0 => l \in rest
  BY <1>2 DEF Resolve, Listen
<1>6. /\ inbox' \in [Worker -> Seq(Message)]
      /\ \A v \in Worker : \A k \in 1 .. Len(inbox'[v]) : inbox'[v][k].type = "transform" =>
            k \in 1 .. Len(inbox[v]) /\ inbox'[v][k] = inbox[v][k]
      /\ batchId # 0 => UNCHANGED inbox
  <2>1. CASE UNCHANGED inbox
    BY <1>3, <2>1
  <2>2. CASE ppc = "online" /\ inbox' = [v \in Worker |-> Append(inbox[v], [type |-> "init", id |-> v])]
    <3>1. batchId = 0
      BY <2>2 DEF NoneAhead
    <3>2. ASSUME NEW v \in Worker
          PROVE  /\ inbox'[v] \in Seq(Message)
                 /\ \A k \in 1 .. Len(inbox'[v]) : inbox'[v][k].type = "transform" =>
                       k \in 1 .. Len(inbox[v]) /\ inbox'[v][k] = inbox[v][k]
      <4>1. PICK i \in Message : i.type = "init" /\ inbox'[v] = Append(inbox[v], i)
        BY <2>2 DEF Message
      <4>2. inbox[v] \in Seq(Message)
        BY <1>3
      <4>3. /\ Append(inbox[v], i) \in Seq(Message) /\ Len(Append(inbox[v], i)) = Len(inbox[v]) + 1
            /\ Len(inbox[v]) \in Nat
            /\ \A k \in 1 .. Len(inbox[v]) : Append(inbox[v], i)[k] = inbox[v][k]
            /\ Append(inbox[v], i)[Len(inbox[v]) + 1] = i
        BY <4>2, QueueAppend
      <4> QED
        BY <4>1, <4>3
    <3> QED
      BY <2>2, <3>1, <3>2
  <2> QED
    BY <1>2, <2>1, <2>2 DEF Resolve
<1>7. BatchTypes'
  <2>1. Listen("initialized", 0) \subseteq Listener
    <3>1. 0 \in 0 .. MaxBatches
      BY PoolAssumption
    <3>2. \A v \in Worker : [worker |-> v, type |-> "initialized", batch |-> 0] \in Listener
      BY <3>1 DEF Listener
    <3> QED
      BY <3>2 DEF Listen
  <2> QED
    BY <1>1, <1>3, <1>4, <1>5, <1>6, <2>1 DEF BatchTypes
<1>8. NoneAhead'
  <2>1. \A v \in Worker :
          /\ \A k \in 1 .. Len(inbox'[v]) :
                inbox'[v][k].type = "transform" => inbox'[v][k].batch <= batchId
          /\ \A k \in 1 .. Len(outbox'[v]) :
                outbox'[v][k].type = "transformed" => outbox'[v][k].batch <= batchId
          /\ task'[v].batch <= batchId
          /\ wpc'[v] \in InTransform => task'[v].batch # 0
    <3> TAKE v \in Worker
    <3>1. \A k \in 1 .. Len(inbox'[v]) :
             inbox'[v][k].type = "transform" => inbox'[v][k].batch <= batchId
      BY <1>6 DEF NoneAhead
    <3>2. \A k \in 1 .. Len(outbox'[v]) :
             outbox'[v][k].type = "transformed" => outbox'[v][k].batch <= batchId
      <4> TAKE k \in 1 .. Len(outbox'[v])
      <4>1. PICK j \in 1 .. Len(outbox[v]) : outbox'[v][k] = outbox[v][j]
        BY <1>4
      <4> QED
        BY <4>1 DEF NoneAhead
    <3> QED
      BY <1>1, <3>1, <3>2 DEF NoneAhead
  <2>2. \A l \in listeners' : l.batch <= batchId /\ (l.type = "transformed" <=> l.batch # 0)
    BY <1>3, <1>5 DEF NoneAhead, Listen
  <2>3. /\ ppc' \in {"none", "online", "initialized"} => batchId = 0
        /\ ppc' = "batch" \/ outcome' = "ok" => batchId # 0
    BY <1>2 DEF NoneAhead, Resolve
  <2> QED
    BY <1>1, <2>1, <2>2, <2>3 DEF NoneAhead
<1>9. ASSUME batchId # 0 PROVE InBatch'
  <2>1. ASSUME NEW v \in Worker PROVE Turn(v)'
    BY <1>1, <1>6, <1>9, HeldTurn DEF InBatch
  <2>2. ASSUME NEW v \in Worker, ppc = "batch", \A l \in rest : l.batch = batchId => l.worker # v
        PROVE  AllHit(v)
    <3>1. CASE \A l \in listeners : l.batch = batchId => l.worker # v
      BY <1>9, <2>2, <3>1 DEF InBatch, Answered
    <3>2. ASSUME NEW l \in listeners, l.batch = batchId, l.worker = v PROVE AllHit(v)
      <4>1. Matches(l, w, m)
        BY <2>2, <3>2
      <4>2. v = w /\ m.type = "transformed" /\ m.batch = batchId
        BY <1>9, <3>2, <4>1 DEF Matches, NoneAhead
      <4> QED
        BY <1>4, <1>9, <4>2 DEF InBatch, Answered
    <3> QED
      BY <3>1, <3>2
  <2>3. ASSUME NEW v \in Worker, Answered(v)' PROVE AllHit(v)
    <3>1. CASE \E k \in 1 .. Len(outbox'[v]) :
                  outbox'[v][k].type = "transformed" /\ outbox'[v][k].batch = batchId
      BY <1>4, <1>9, <3>1 DEF InBatch, Answered
    <3>2. CASE outcome' = "ok" /\ outcome = "ok"
      BY <1>9, <3>2 DEF InBatch, Answered
    <3>3. CASE outcome' = "ok" /\ outcome # "ok"
      <4>1. ppc = "batch" /\ ~ (\E l \in rest : Awaited(l))
        BY <1>2, <1>9, <3>3 DEF Resolve, NoneAhead
      <4> QED
        BY <2>2, <4>1 DEF Awaited
    <3>4. CASE ppc' = "batch" /\ \A l \in listeners' : l.batch = batchId => l.worker # v
      <4>1. ppc = "batch"
        BY <1>2, <3>4 DEF Resolve
      <4> QED
        BY <1>5, <2>2, <3>4, <4>1
    <3> QED
      BY <1>1, <2>3, <3>1, <3>2, <3>3, <3>4 DEF Answered
  <2>4. ASSUME NEW v \in Worker, AllHit(v) PROVE AllHit(v)'
    BY <1>1, <2>4 DEF AllHit, HitUpTo
  <2>5. \A i \in Item : i >= asked' => hits'[batchId'][i] = 0
    BY <1>1, <1>9 DEF InBatch
  <2> QED
    BY <2>1, <2>3, <2>4, <2>5 DEF InBatch
<1> QED
  BY <1>1, <1>7, <1>8, <1>9

(* Listeners reject, by an error or by a deadline. *)
LEMMA BatchReject ==
    ASSUME BatchTypes, NoneAhead, batchId # 0 => InBatch, NEW w \in Worker, NEW event,
           NEW rejected, Reject(w, event, rejected),
           event \in [Worker -> Seq(Reply)],
           \A v \in Worker : \A k \in 1 .. Len(event[v]) :
              \E j \in 1 .. Len(outbox[v]) : event[v][k] = outbox[v][j]
    PROVE  BatchTypes' /\ NoneAhead' /\ (batchId # 0 => InBatch)'
<1>1. UNCHANGED <<task, batchId, asked, hits>> /\ listeners' = listeners \ rejected
  BY DEF Reject, localVars
<1>2. PICK stopped :
         /\ wpc' = [v \in Worker |-> IF v \in stopped THEN "stopped" ELSE wpc[v]]
         /\ inbox' = [v \in Worker |-> IF v \in stopped THEN <<>> ELSE inbox[v]]
         /\ outbox' = [v \in Worker |-> IF v \in stopped THEN <<>> ELSE event[v]]
  BY DEF Reject
<1>3. \/ /\ \E l \in rejected : Awaited(l)
         /\ ppc' \in {"ready", "failed"} /\ (outcome' = "failed" \/ outcome' = outcome)
         /\ ppc' = "ready" => ppc = "batch"
      \/ ~ (\E l \in rejected : Awaited(l)) /\ UNCHANGED <<ppc, outcome>>
  BY DEF Reject
<1>4. /\ wpc \in [Worker -> InTransform \cup {"none", "boot", "idle", "dead", "stopped"}]
      /\ inbox \in [Worker -> Seq(Message)]
  BY DEF BatchTypes
<1>5. /\ \A v \in Worker : \/ wpc'[v] = "stopped" /\ inbox'[v] = <<>>
                           \/ wpc'[v] = wpc[v] /\ inbox'[v] = inbox[v]
      /\ \A v \in Worker : outbox'[v] = <<>> \/ outbox'[v] = event[v]
      /\ wpc' \in [Worker -> InTransform \cup {"none", "boot", "idle", "dead", "stopped"}]
      /\ inbox' \in [Worker -> Seq(Message)] /\ outbox' \in [Worker -> Seq(Reply)]
  BY <1>2, <1>4
<1>6. \A v \in Worker : \A k \in 1 .. Len(outbox'[v]) :
         \E j \in 1 .. Len(outbox[v]) : outbox'[v][k] = outbox[v][j]
  <2> TAKE v \in Worker
  <2>1. CASE outbox'[v] = <<>>
    BY <2>1
  <2>2. CASE outbox'[v] = event[v]
    BY <2>2
  <2> QED
    BY <1>5, <2>1, <2>2
<1>7. BatchTypes'
  BY <1>1, <1>5 DEF BatchTypes
<1>8. NoneAhead'
  <2>1. \A v \in Worker :
          /\ \A k \in 1 .. Len(inbox'[v]) :
                inbox'[v][k].type = "transform" => inbox'[v][k].batch <= batchId
          /\ \A k \in 1 .. Len(outbox'[v]) :
                outbox'[v][k].type = "transformed" => outbox'[v][k].batch <= batchId
          /\ task'[v].batch <= batchId
          /\ wpc'[v] \in InTransform => task'[v].batch # 0
    <3> TAKE v \in Worker
    <3>1. \A k \in 1 .. Len(outbox'[v]) :
             outbox'[v][k].type = "transformed" => outbox'[v][k].batch <= batchId
      BY <1>6 DEF NoneAhead
    <3>2. CASE wpc'[v] = "stopped" /\ inbox'[v] = <<>>
      BY <1>1, <3>1, <3>2 DEF NoneAhead, InTransform
    <3>3. CASE wpc'[v] = wpc[v] /\ inbox'[v] = inbox[v]
      BY <1>1, <3>1, <3>3 DEF NoneAhead
    <3> QED
      BY <1>5, <3>2, <3>3
  <2>2. \A l \in listeners' : l.batch <= batchId /\ (l.type = "transformed" <=> l.batch # 0)
    BY <1>1 DEF NoneAhead
  <2>3. /\ ppc' \in {"none", "online", "initialized"} => batchId = 0
        /\ ppc' = "batch" \/ outcome' = "ok" => batchId # 0
    BY <1>3 DEF NoneAhead
  <2> QED
    BY <1>1, <2>1, <2>2, <2>3 DEF NoneAhead
<1>9. ASSUME batchId # 0 PROVE InBatch'
  <2>1. ASSUME NEW v \in Worker PROVE Turn(v)'
    BY <1>1, <1>5, <1>9, HeldTurn DEF InBatch
  <2>2. ASSUME NEW v \in Worker, Answered(v)' PROVE AllHit(v)
    <3>1. CASE \E k \in 1 .. Len(outbox'[v]) :
                  outbox'[v][k].type = "transformed" /\ outbox'[v][k].batch = batchId
      <4>1. PICK k \in 1 .. Len(outbox'[v]) :
               outbox'[v][k].type = "transformed" /\ outbox'[v][k].batch = batchId
        BY <3>1
      <4>2. PICK j \in 1 .. Len(outbox[v]) : outbox'[v][k] = outbox[v][j]
        BY <1>6
      <4>3. Answered(v)
        BY <4>1, <4>2 DEF Answered
      <4> QED
        BY <1>9, <4>3 DEF InBatch
    <3>2. CASE outcome' = "ok"
      BY <1>3, <1>9, <3>2 DEF InBatch, Answered
    <3>3. CASE ppc' = "batch" /\ \A l \in listeners' : l.batch = batchId => l.worker # v
      BY <1>1, <1>3, <1>9, <3>3 DEF InBatch, Answered, Awaited
    <3> QED
      BY <1>1, <2>2, <3>1, <3>2, <3>3 DEF Answered
  <2>3. ASSUME NEW v \in Worker, AllHit(v) PROVE AllHit(v)'
    BY <1>1, <2>3 DEF AllHit, HitUpTo
  <2>4. \A i \in Item : i >= asked' => hits'[batchId'][i] = 0
    BY <1>1, <1>9 DEF InBatch
  <2> QED
    BY <2>1, <2>2, <2>3, <2>4 DEF InBatch
<1> QED
  BY <1>1, <1>7, <1>8, <1>9

(* The start of a batch: nothing of it is anywhere but in the messages. *)
LEMMA BatchTransform ==
    ASSUME BatchTypes, NoneAhead, NEW n \in Counts, Transform(n)
    PROVE  BatchTypes' /\ NoneAhead' /\ (batchId # 0 => InBatch)'
<1> DEFINE b == batchId + 1
           m(v) == [type |-> "transform", batch |-> b,
                    start |-> Share(n, v).start, end |-> Share(n, v).end]
<1>1. /\ batchId < MaxBatches /\ batchId' = b /\ asked' = n
      /\ ppc' = "batch" /\ outcome' = "none"
      /\ listeners' = listeners \cup Listen("transformed", b)
      /\ inbox' = [v \in Worker |-> IF wpc[v] = "stopped" THEN inbox[v] ELSE Append(inbox[v], m(v))]
      /\ UNCHANGED <<wpc, outbox, task, hits>>
  BY DEF Transform, localVars
<1>2. /\ b \in Batch /\ batchId \in Nat /\ batchId < b /\ b \in 1 .. MaxBatches
      /\ n \in 0 .. Elements /\ Elements \in Nat
  BY <1>1, PoolAssumption, BenchAssumption DEF BatchTypes, Batch
<1>3. /\ wpc \in [Worker -> InTransform \cup {"none", "boot", "idle", "dead", "stopped"}]
      /\ inbox \in [Worker -> Seq(Message)] /\ outbox \in [Worker -> Seq(Reply)]
      /\ task \in [Worker -> [start : Nat, end : Nat, batch : 0 .. MaxBatches]]
      /\ listeners \subseteq Listener /\ hits \in [Batch -> [Item -> Nat]]
  BY DEF BatchTypes
<1>4. ASSUME NEW v \in Worker
      PROVE  m(v) \in Message /\ m(v).type = "transform" /\ m(v).batch = b
             /\ m(v).start = Share(n, v).start /\ m(v).end = Share(n, v).end
  <2>1. Share(n, v).start \in Nat /\ Share(n, v).end \in Nat
    BY <1>2, SharesOfBatch
  <2> HIDE DEF b
  <2> QED
    BY <1>2, <2>1 DEF Message
<1>5. \A l \in Listen("transformed", b) : l \in Listener /\ l.type = "transformed" /\ l.batch = b
  <2>1. b \in 0 .. MaxBatches
    BY <1>2
  <2> HIDE DEF b
  <2> QED
    BY <2>1 DEF Listen, Listener
<1>6. \A v \in Worker : \E l \in Listen("transformed", b) : l.worker = v
  <2> TAKE v \in Worker
  <2>1. [worker |-> v, type |-> "transformed", batch |-> b] \in Listen("transformed", b)
    BY DEF Listen
  <2> QED
    BY <2>1
<1> HIDE DEF m
<1>7. ASSUME NEW v \in Worker
      PROVE  /\ inbox'[v] \in Seq(Message)
             /\ \A k \in 1 .. Len(inbox'[v]) :
                   \/ /\ k \in 1 .. Len(inbox[v]) /\ inbox'[v][k] = inbox[v][k]
                   \/ k = Len(inbox'[v]) /\ inbox'[v][k] = m(v) /\ wpc[v] # "stopped"
             /\ wpc[v] # "stopped" => /\ Len(inbox'[v]) \in 1 .. Len(inbox'[v])
                                      /\ inbox'[v][Len(inbox'[v])] = m(v)
  <2>1. inbox[v] \in Seq(Message)
    BY <1>3
  <2>2. CASE wpc[v] = "stopped"
    BY <1>1, <2>1, <2>2
  <2>3. CASE wpc[v] # "stopped"
    <3>1. inbox'[v] = Append(inbox[v], m(v))
      BY <1>1, <2>3
    <3>2. /\ Append(inbox[v], m(v)) \in Seq(Message)
          /\ Len(Append(inbox[v], m(v))) = Len(inbox[v]) + 1 /\ Len(inbox[v]) \in Nat
          /\ \A k \in 1 .. Len(inbox[v]) : Append(inbox[v], m(v))[k] = inbox[v][k]
          /\ Append(inbox[v], m(v))[Len(inbox[v]) + 1] = m(v)
      BY <1>4, <2>1, QueueAppend
    <3> QED
      BY <2>3, <3>1, <3>2
  <2> QED
    BY <2>2, <2>3
<1>8. BatchTypes'
  <2>1. inbox' \in [Worker -> Seq(Message)]
    BY <1>1, <1>7
  <2>2. listeners' \subseteq Listener
    BY <1>1, <1>3, <1>5
  <2>3. batchId' \in 0 .. MaxBatches
    BY <1>1, <1>2
  <2> QED
    BY <1>1, <1>2, <1>3, <2>1, <2>2, <2>3 DEF BatchTypes
<1>9. ASSUME NEW v \in Worker
      PROVE  \A k \in 1 .. Len(inbox[v]) :
                inbox[v][k].type = "transform" => inbox[v][k].batch < b
  <2>1. \A k \in 1 .. Len(inbox[v]) : inbox[v][k] \in Message
    BY <1>3
  <2>2. \A k \in 1 .. Len(inbox[v]) : inbox[v][k].type = "transform" => inbox[v][k].batch \in Batch
    BY <2>1 DEF Message
  <2> QED
    BY <1>2, <2>2 DEF NoneAhead, Batch
<1>10. ASSUME NEW v \in Worker
       PROVE  \A k \in 1 .. Len(outbox[v]) :
                 outbox[v][k].type = "transformed" => outbox[v][k].batch < b
  <2>1. \A k \in 1 .. Len(outbox[v]) : outbox[v][k] \in Reply
    BY <1>3
  <2>2. \A k \in 1 .. Len(outbox[v]) : outbox[v][k].type = "transformed" => outbox[v][k].batch \in Batch
    BY <2>1 DEF Reply
  <2> QED
    BY <1>2, <2>2 DEF NoneAhead, Batch
<1>11. ASSUME NEW v \in Worker PROVE task[v].batch < b /\ task[v].batch \in Nat
  BY <1>2, <1>3 DEF NoneAhead
<1>12. \A l \in listeners : l.batch < b /\ (l.type = "transformed" <=> l.batch # 0)
  <2>1. \A l \in listeners : l.batch \in 0 .. MaxBatches
    BY <1>3 DEF Listener
  <2> QED
    BY <1>2, <2>1 DEF NoneAhead
<1>13. \A c \in Batch : c >= b => \A i \in Item : hits[c][i] = 0
  BY <1>2 DEF NoneAhead, Batch
<1> HIDE DEF b
<1>14. NoneAhead'
  <2>1. ASSUME NEW v \in Worker
        PROVE  /\ \A k \in 1 .. Len(inbox'[v]) :
                     inbox'[v][k].type = "transform" => inbox'[v][k].batch <= b
               /\ \A k \in 1 .. Len(outbox'[v]) :
                     outbox'[v][k].type = "transformed" => outbox'[v][k].batch <= b
               /\ task'[v].batch <= b
               /\ wpc'[v] \in InTransform => task'[v].batch # 0
    <3>0. b \in Nat
      BY <1>2
    <3>1. \A k \in 1 .. Len(inbox'[v]) :
             inbox'[v][k].type = "transform" => inbox'[v][k].batch <= b
      <4> SUFFICES ASSUME NEW k \in 1 .. Len(inbox'[v]), inbox'[v][k].type = "transform"
                   PROVE  inbox'[v][k].batch <= b
        OBVIOUS
      <4>1. CASE k \in 1 .. Len(inbox[v]) /\ inbox'[v][k] = inbox[v][k]
        <5>1. inbox[v][k].batch \in Batch
          BY <1>3, <4>1 DEF Message
        <5> QED
          BY <1>2, <1>9, <4>1, <5>1 DEF Batch
      <4>2. CASE inbox'[v][k] = m(v)
        BY <1>4, <3>0, <4>2
      <4> QED
        BY <1>7, <4>1, <4>2
    <3>2. \A k \in 1 .. Len(outbox'[v]) :
             outbox'[v][k].type = "transformed" => outbox'[v][k].batch <= b
      <4> SUFFICES ASSUME NEW k \in 1 .. Len(outbox[v]), outbox[v][k].type = "transformed"
                   PROVE  outbox[v][k].batch <= b
        BY <1>1
      <4>0. outbox[v][k] \in Reply
        BY <1>3
      <4>1. outbox[v][k].batch \in Batch
        BY <4>0 DEF Reply
      <4> QED
        BY <1>2, <1>10, <4>1 DEF Batch
    <3>3. task'[v].batch <= b /\ (wpc'[v] \in InTransform => task'[v].batch # 0)
      BY <1>1, <1>11, <3>0 DEF NoneAhead
    <3> QED
      BY <3>1, <3>2, <3>3
  <2>2. \A l \in listeners' : l.batch <= b /\ (l.type = "transformed" <=> l.batch # 0)
    <3> SUFFICES ASSUME NEW l \in listeners'
                 PROVE  l.batch <= b /\ (l.type = "transformed" <=> l.batch # 0)
      OBVIOUS
    <3>1. CASE l \in listeners
      <4>1. l.batch \in 0 .. MaxBatches
        BY <1>3, <3>1 DEF Listener
      <4> QED
        BY <1>2, <1>12, <3>1, <4>1
    <3>2. CASE l \in Listen("transformed", b)
      BY <1>2, <1>5, <3>2
    <3> QED
      BY <1>1, <3>1, <3>2
  <2>3. \A c \in Batch : c > b => \A i \in Item : hits'[c][i] = 0
    BY <1>1, <1>2, <1>13 DEF Batch
  <2>4. b # 0
    BY <1>2
  <2> QED
    BY <1>1, <2>1, <2>2, <2>3, <2>4 DEF NoneAhead
<1>15. InBatch'
  <2>1. \A i \in Item : hits'[b][i] = 0
    BY <1>1, <1>2, <1>13
  <2>2. ASSUME NEW v \in Worker PROVE Turn(v)'
    <3>1. ~ Working(v)'
      BY <1>1, <1>11 DEF Working
    <3>2. \A k \in 1 .. Len(inbox'[v]) : inbox'[v][k].type = "transform" /\ inbox'[v][k].batch = b =>
             k = Len(inbox'[v]) /\ inbox'[v][k] = m(v) /\ wpc[v] # "stopped"
      <4> SUFFICES ASSUME NEW k \in 1 .. Len(inbox'[v]), inbox'[v][k].type = "transform",
                          inbox'[v][k].batch = b
                   PROVE  k = Len(inbox'[v]) /\ inbox'[v][k] = m(v) /\ wpc[v] # "stopped"
        OBVIOUS
      <4>1. ~ (k \in 1 .. Len(inbox[v]) /\ inbox'[v][k] = inbox[v][k])
        BY <1>2, <1>9
      <4> QED
        BY <1>7, <4>1
    <3>3. wpc[v] # "stopped" => Waiting(v)'
      BY <1>1, <1>4, <1>7 DEF Waiting, Current
    <3>4. HitUpTo(v, Share(asked, v).start)'
      <4>1. /\ Share(n, v).start \in Nat /\ Share(n, v).end \in Nat
            /\ Share(n, v).end <= n
        BY <1>2, SharesOfBatch
      <4>2. \A i \in Share(n, v).start .. Share(n, v).end - 1 : i \in Item /\ ~ (i < Share(n, v).start)
        BY <1>2, <4>1 DEF Item
      <4>3. \A i \in Share(n, v).start .. Share(n, v).end - 1 :
               hits'[b][i] = IF i < Share(n, v).start THEN 1 ELSE 0
        BY <2>1, <4>2
      <4> QED
        BY <1>1, <4>3 DEF HitUpTo
    <3>5. (\A k \in 1 .. Len(inbox[v]) : Current(inbox[v][k]) =>
              /\ k = Len(inbox[v])
              /\ inbox[v][k].start = Share(asked, v).start
              /\ inbox[v][k].end = Share(asked, v).end)'
      BY <1>1, <1>4, <3>2 DEF Current
    <3> QED
      BY <1>1, <3>1, <3>3, <3>4, <3>5 DEF Turn
  <2>3. ASSUME NEW v \in Worker PROVE ~ Answered(v)'
    <3>1. \E l \in listeners' : l.batch = batchId' /\ l.worker = v
      BY <1>1, <1>5, <1>6
    <3>2. \A k \in 1 .. Len(outbox'[v]) :
             ~ (outbox'[v][k].type = "transformed" /\ outbox'[v][k].batch = batchId')
      BY <1>1, <1>2, <1>10
    <3> QED
      BY <1>1, <3>1, <3>2 DEF Answered
  <2> QED
    BY <1>1, <2>1, <2>2, <2>3 DEF InBatch
<1> QED
  BY <1>8, <1>14, <1>15

LEMMA BatchHost ==
    ASSUME BatchTypes, NoneAhead, batchId # 0 => InBatch, PoolNext
    PROVE  BatchTypes' /\ NoneAhead' /\ (batchId # 0 => InBatch)'
<1>1. CASE Create
  <2>1. /\ ppc = "none" /\ ppc' = "online" /\ listeners' = Listen("online", 0)
        /\ wpc' = [w \in Worker |-> "boot"]
        /\ UNCHANGED <<inbox, outbox, task, batchId, asked, outcome, hits>>
    BY <1>1 DEF Create, localVars
  <2>2. batchId = 0 /\ 0 \in 0 .. MaxBatches
    BY <2>1, PoolAssumption DEF NoneAhead
  <2>3. \A l \in listeners' : l \in Listener /\ l.batch = 0 /\ l.type = "online"
    BY <2>1, <2>2 DEF Listen, Listener
  <2>4. BatchTypes'
    BY <2>1, <2>3 DEF BatchTypes
  <2>5. NoneAhead'
    BY <2>1, <2>2, <2>3 DEF NoneAhead, InTransform
  <2> QED
    BY <2>1, <2>2, <2>4, <2>5
<1>2. CASE \E w \in Worker : OnPoolMessage(w)
  BY <1>2, BatchMessage
<1>3. ASSUME NEW w \in Worker, OnPoolError(w)
      PROVE  BatchTypes' /\ NoneAhead' /\ (batchId # 0 => InBatch)'
  <2> DEFINE event == [outbox EXCEPT ![w] = Tail(outbox[w])]
  <2>1. outbox[w] # <<>> /\ Reject(w, event, {l \in listeners : l.worker = w})
    BY <1>3 DEF OnPoolError
  <2>2. outbox \in [Worker -> Seq(Reply)] /\ outbox[w] \in Seq(Reply)
    BY DEF BatchTypes
  <2>3. /\ Tail(outbox[w]) \in Seq(Reply) /\ Len(outbox[w]) \in Nat \ {0}
        /\ Len(Tail(outbox[w])) = Len(outbox[w]) - 1
        /\ \A k \in 1 .. Len(Tail(outbox[w])) : Tail(outbox[w])[k] = outbox[w][k + 1]
    BY <2>1, <2>2, QueueTail
  <2>4. /\ event \in [Worker -> Seq(Reply)] /\ event[w] = Tail(outbox[w])
        /\ \A v \in Worker \ {w} : event[v] = outbox[v]
    BY <2>2, <2>3
  <2> HIDE DEF event
  <2>5. \A k \in 1 .. Len(event[w]) : k + 1 \in 1 .. Len(outbox[w]) /\ event[w][k] = outbox[w][k + 1]
    BY <2>3, <2>4
  <2>6. \A v \in Worker : \A k \in 1 .. Len(event[v]) :
           \E j \in 1 .. Len(outbox[v]) : event[v][k] = outbox[v][j]
    <3> TAKE v \in Worker
    <3>1. CASE v = w
      BY <2>5, <3>1
    <3>2. CASE v # w
      BY <2>4, <3>2
    <3> QED
      BY <3>1, <3>2
  <2> QED
    BY <2>1, <2>4, <2>6, BatchReject
<1>4. ASSUME NEW l \in listeners, ListenerTimeout(l)
      PROVE  BatchTypes' /\ NoneAhead' /\ (batchId # 0 => InBatch)'
  <2>1. Reject(l.worker, outbox, {l}) /\ l.worker \in Worker /\ outbox \in [Worker -> Seq(Reply)]
    BY <1>4 DEF ListenerTimeout, BatchTypes, Listener
  <2>2. \A v \in Worker : \A k \in 1 .. Len(outbox[v]) :
           \E j \in 1 .. Len(outbox[v]) : outbox[v][k] = outbox[v][j]
    OBVIOUS
  <2> QED
    BY <2>1, <2>2, BatchReject
<1>5. CASE Close
  <2>1. /\ \A v \in Worker : wpc'[v] = "stopped" /\ inbox'[v] = <<>> /\ outbox'[v] = <<>>
        /\ wpc' \in [Worker -> InTransform \cup {"none", "boot", "idle", "dead", "stopped"}]
        /\ inbox' \in [Worker -> Seq(Message)] /\ outbox' \in [Worker -> Seq(Reply)]
        /\ UNCHANGED <<task, ppc, listeners, batchId, asked, outcome, hits>>
    BY <1>5 DEF Close, Stop, localVars
  <2>2. BatchTypes'
    BY <2>1 DEF BatchTypes
  <2>3. NoneAhead'
    BY <2>1 DEF NoneAhead, InTransform
  <2>4. ASSUME batchId # 0 PROVE InBatch'
    <3>1. ASSUME NEW v \in Worker PROVE Turn(v)'
      BY <2>1, <2>4, HeldTurn DEF InBatch
    <3>2. ASSUME NEW v \in Worker, Answered(v)' PROVE AllHit(v)
      BY <2>1, <2>4, <3>2 DEF InBatch, Answered
    <3>3. ASSUME NEW v \in Worker, AllHit(v) PROVE AllHit(v)'
      BY <2>1, <3>3 DEF AllHit, HitUpTo
    <3>4. \A i \in Item : i >= asked' => hits'[batchId'][i] = 0
      BY <2>1, <2>4 DEF InBatch
    <3> QED
      BY <3>1, <3>2, <3>3, <3>4 DEF InBatch
  <2> QED
    BY <2>1, <2>2, <2>3, <2>4
<1>6. CASE \E n \in Counts : Transform(n)
  BY <1>6, BatchTransform
<1> QED
  BY <1>1, <1>2, <1>3, <1>4, <1>5, <1>6 DEF PoolNext, PoolHandlers

(* The start and every step. *)
LEMMA BatchStarts == Init => BatchInv
<1> SUFFICES ASSUME Init PROVE BatchInv
  OBVIOUS
<1>1. /\ program \in {"counter", "pool"} /\ ppc = "none" /\ listeners = {} /\ batchId = 0
      /\ asked = 0 /\ outcome = "none" /\ hits = [b \in Batch |-> [i \in Item |-> 0]]
      /\ wpc = [w \in Worker |-> "none"] /\ inbox = [w \in Worker |-> <<>>]
      /\ outbox = [w \in Worker |-> <<>>]
      /\ task = [w \in Worker |-> [start |-> 0, end |-> 0, batch |-> 0]]
  BY DEF Init, WorkerInit, PoolInit, NoTask
<1>2. 0 \in 0 .. MaxBatches /\ 0 \in 0 .. Elements
  BY PoolAssumption, BenchAssumption
<1>3. BatchTypes
  BY <1>1, <1>2 DEF BatchTypes
<1>4. NoneAhead
  BY <1>1 DEF NoneAhead, InTransform
<1> QED
  BY <1>1, <1>3, <1>4 DEF BatchInv

LEMMA BatchStep == ASSUME BatchInv, [Next]_vars PROVE BatchInv'
<1>1. CASE UNCHANGED vars
  <2>1. UNCHANGED <<program, wpc, inbox, outbox, task, ppc, listeners, batchId, asked, outcome, hits>>
    BY <1>1 DEF vars, workerVars, poolVars
  <2> QED
    BY <2>1 DEF BatchInv, BatchTypes, NoneAhead, InBatch, Turn, Answered, AllHit, HitUpTo,
                Current, Waiting, Working
<1>2. CASE program = "counter" /\ UNCHANGED <<program, poolVars>>
  BY <1>2 DEF BatchInv, poolVars
<1>3. CASE program = "pool" /\ UNCHANGED program /\ PoolNext
  BY <1>3, BatchHost DEF BatchInv
<1>4. CASE program = "pool" /\ UNCHANGED program /\ \E w \in Worker : PoolWorkerStep(w)
  BY <1>4, BatchWorker DEF BatchInv
<1> QED
  BY <1>1, <1>2, <1>3, <1>4
  DEF Next, CounterHost, CounterLimit, CounterWorker, PoolHost, PoolWorker, Counting, Pooling

(* A batch that succeeds has transformed each of its items once and no     *)
(* other, whatever the answers to batches given up before it, the errors   *)
(* and the closing of the pool met on the way.                             *)
THEOREM BatchExactHolds == Spec => []BatchExact
<1>1. BatchInv => BatchExact
  <2> SUFFICES ASSUME BatchInv, outcome = "ok"
               PROVE  hits[batchId] = [i \in Item |-> IF i < asked THEN 1 ELSE 0]
    BY DEF BatchExact
  <2>1. program = "pool" /\ BatchTypes /\ NoneAhead /\ batchId # 0 /\ InBatch
    BY DEF BatchInv, NoneAhead
  <2>2. hits[batchId] \in [Item -> Nat] /\ asked \in 0 .. Elements
    <3>1. batchId \in Batch
      BY <2>1 DEF BatchTypes, Batch
    <3> QED
      BY <2>1, <3>1 DEF BatchTypes
  <2>3. ASSUME NEW i \in Item PROVE hits[batchId][i] = IF i < asked THEN 1 ELSE 0
    <3>1. i \in Int /\ 0 <= i /\ asked \in Nat
      BY <2>2, BenchAssumption DEF Item
    <3>2. CASE i < asked
      <4>1. i \in 0 .. asked - 1
        BY <3>1, <3>2
      <4>2. PICK w \in Worker : Share(asked, w).start <= i /\ i < Share(asked, w).end
        BY <2>2, <4>1, SharesOfBatch
      <4>3. Share(asked, w).start \in Nat /\ Share(asked, w).end \in Nat
        BY <2>2, SharesOfBatch
      <4>4. i \in Share(asked, w).start .. Share(asked, w).end - 1
        BY <3>1, <4>2, <4>3
      <4>5. AllHit(w)
        BY <2>1 DEF InBatch, Answered
      <4> QED
        BY <3>2, <4>2, <4>4, <4>5 DEF AllHit, HitUpTo
    <3>3. CASE ~ (i < asked)
      <4>1. i >= asked
        BY <3>1, <3>3
      <4> QED
        BY <2>1, <3>3, <4>1 DEF InBatch
    <3> QED
      BY <3>2, <3>3
  <2> QED
    BY <2>2, <2>3
<1> QED
  BY <1>1, BatchStarts, BatchStep, PTL DEF Spec

-----------------------------------------------------------------------------
(* The message pool, while no deadline has passed: nobody is late, so that *)
(* all the work there is belongs to the batch that the Host awaits.        *)

(* A Worker and its script: who fails to load fails create, and from there *)
(* on only close stops a Worker.                                           *)
Script(w) ==
    /\ ppc = "none" => wpc[w] = "none" /\ inbox[w] = <<>> /\ outbox[w] = <<>>
    /\ ppc = "online" =>
          /\ wpc[w] \in {"boot", "idle", "dead"} /\ inbox[w] = <<>>
          /\ \/ wpc[w] = "idle"
             \/ /\ \E l \in listeners : l.type = "online" /\ l.worker = w
                /\ \A k \in 1 .. Len(outbox[w]) : outbox[w][k].type = "error"
    /\ ppc \in {"initialized", "ready", "batch"} => wpc[w] \notin {"none", "boot", "dead"}
    /\ wpc[w] # "dead" => \A k \in 1 .. Len(outbox[w]) : outbox[w][k].type # "error"
    /\ wpc[w] = "stopped" => inbox[w] = <<>> /\ (ppc = "failed" \/ closed)
    /\ closed => wpc[w] = "stopped" /\ ppc \in {"ready", "batch"}

(* The work a Worker has left is of the current batch, and is gone when    *)
(* the Worker has answered.                                                *)
Replied(w) == \/ \A l \in listeners : l.batch = batchId => l.worker # w
              \/ \E k \in 1 .. Len(outbox[w]) :
                    outbox[w][k].type = "transformed" /\ outbox[w][k].batch = batchId

Assigned(w) ==
    /\ \A k \in 1 .. Len(inbox[w]) :
          inbox[w][k].type = "transform" => ppc = "batch" /\ inbox[w][k].batch = batchId
    /\ wpc[w] \in InTransform => ppc = "batch" /\ task[w].batch = batchId
    /\ ppc = "batch" /\ Replied(w) => ~ Waiting(w) /\ ~ Working(w)

(* What a Worker has loaded is still in the buffer when it stores.         *)
NotStale(w) == wpc[w] = "store" => seen[w] = data[task[w].start]

OnTime == /\ ppc \in {"none", "online", "initialized", "ready", "batch", "failed"}
          /\ data \in [Item -> Nat] /\ seen \in [Worker -> Nat]
          /\ \A w \in Worker : Script(w) /\ Assigned(w) /\ NotStale(w)

UpdateInv == /\ timeouts \in Nat /\ program \in {"counter", "pool"}
             /\ program = "counter" => \A i \in Item : data[i] = 0 /\ Transforms(i) = 0
             /\ program = "pool" /\ timeouts = 0 => OnTime /\ NoLostUpdate

LEMMA Upwards ==
    ASSUME NEW n \in Nat, NEW P, 0 \in P, \A k \in 1 .. n : k - 1 \in P => k \in P
    PROVE  \A k \in 0 .. n : k \in P
  BY Numbers!Upwards, BenchAssumption

Iterates(f, n, z, G) == Numbers!Iterates(f, n, z, G)

LEMMA Recursion ==
    ASSUME NEW n \in Nat, NEW T, NEW z \in T, NEW G \in [1 .. n -> [T -> T]]
    PROVE  \E f \in [0 .. n -> T] : Iterates(f, n, z, G)
  <1>1. N \in Nat \ {0}
    BY BenchAssumption
  <1> QED
    BY <1>1, Numbers!Recursion DEF Iterates

(* Partial sums that lead to a total.                                      *)
SumsTo(s, c) == /\ s \in [0 .. MaxBatches -> Nat] /\ s[0] = 0
                /\ \A b \in Batch : s[b] = s[b - 1] + c[b]

LEMMA TotalIsSum ==
    ASSUME NEW c \in [Batch -> Nat]
    PROVE  \E s : SumsTo(s, c) /\ Total(c) = s[MaxBatches]
<1> DEFINE G == [k \in 1 .. MaxBatches |-> [n \in Nat |-> n + c[k]]]
           F(g) == [b \in 0 .. MaxBatches |-> IF b = 0 THEN 0 ELSE g[b - 1] + c[b]]
           t == CHOOSE g : g = F(g)
<1>0. MaxBatches \in Nat /\ Batch = 1 .. MaxBatches /\ 0 \in Nat
  BY PoolAssumption DEF Batch
<1>1. G \in [1 .. MaxBatches -> [Nat -> Nat]]
  BY <1>0
<1>2. PICK s \in [0 .. MaxBatches -> Nat] : Iterates(s, MaxBatches, 0, G)
  <2> HIDE DEF G
  <2> QED
    BY <1>0, <1>1, Recursion
<1>3. SumsTo(s, c)
  <2>1. ASSUME NEW b \in Batch PROVE s[b] = s[b - 1] + c[b]
    <3>1. b \in 1 .. MaxBatches /\ s[b - 1] \in Nat /\ s[b] = G[b][s[b - 1]]
      <4> HIDE DEF G
      <4>1. b \in 1 .. MaxBatches /\ b - 1 \in 0 .. MaxBatches
        BY <1>0
      <4> QED
        BY <1>2, <4>1 DEF Iterates, Numbers!Iterates
    <3> QED
      BY <3>1
  <2> QED
    BY <1>2, <2>1 DEF SumsTo, Iterates, Numbers!Iterates
<1> HIDE DEF G
<1>4. s = F(s)
  <2>1. ASSUME NEW b \in 0 .. MaxBatches
        PROVE  s[b] = IF b = 0 THEN 0 ELSE s[b - 1] + c[b]
    <3>1. b # 0 => b \in Batch
      BY <1>0
    <3> QED
      BY <1>3, <3>1 DEF SumsTo
  <2>2. s = [b \in 0 .. MaxBatches |-> s[b]]
    BY <1>3 DEF SumsTo
  <2> QED
    BY <2>1, <2>2
<1>5. t = F(t)
  BY <1>4
<1>6. Total(c) = t[MaxBatches]
  BY DEF Total
<1> HIDE DEF t
<1>7. \A b \in 0 .. MaxBatches : t[b] = s[b]
  <2> DEFINE P == {b \in 0 .. MaxBatches : t[b] = s[b]}
  <2>1. 0 \in P
    BY <1>0, <1>4, <1>5
  <2>2. ASSUME NEW k \in 1 .. MaxBatches, k - 1 \in P PROVE k \in P
    <3>1. k \in 0 .. MaxBatches /\ k # 0 /\ t[k - 1] = s[k - 1]
      BY <1>0, <2>2
    <3>2. t[k] = t[k - 1] + c[k] /\ s[k] = s[k - 1] + c[k]
      BY <1>4, <1>5, <3>1
    <3> QED
      BY <3>1, <3>2
  <2> HIDE DEF P
  <2>3. \A b \in 0 .. MaxBatches : b \in P
    BY <1>0, <2>1, <2>2, Upwards
  <2> QED
    BY <2>3 DEF P
<1>8. MaxBatches \in 0 .. MaxBatches
  BY <1>0
<1> QED
  BY <1>3, <1>6, <1>7, <1>8

LEMMA TotalNat == ASSUME NEW c \in [Batch -> Nat] PROVE Total(c) \in Nat
<1>1. PICK s : SumsTo(s, c) /\ Total(c) = s[MaxBatches]
  BY TotalIsSum
<1>2. MaxBatches \in 0 .. MaxBatches
  BY PoolAssumption
<1> QED
  BY <1>1, <1>2 DEF SumsTo

LEMMA TotalZero == ASSUME NEW c \in [Batch -> Nat], \A b \in Batch : c[b] = 0 PROVE Total(c) = 0
<1>0. MaxBatches \in Nat /\ Batch = 1 .. MaxBatches
  BY PoolAssumption DEF Batch
<1>1. PICK s : SumsTo(s, c) /\ Total(c) = s[MaxBatches]
  BY TotalIsSum
<1> DEFINE P == {b \in 0 .. MaxBatches : s[b] = 0}
<1>2. 0 \in P
  BY <1>0, <1>1 DEF SumsTo
<1>3. ASSUME NEW k \in 1 .. MaxBatches, k - 1 \in P PROVE k \in P
  BY <1>0, <1>1, <1>3 DEF SumsTo
<1> HIDE DEF P
<1>4. MaxBatches \in P
  <2>1. \A b \in 0 .. MaxBatches : b \in P
    BY <1>0, <1>2, <1>3, Upwards
  <2> QED
    BY <1>0, <2>1
<1> QED
  BY <1>1, <1>4 DEF P

LEMMA TotalGrows ==
    ASSUME NEW c \in [Batch -> Nat], NEW b \in Batch
    PROVE  Total([c EXCEPT ![b] = @ + 1]) = Total(c) + 1
<1> DEFINE d == [c EXCEPT ![b] = @ + 1]
<1>0. MaxBatches \in Nat /\ Batch = 1 .. MaxBatches
  BY PoolAssumption DEF Batch
<1>1. d \in [Batch -> Nat] /\ \A a \in Batch : d[a] = IF a = b THEN c[a] + 1 ELSE c[a]
  OBVIOUS
<1> HIDE DEF d
<1>2. PICK s : SumsTo(s, c) /\ Total(c) = s[MaxBatches]
  BY TotalIsSum
<1>3. PICK r : SumsTo(r, d) /\ Total(d) = r[MaxBatches]
  BY <1>1, TotalIsSum
<1> DEFINE P == {a \in 0 .. MaxBatches : r[a] = IF a >= b THEN s[a] + 1 ELSE s[a]}
<1>4. 0 \in P
  BY <1>0, <1>2, <1>3 DEF SumsTo
<1>5. ASSUME NEW k \in 1 .. MaxBatches, k - 1 \in P PROVE k \in P
  <2>1. k \in Batch /\ k - 1 \in 0 .. MaxBatches /\ k \in 0 .. MaxBatches /\ b \in Nat
    BY <1>0
  <2>2. /\ r[k] = r[k - 1] + d[k] /\ s[k] = s[k - 1] + c[k]
        /\ s[k - 1] \in Nat /\ c[k] \in Nat
        /\ r[k - 1] = IF k - 1 >= b THEN s[k - 1] + 1 ELSE s[k - 1]
        /\ d[k] = IF k = b THEN c[k] + 1 ELSE c[k]
    BY <1>1, <1>2, <1>3, <1>5, <2>1 DEF SumsTo
  <2> QED
    BY <2>1, <2>2
<1> HIDE DEF P
<1>6. MaxBatches \in P
  <2>1. \A a \in 0 .. MaxBatches : a \in P
    BY <1>0, <1>4, <1>5, Upwards
  <2> QED
    BY <1>0, <2>1
<1>7. MaxBatches >= b
  BY <1>0
<1> QED
  BY <1>2, <1>3, <1>6, <1>7 DEF P, d

(* Who is not reached has the same script and the same work.               *)
LEMMA Elsewhere ==
    ASSUME NEW v \in Worker, Script(v), Assigned(v),
           UNCHANGED <<ppc, batchId, listeners, closed>>,
           inbox'[v] = inbox[v], outbox'[v] = outbox[v], wpc'[v] = wpc[v], task'[v] = task[v]
    PROVE  (Script(v) /\ Assigned(v))'
  BY DEF Script, Assigned, Replied, Current, Waiting, Working

(* A Worker at work is within its share, which is within the buffer.       *)
LEMMA AtWork ==
    ASSUME BatchTypes, NoneAhead, batchId # 0 => InBatch, NEW w \in Worker, Assigned(w),
           wpc[w] \in InTransform
    PROVE  /\ Working(w) /\ ~ Waiting(w) /\ batchId \in Batch /\ ppc = "batch"
           /\ task[w].start \in Nat /\ task[w].batch = batchId
           /\ wpc[w] = "store" \/ task[w].start < task[w].end =>
                 /\ task[w].start \in Item
                 /\ Share(asked, w).start <= task[w].start
                 /\ task[w].start < Share(asked, w).end
<1>1. /\ task[w] \in [start : Nat, end : Nat, batch : 0 .. MaxBatches]
      /\ batchId \in 0 .. MaxBatches /\ asked \in 0 .. Elements
  BY DEF BatchTypes
<1>2. task[w].batch = batchId /\ batchId # 0 /\ ppc = "batch"
  BY DEF Assigned, NoneAhead
<1>3. Working(w) /\ InBatch /\ Turn(w)
  BY <1>2 DEF Working, InBatch
<1>4. /\ ~ Waiting(w) /\ Share(asked, w).start <= task[w].start
      /\ task[w].end = Share(asked, w).end
      /\ wpc[w] = "store" => task[w].start < task[w].end
  BY <1>3 DEF Turn
<1>5. Share(asked, w).end \in Nat /\ Share(asked, w).end <= asked
  BY <1>1, SharesOfBatch
<1>6. batchId \in Batch
  BY <1>1, <1>2 DEF Batch
<1> HIDE DEF Share
<1>7. ASSUME wpc[w] = "store" \/ task[w].start < task[w].end
      PROVE  task[w].start \in Item /\ task[w].start < Share(asked, w).end
  BY <1>1, <1>4, <1>5, <1>7, BenchAssumption DEF Item
<1> QED
  BY <1>1, <1>2, <1>3, <1>4, <1>6, <1>7

(* No two Workers are at one item.                                         *)
LEMMA Apart ==
    ASSUME BatchTypes, NoneAhead, batchId # 0 => InBatch, NEW v \in Worker, NEW w \in Worker,
           v # w, Assigned(v), Assigned(w), wpc[v] = "store", wpc[w] = "store"
    PROVE  task[v].start # task[w].start
<1>1. /\ task[v].start \in Nat /\ task[w].start \in Nat
      /\ Share(asked, v).start <= task[v].start /\ task[v].start < Share(asked, v).end
      /\ Share(asked, w).start <= task[w].start /\ task[w].start < Share(asked, w).end
  BY AtWork DEF InTransform
<1>2. asked \in 0 .. Elements
  BY DEF BatchTypes
<1>3. task[w].start \notin Share(asked, v).start .. Share(asked, v).end - 1
  BY <1>1, <1>2, OtherShare
<1>4. Share(asked, v).start \in Nat /\ Share(asked, v).end \in Nat
  BY <1>2, SharesOfBatch
<1> HIDE DEF Share
<1> QED
  BY <1>1, <1>3, <1>4

(* A store counts once in the item and once in the ghost.                  *)
LEMMA UpdateStore ==
    ASSUME BatchTypes, NoneAhead, batchId # 0 => InBatch, OnTime, timeouts = 0, NoLostUpdate,
           NEW w \in Worker, StoreItem(w), CountHits(w), UNCHANGED <<ppc, batchId, listeners, closed>>
    PROVE  OnTime' /\ NoLostUpdate'
<1>1. /\ wpc[w] = "store" /\ wpc[w] \in InTransform /\ Script(w) /\ Assigned(w) /\ NotStale(w)
      /\ data \in [Item -> Nat] /\ seen \in [Worker -> Nat]
  BY DEF StoreItem, OnTime, InTransform
<1>2. /\ Working(w) /\ ~ Waiting(w) /\ batchId \in Batch /\ ppc = "batch"
      /\ task[w].start \in Item /\ task[w].start \in Nat /\ task[w].batch = batchId
  BY <1>1, AtWork
<1>3. /\ wpc \in [Worker -> InTransform \cup {"none", "boot", "idle", "dead", "stopped"}]
      /\ task \in [Worker -> [start : Nat, end : Nat, batch : 0 .. MaxBatches]]
      /\ hits \in [Batch -> [Item -> Nat]]
  BY DEF BatchTypes
<1>4. /\ data' = [data EXCEPT ![task[w].start] = data[task[w].start] + 1]
      /\ hits' = [hits EXCEPT ![batchId][task[w].start] = @ + 1]
      /\ task' = [task EXCEPT ![w].start = @ + 1] /\ wpc' = [wpc EXCEPT ![w] = "load"]
      /\ UNCHANGED <<inbox, outbox, seen>>
  BY <1>1, <1>2 DEF StoreItem, CountHits, NotStale, Goto
<1>5. /\ wpc'[w] = "load" /\ task'[w].batch = batchId
      /\ \A v \in Worker \ {w} : wpc'[v] = wpc[v] /\ task'[v] = task[v]
  BY <1>2, <1>3, <1>4
<1>6. (Script(w) /\ Assigned(w) /\ NotStale(w))'
  <2>1. (Script(w))'
    BY <1>1, <1>2, <1>4, <1>5 DEF Script
  <2>2. (Assigned(w))'
    BY <1>1, <1>2, <1>4, <1>5 DEF Assigned, Replied, Current, Waiting, Working
  <2> QED
    BY <1>5, <2>1, <2>2 DEF NotStale
<1>7. ASSUME NEW v \in Worker, v # w PROVE (Script(v) /\ Assigned(v) /\ NotStale(v))'
  <2>1. Script(v) /\ Assigned(v) /\ NotStale(v)
    BY DEF OnTime
  <2>2. (Script(v) /\ Assigned(v))'
    BY <1>4, <1>5, <1>7, <2>1, Elsewhere
  <2>3. (NotStale(v))'
    <3>1. CASE wpc[v] = "store"
      <4>1. task[v].start # task[w].start
        BY <1>1, <1>7, <2>1, <3>1, Apart
      <4>2. task[v].start \in Item
        BY <2>1, <3>1, AtWork DEF InTransform
      <4> QED
        BY <1>1, <1>4, <1>5, <1>7, <2>1, <4>1, <4>2 DEF NotStale
    <3>2. CASE wpc[v] # "store"
      BY <1>5, <1>7, <3>2 DEF NotStale
    <3> QED
      BY <3>1, <3>2
  <2> QED
    BY <2>2, <2>3
<1>8. OnTime'
  <2>1. data' \in [Item -> Nat] /\ seen' \in [Worker -> Nat]
    BY <1>1, <1>2, <1>4
  <2> QED
    BY <1>6, <1>7, <2>1 DEF OnTime
<1>9. ASSUME NEW i \in Item PROVE data'[i] = Transforms(i)'
  <2> DEFINE c == [b \in Batch |-> hits[b][i]]
             d == [b \in Batch |-> hits'[b][i]]
  <2>1. c \in [Batch -> Nat] /\ data[i] = Total(c)
    BY <1>3, <1>9 DEF NoLostUpdate, Transforms
  <2>2. CASE i = task[w].start
    <3>1. d = [c EXCEPT ![batchId] = @ + 1]
      BY <1>2, <1>3, <1>4, <2>2
    <3>2. data'[i] = data[i] + 1
      BY <1>1, <1>2, <1>4, <2>2
    <3> HIDE DEF c, d
    <3>3. Total(d) = Total(c) + 1
      BY <1>2, <2>1, <3>1, TotalGrows
    <3> QED
      BY <2>1, <3>2, <3>3 DEF Transforms, d
  <2>3. CASE i # task[w].start
    <3>1. d = c
      BY <1>2, <1>3, <1>4, <2>3
    <3>2. data'[i] = data[i]
      BY <1>1, <1>2, <1>4, <2>3
    <3> HIDE DEF c, d
    <3> QED
      BY <2>1, <3>1, <3>2 DEF Transforms, d
  <2> QED
    BY <2>2, <2>3
<1> QED
  BY <1>8, <1>9 DEF NoLostUpdate

LEMMA UpdateWorker ==
    ASSUME BatchTypes, NoneAhead, batchId # 0 => InBatch, OnTime, timeouts = 0, NoLostUpdate,
           NEW w \in Worker, PoolWorkerStep(w)
    PROVE  OnTime' /\ NoLostUpdate'
<1> USE DEF wordVars, localVars, Goto, PostToHost
<1>0. /\ UNCHANGED <<batchId, ppc, listeners, closed, timeouts>>
      /\ LoadScript(w) \/ Receive(w) \/ LoadItem(w) \/ StoreItem(w) \/ Transformed(w)
      /\ IF wpc[w] = "store" THEN CountHits(w) ELSE UNCHANGED hits
  BY DEF PoolWorkerStep, WorkerStep, TransformStep, CounterStep, Gate, TryLock, LockWait,
         ReadCounter, WriteCounter, Unlock, NotifyOne, Report, BatchTypes, InTransform
<1>1. /\ wpc \in [Worker -> InTransform \cup {"none", "boot", "idle", "dead", "stopped"}]
      /\ task \in [Worker -> [start : Nat, end : Nat, batch : 0 .. MaxBatches]]
      /\ inbox \in [Worker -> Seq(Message)] /\ outbox \in [Worker -> Seq(Reply)]
      /\ data \in [Item -> Nat] /\ seen \in [Worker -> Nat]
  BY DEF BatchTypes, OnTime
<1>2. Script(w) /\ Assigned(w)
  BY DEF OnTime
<1>3. CASE StoreItem(w)
  BY <1>0, <1>3, UpdateStore DEF StoreItem
(* The other steps touch neither the buffer nor the ghost, nor any Worker but w. *)
<1>4. SUFFICES ASSUME ~ StoreItem(w), UNCHANGED <<data, hits>>, seen' \in [Worker -> Nat],
                      \A v \in Worker \ {w} :
                         /\ inbox'[v] = inbox[v] /\ outbox'[v] = outbox[v]
                         /\ wpc'[v] = wpc[v] /\ task'[v] = task[v] /\ seen'[v] = seen[v]
               PROVE  (Script(w) /\ Assigned(w) /\ NotStale(w))'
  <2>1. ASSUME ~ StoreItem(w)
        PROVE  /\ UNCHANGED <<data, hits>> /\ seen' \in [Worker -> Nat]
               /\ \A v \in Worker \ {w} :
                     /\ inbox'[v] = inbox[v] /\ outbox'[v] = outbox[v]
                     /\ wpc'[v] = wpc[v] /\ task'[v] = task[v] /\ seen'[v] = seen[v]
    <3>1. UNCHANGED <<data, hits>>
      BY <1>0, <2>1 DEF LoadScript, Receive, LoadItem, Transformed
    <3>2. \A v \in Worker \ {w} : outbox'[v] = outbox[v] /\ inbox'[v] = inbox[v]
      BY <1>0, <1>1, <2>1 DEF LoadScript, Receive, LoadItem, Transformed
    <3>3. \A v \in Worker \ {w} : wpc'[v] = wpc[v]
      BY <1>0, <1>1, <2>1 DEF LoadScript, Receive, LoadItem, Transformed
    <3>4. \A v \in Worker \ {w} : task'[v] = task[v]
      BY <1>0, <1>1, <2>1 DEF LoadScript, Receive, LoadItem, Transformed
    <3>5. seen' \in [Worker -> Nat] /\ \A v \in Worker \ {w} : seen'[v] = seen[v]
      <4>1. CASE LoadItem(w)
        <5>1. wpc[w] \in InTransform /\ task[w].start < task[w].end
          BY <4>1 DEF LoadItem, InTransform
        <5>2. task[w].start \in Item
          BY <1>2, <5>1, AtWork
        <5> QED
          BY <1>1, <4>1, <5>2 DEF LoadItem
      <4>2. CASE UNCHANGED seen
        BY <1>1, <4>2
      <4> QED
        BY <1>0, <2>1, <4>1, <4>2 DEF LoadScript, Receive, LoadItem, Transformed
    <3> QED
      BY <3>1, <3>2, <3>3, <3>4, <3>5
  <2>2. ASSUME UNCHANGED <<data, hits>>, seen' \in [Worker -> Nat],
               \A v \in Worker \ {w} :
                  /\ inbox'[v] = inbox[v] /\ outbox'[v] = outbox[v]
                  /\ wpc'[v] = wpc[v] /\ task'[v] = task[v] /\ seen'[v] = seen[v],
               (Script(w) /\ Assigned(w) /\ NotStale(w))'
        PROVE  OnTime' /\ NoLostUpdate'
    <3>1. ASSUME NEW v \in Worker, v # w PROVE (Script(v) /\ Assigned(v) /\ NotStale(v))'
      <4>1. Script(v) /\ Assigned(v) /\ NotStale(v)
        BY DEF OnTime
      <4>2. (Script(v) /\ Assigned(v))'
        BY <1>0, <2>2, <3>1, <4>1, Elsewhere
      <4>3. (NotStale(v))'
        BY <2>2, <3>1, <4>1 DEF NotStale
      <4> QED
        BY <4>2, <4>3
    <3>2. OnTime'
      BY <1>0, <1>1, <2>2, <3>1 DEF OnTime
    <3>3. NoLostUpdate'
      BY <2>2 DEF NoLostUpdate, Transforms
    <3> QED
      BY <3>2, <3>3
  <2> QED
    BY <1>3, <2>1, <2>2
<1>5. CASE LoadScript(w)
  <2>1. PICK m \in Reply, to \in {"idle", "dead"} :
           /\ m.type = IF to = "idle" THEN "online" ELSE "error"
           /\ wpc' = [wpc EXCEPT ![w] = to] /\ outbox' = [outbox EXCEPT ![w] = Append(@, m)]
    <3>1. PICK type \in {"online", "error"}, to \in {"idle", "dead"} :
             /\ type = IF to = "idle" THEN "online" ELSE "error"
             /\ wpc' = [wpc EXCEPT ![w] = to]
             /\ outbox' = [outbox EXCEPT ![w] = Append(@, [type |-> type])]
      BY <1>5 DEF LoadScript
    <3>2. [type |-> type] \in Reply
      BY DEF Reply
    <3> QED
      BY <3>1, <3>2
  <2>2. wpc[w] = "boot" /\ wpc'[w] = to /\ UNCHANGED <<inbox, task>>
    BY <1>1, <1>5, <2>1 DEF LoadScript
  <2>3. ppc \in {"online", "failed"} \/ ppc \notin {"none", "initialized", "ready", "batch"}
    BY <1>2, <2>2 DEF Script
  <2>4. \A k \in 1 .. Len(outbox'[w]) :
           outbox'[w][k] = m \/ \E j \in 1 .. Len(outbox[w]) : outbox'[w][k] = outbox[w][j]
    BY <1>0, <2>1, SaysMore
  <2>5. (Script(w))'
    <3>1. to = "idle" => \A k \in 1 .. Len(outbox'[w]) : outbox'[w][k].type # "error"
      BY <1>2, <2>1, <2>2, <2>4 DEF Script
    <3>2. ppc = "online" /\ to = "dead" =>
             /\ \E l \in listeners : l.type = "online" /\ l.worker = w
             /\ \A k \in 1 .. Len(outbox'[w]) : outbox'[w][k].type = "error"
      BY <1>2, <2>1, <2>2, <2>4 DEF Script
    <3> QED
      BY <1>0, <1>2, <2>2, <2>3, <3>1, <3>2 DEF Script
  <2>6. (Assigned(w))'
    BY <1>0, <1>2, <2>2, <2>3 DEF Assigned, InTransform
  <2> QED
    BY <2>2, <2>5, <2>6 DEF NotStale
<1>6. CASE Receive(w)
  <2> DEFINE m == Head(inbox[w])
             q == Tail(inbox[w])
  <2>1. wpc[w] = "idle" /\ inbox[w] # <<>> /\ inbox' = [inbox EXCEPT ![w] = q]
    BY <1>6 DEF Receive
  <2>2. /\ m = inbox[w][1] /\ m \in Message /\ q \in Seq(Message)
        /\ Len(inbox[w]) \in Nat \ {0} /\ Len(q) = Len(inbox[w]) - 1
        /\ \A k \in 1 .. Len(q) : q[k] = inbox[w][k + 1]
    BY <1>1, <2>1, QueueTail
  <2>3. m.type \in {"init", "transform"}
    BY <2>2 DEF Message
  <2>4. \/ /\ m.type = "init" /\ UNCHANGED <<wpc, task>>
           /\ PostToHost(w, [type |-> "initialized", id |-> m.id])
        \/ /\ m.type = "transform" /\ Goto(w, "load") /\ UNCHANGED outbox
           /\ task' = [task EXCEPT ![w] = [start |-> m.start, end |-> m.end, batch |-> m.batch]]
    BY <1>6, <2>3 DEF Receive
  <2> HIDE DEF m, q
  <2>5. /\ inbox'[w] = q /\ 1 \in 1 .. Len(inbox[w])
        /\ \A k \in 1 .. Len(q) : \E j \in 1 .. Len(inbox[w]) : q[k] = inbox[w][j]
    <3>1. \A k \in 1 .. Len(q) : k + 1 \in 1 .. Len(inbox[w]) /\ q[k] = inbox[w][k + 1]
      BY <2>2
    <3> QED
      BY <1>1, <2>1, <2>2, <3>1
  <2>6. ppc \notin {"none", "online"}
    BY <1>2, <2>1 DEF Script
  <2>7. CASE /\ m.type = "init" /\ UNCHANGED <<wpc, task>>
             /\ PostToHost(w, [type |-> "initialized", id |-> m.id])
    <3>1. PICK r \in Reply : r.type = "initialized" /\ outbox' = [outbox EXCEPT ![w] = Append(@, r)]
      <4>1. m.id \in Worker
        BY <2>2, <2>7 DEF Message
      <4>2. [type |-> "initialized", id |-> m.id] \in Reply
        BY <4>1 DEF Reply
      <4> QED
        BY <2>7, <4>2
    <3>2. \A k \in 1 .. Len(outbox'[w]) :
             outbox'[w][k] = r \/ \E j \in 1 .. Len(outbox[w]) : outbox'[w][k] = outbox[w][j]
      BY <1>0, <3>1, SaysMore
    <3>3. (Script(w))'
      BY <1>0, <1>2, <2>1, <2>6, <2>7, <3>1, <3>2 DEF Script
    <3>4. (Replied(w))' => Replied(w)
      BY <1>0, <3>1, <3>2 DEF Replied
    <3>5. ((Waiting(w))' => Waiting(w)) /\ ~ (Working(w))'
      BY <1>0, <2>1, <2>5, <2>7 DEF Waiting, Current, Working, InTransform
    <3>6. (Assigned(w))'
      <4>1. \A k \in 1 .. Len(q) :
               q[k].type = "transform" => ppc = "batch" /\ q[k].batch = batchId
        BY <1>2, <2>5 DEF Assigned
      <4>2. wpc'[w] \notin InTransform
        BY <2>1, <2>7 DEF InTransform
      <4>3. ppc = "batch" /\ (Replied(w))' => ~ Waiting(w)
        BY <1>2, <3>4 DEF Assigned
      <4> QED
        BY <1>0, <2>5, <3>5, <4>1, <4>2, <4>3 DEF Assigned
    <3> QED
      BY <2>1, <2>7, <3>3, <3>6 DEF NotStale
  <2>8. CASE /\ m.type = "transform" /\ Goto(w, "load") /\ UNCHANGED outbox
             /\ task' = [task EXCEPT ![w] = [start |-> m.start, end |-> m.end, batch |-> m.batch]]
    <3>1. wpc'[w] = "load" /\ task'[w].batch = m.batch
      BY <1>1, <2>8
    <3>2. ppc = "batch" /\ m.batch = batchId /\ Waiting(w)
      BY <1>2, <2>2, <2>5, <2>8 DEF Assigned, Waiting, Current
    <3>3. ~ (Replied(w))'
      BY <1>0, <1>2, <2>8, <3>2 DEF Assigned, Replied
    <3>4. (Assigned(w))'
      BY <1>0, <1>2, <2>5, <3>1, <3>2, <3>3 DEF Assigned
    <3>5. (Script(w))'
      BY <1>0, <1>2, <2>1, <2>8, <3>1, <3>2 DEF Script
    <3> QED
      BY <3>1, <3>4, <3>5 DEF NotStale
  <2> QED
    BY <2>4, <2>7, <2>8
<1>7. CASE LoadItem(w)
  <2>1. /\ wpc[w] = "load" /\ wpc'[w] = "store" /\ seen'[w] = data[task[w].start]
        /\ UNCHANGED <<inbox, outbox, task>>
    BY <1>1, <1>7 DEF LoadItem
  <2>2. ppc = "batch"
    BY <1>2, <2>1 DEF Assigned, InTransform
  <2>3. (Script(w))'
    BY <1>0, <1>2, <2>1, <2>2 DEF Script
  <2>4. (Assigned(w))'
    BY <1>0, <1>2, <2>1 DEF Assigned, Replied, Waiting, Current, Working, InTransform
  <2> QED
    BY <1>4, <2>1, <2>3, <2>4 DEF NotStale
<1>8. CASE Transformed(w)
  <2> DEFINE m == [type |-> "transformed", id |-> w, batch |-> task[w].batch]
  <2>1. /\ wpc[w] = "load" /\ wpc'[w] = "idle" /\ UNCHANGED <<inbox, task>>
        /\ outbox' = [outbox EXCEPT ![w] = Append(@, m)]
    BY <1>1, <1>8 DEF Transformed
  <2>2. Working(w) /\ ~ Waiting(w) /\ ppc = "batch" /\ batchId \in Batch /\ task[w].batch = batchId
    BY <1>2, <2>1, AtWork DEF InTransform
  <2>3. m \in Reply /\ m.type = "transformed" /\ m.batch <= batchId
    <3>1. batchId <= batchId
      BY <2>2 DEF Batch
    <3> QED
      BY <2>2, <3>1 DEF Reply
  <2> HIDE DEF m
  <2>4. \A k \in 1 .. Len(outbox'[w]) :
           outbox'[w][k] = m \/ \E j \in 1 .. Len(outbox[w]) : outbox'[w][k] = outbox[w][j]
    BY <1>0, <2>1, <2>3, SaysMore
  <2>5. (Script(w))'
    BY <1>0, <1>2, <2>1, <2>2, <2>3, <2>4 DEF Script
  <2>6. ~ (Working(w))' /\ ~ (Waiting(w))'
    BY <1>0, <2>1, <2>2 DEF Working, Waiting, Current, InTransform
  <2>7. (Assigned(w))'
    BY <1>0, <1>2, <2>1, <2>2, <2>6 DEF Assigned, InTransform
  <2> QED
    BY <2>1, <2>5, <2>7 DEF NotStale
<1> QED
  BY <1>0, <1>4, <1>5, <1>6, <1>7, <1>8

(* The head of an outbox and the rest of it were in it.                    *)
LEMMA OutboxHead ==
    ASSUME BatchTypes, NEW w \in Worker, outbox[w] # <<>>
    PROVE  /\ 1 \in 1 .. Len(outbox[w]) /\ Head(outbox[w]) = outbox[w][1]
           /\ [outbox EXCEPT ![w] = Tail(@)] \in [Worker -> Seq(Reply)]
           /\ \A v \in Worker : \A k \in 1 .. Len([outbox EXCEPT ![w] = Tail(@)][v]) :
                 \E j \in 1 .. Len(outbox[v]) :
                    [outbox EXCEPT ![w] = Tail(@)][v][k] = outbox[v][j]
<1> DEFINE event == [outbox EXCEPT ![w] = Tail(@)]
<1>1. outbox \in [Worker -> Seq(Reply)] /\ outbox[w] \in Seq(Reply)
  BY DEF BatchTypes
<1>2. /\ Head(outbox[w]) = outbox[w][1] /\ Tail(outbox[w]) \in Seq(Reply)
      /\ Len(outbox[w]) \in Nat \ {0} /\ Len(Tail(outbox[w])) = Len(outbox[w]) - 1
      /\ \A k \in 1 .. Len(Tail(outbox[w])) : Tail(outbox[w])[k] = outbox[w][k + 1]
  BY <1>1, QueueTail
<1>3. /\ event \in [Worker -> Seq(Reply)] /\ event[w] = Tail(outbox[w])
      /\ \A v \in Worker \ {w} : event[v] = outbox[v]
  BY <1>1, <1>2
<1> HIDE DEF event
<1>4. 1 \in 1 .. Len(outbox[w])
  BY <1>2
<1>5. \A k \in 1 .. Len(event[w]) : k + 1 \in 1 .. Len(outbox[w]) /\ event[w][k] = outbox[w][k + 1]
  BY <1>2, <1>3
<1>6. \A v \in Worker : \A k \in 1 .. Len(event[v]) :
         \E j \in 1 .. Len(outbox[v]) : event[v][k] = outbox[v][j]
  <2> TAKE v \in Worker
  <2>1. CASE v = w
    BY <1>5, <2>1
  <2>2. CASE v # w
    BY <1>3, <2>2
  <2> QED
    BY <2>1, <2>2
<1> QED
  BY <1>2, <1>3, <1>4, <1>6 DEF event

(* A message: the last answer leaves no work behind.                       *)
LEMMA UpdateMessage ==
    ASSUME BatchTypes, NoneAhead, OnTime, NEW w \in Worker, OnPoolMessage(w)
    PROVE  ppc' \in {"online", "initialized", "ready", "batch", "failed"}
           /\ \A v \in Worker : (Script(v) /\ Assigned(v))'
<1> DEFINE m == Head(outbox[w])
           taken == {l \in listeners : Matches(l, w, m)}
           rest == listeners \ taken
<1>1. /\ outbox[w] # <<>> /\ outbox' = [outbox EXCEPT ![w] = Tail(@)] /\ m.type # "error"
      /\ ppc # "none"
      /\ UNCHANGED <<wpc, task, batchId, closed>>
  BY DEF OnPoolMessage, localVars
<1>2. \/ ~ (\E l \in rest : Awaited(l)) /\ Resolve(rest)
      \/ listeners' = rest /\ UNCHANGED <<inbox, ppc>>
  BY DEF OnPoolMessage
<1>3. /\ 1 \in 1 .. Len(outbox[w]) /\ m = outbox[w][1]
      /\ \A v \in Worker : \A k \in 1 .. Len(outbox'[v]) :
            \E j \in 1 .. Len(outbox[v]) : outbox'[v][k] = outbox[v][j]
  BY <1>1, OutboxHead
<1> HIDE DEF m
<1>4. listeners' = rest \/ listeners' = rest \cup Listen("initialized", 0)
  BY <1>2 DEF Resolve
<1>5. ASSUME NEW v \in Worker, ppc = "online", wpc[v] # "idle"
      PROVE  \E l \in rest : l.type = "online" /\ l.worker = v
  <2>1. PICK l \in listeners : l.type = "online" /\ l.worker = v
    BY <1>5 DEF OnTime, Script
  <2>2. \A k \in 1 .. Len(outbox[v]) : outbox[v][k].type = "error"
    BY <1>5 DEF OnTime, Script
  <2>3. ~ Matches(l, w, m)
    BY <1>1, <1>3, <2>1, <2>2 DEF Matches
  <2> QED
    BY <2>1, <2>3
<1>6. ASSUME NEW v \in Worker, ppc = "batch", \A l \in rest : l.batch = batchId => l.worker # v
      PROVE  Replied(v)
  <2>1. CASE \A l \in listeners : l.batch = batchId => l.worker # v
    BY <2>1 DEF Replied
  <2>2. ASSUME NEW l \in listeners, l.batch = batchId, l.worker = v PROVE Replied(v)
    <3>1. Matches(l, w, m)
      BY <1>6, <2>2
    <3>2. v = w /\ m.type = "transformed" /\ m.batch = batchId
      BY <1>6, <2>2, <3>1 DEF Matches, NoneAhead
    <3> QED
      BY <1>3, <3>2 DEF Replied
  <2> QED
    BY <2>1, <2>2
<1>7. \A v \in Worker : wpc[v] # "dead" => \A k \in 1 .. Len(outbox'[v]) : outbox'[v][k].type # "error"
  BY <1>3 DEF OnTime, Script
<1>8. CASE listeners' = rest /\ UNCHANGED <<inbox, ppc>>
  <2>1. ASSUME NEW v \in Worker PROVE (Script(v))'
    <3>1. Script(v)
      BY DEF OnTime
    <3>2. ppc = "online" /\ wpc[v] # "idle" =>
             /\ \E l \in listeners' : l.type = "online" /\ l.worker = v
             /\ \A k \in 1 .. Len(outbox'[v]) : outbox'[v][k].type = "error"
      <4>1. ppc = "online" /\ wpc[v] # "idle" =>
               \A j \in 1 .. Len(outbox[v]) : outbox[v][j].type = "error"
        BY <3>1 DEF Script
      <4>2. \A k \in 1 .. Len(outbox'[v]) :
              \E j \in 1 .. Len(outbox[v]) : outbox'[v][k] = outbox[v][j]
        BY <1>3
      <4> QED
        BY <1>5, <1>8, <4>1, <4>2
    <3> QED
      BY <1>1, <1>7, <1>8, <3>1, <3>2 DEF Script
  <2>2. ASSUME NEW v \in Worker PROVE (Assigned(v))'
    <3>1. Assigned(v)
      BY DEF OnTime
    <3>2. ASSUME ppc = "batch", (Replied(v))' PROVE Replied(v)
      <4>1. CASE \A l \in rest : l.batch = batchId => l.worker # v
        BY <1>6, <3>2, <4>1
      <4>2. CASE \E k \in 1 .. Len(outbox'[v]) :
                    outbox'[v][k].type = "transformed" /\ outbox'[v][k].batch = batchId
        BY <1>3, <4>2 DEF Replied
      <4> QED
        BY <1>1, <1>8, <3>2, <4>1, <4>2 DEF Replied
    <3> QED
      BY <1>1, <1>8, <3>1, <3>2 DEF Assigned, Waiting, Working, Current
  <2> QED
    BY <1>1, <1>8, <2>1, <2>2 DEF OnTime
<1>9. CASE ~ (\E l \in rest : Awaited(l)) /\ Resolve(rest)
  <2>1. CASE ppc = "online"
    <3>1. /\ ppc' = "initialized"
          /\ inbox' = [v \in Worker |-> Append(inbox[v], [type |-> "init", id |-> v])]
      BY <1>9, <2>1 DEF Resolve
    <3>2. ASSUME NEW v \in Worker PROVE (Script(v) /\ Assigned(v))'
      <4>1. Script(v) /\ inbox[v] = <<>>
        BY <2>1 DEF OnTime, Script
      <4>2. wpc[v] = "idle"
        BY <1>5, <1>9, <2>1 DEF Awaited
      <4>3. inbox'[v] = <<[type |-> "init", id |-> v]>>
        <5>1. inbox'[v] = Append(<<>>, [type |-> "init", id |-> v])
          BY <3>1, <4>1
        <5> QED
          BY <5>1, ShortQueues
      <4>4. (Script(v))'
        BY <1>1, <1>7, <2>1, <3>1, <4>1, <4>2 DEF Script
      <4>5. \A k \in 1 .. Len(inbox'[v]) : inbox'[v][k].type # "transform"
        BY <4>3
      <4>6. (Assigned(v))'
        BY <1>1, <3>1, <4>2, <4>5 DEF Assigned, InTransform
      <4> QED
        BY <4>4, <4>6
    <3> QED
      BY <3>1, <3>2
  <2>2. CASE ppc \in {"initialized", "batch"}
    <3>1. ppc' = "ready" /\ UNCHANGED inbox
      BY <1>9, <2>2 DEF Resolve
    <3>2. ASSUME NEW v \in Worker PROVE (Script(v) /\ Assigned(v))'
      <4>1. Script(v) /\ Assigned(v)
        BY DEF OnTime
      <4>2. (Script(v))'
        BY <1>1, <1>7, <2>2, <3>1, <4>1 DEF Script
      <4>3. ppc = "batch" => ~ Waiting(v) /\ ~ Working(v)
        <5>1. ppc = "batch" => Replied(v)
          BY <1>6, <1>9 DEF Awaited
        <5> QED
          BY <4>1, <5>1 DEF Assigned
      <4>4. \A k \in 1 .. Len(inbox[v]) : inbox[v][k].type # "transform"
        BY <4>1, <4>3 DEF Assigned, Waiting, Current
      <4>5. wpc[v] \notin InTransform
        BY <4>1, <4>3 DEF Assigned, Working
      <4>6. (Assigned(v))'
        BY <1>1, <3>1, <4>4, <4>5 DEF Assigned
      <4> QED
        BY <4>2, <4>6
    <3> QED
      BY <3>1, <3>2
  <2> QED
    BY <1>9, <2>1, <2>2 DEF Resolve
<1> QED
  BY <1>2, <1>8, <1>9

(* A rejection, by the error of a script that fails to load or by the      *)
(* deadline of a listener whose Worker has been stopped.                   *)
LEMMA UpdateReject ==
    ASSUME BatchTypes, OnTime, NEW w \in Worker, NEW event, NEW rejected,
           Reject(w, event, rejected), ppc \in {"online", "failed"} \/ wpc[w] = "stopped",
           \A v \in Worker : \A k \in 1 .. Len(event[v]) :
              \E j \in 1 .. Len(outbox[v]) : event[v][k] = outbox[v][j]
    PROVE  ppc' \in {"online", "initialized", "ready", "batch", "failed"}
           /\ \A v \in Worker : (Script(v) /\ Assigned(v))'
<1>1. UNCHANGED <<task, batchId, closed>> /\ listeners' = listeners \ rejected
  BY DEF Reject, localVars
<1>2. PICK stopped :
         /\ wpc' = [v \in Worker |-> IF v \in stopped THEN "stopped" ELSE wpc[v]]
         /\ inbox' = [v \in Worker |-> IF v \in stopped THEN <<>> ELSE inbox[v]]
         /\ outbox' = [v \in Worker |-> IF v \in stopped THEN <<>> ELSE event[v]]
         /\ ppc = "online" /\ ~ (\E l \in rejected : Awaited(l)) => stopped = {}
  BY DEF Reject, Awaited
<1>3. /\ ~ (\E l \in rejected : Awaited(l)) => UNCHANGED ppc
      /\ (\E l \in rejected : Awaited(l)) => ppc' = IF ppc = "batch" THEN "ready" ELSE "failed"
  BY DEF Reject
<1>4. ASSUME NEW v \in Worker
      PROVE  /\ \/ wpc'[v] = "stopped" /\ inbox'[v] = <<>> /\ outbox'[v] = <<>>
                \/ v \notin stopped /\ wpc'[v] = wpc[v] /\ inbox'[v] = inbox[v]
             /\ \A k \in 1 .. Len(outbox'[v]) :
                   \E j \in 1 .. Len(outbox[v]) : outbox'[v][k] = outbox[v][j]
  <2>1. CASE v \in stopped
    BY <1>2, <2>1
  <2>2. CASE v \notin stopped
    <3>1. outbox'[v] = event[v] /\ wpc'[v] = wpc[v] /\ inbox'[v] = inbox[v]
      BY <1>2, <2>2
    <3> QED
      BY <2>2, <3>1
  <2> QED
    BY <2>1, <2>2
<1>5. ASSUME NEW v \in Worker, wpc'[v] # "dead"
      PROVE  \A k \in 1 .. Len(outbox'[v]) : outbox'[v][k].type # "error"
  <2>1. CASE outbox'[v] = <<>>
    BY <2>1
  <2>2. CASE wpc'[v] = wpc[v]
    <3>1. \A j \in 1 .. Len(outbox[v]) : outbox[v][j].type # "error"
      <4>1. Script(v)
        BY DEF OnTime
      <4> QED
        BY <1>5, <2>2, <4>1 DEF Script
    <3>2. \A k \in 1 .. Len(outbox'[v]) :
            \E j \in 1 .. Len(outbox[v]) : outbox'[v][k] = outbox[v][j]
      BY <1>4
    <3> QED
      BY <3>1, <3>2
  <2> QED
    BY <1>4, <2>1, <2>2
<1>6. CASE ppc \in {"online", "failed"}
  <2>1. ppc' \in {"online", "failed"} /\ (ppc' = "online" => ppc = "online" /\ stopped = {})
    BY <1>2, <1>3, <1>6
  <2>2. ASSUME NEW v \in Worker PROVE (Script(v) /\ Assigned(v))'
    <3>1. Script(v) /\ Assigned(v) /\ ~ closed
      BY <1>6 DEF OnTime, Script
    <3>2. ASSUME ppc' = "online"
          PROVE  /\ wpc'[v] \in {"boot", "idle", "dead"} /\ inbox'[v] = <<>>
                 /\ \/ wpc'[v] = "idle"
                    \/ /\ \E l \in listeners' : l.type = "online" /\ l.worker = v
                       /\ \A k \in 1 .. Len(outbox'[v]) : outbox'[v][k].type = "error"
      <4>1. /\ ppc = "online" /\ wpc'[v] = wpc[v] /\ inbox'[v] = inbox[v]
            /\ \A l \in rejected : l.type # "online"
        BY <1>2, <1>3, <2>1, <3>2 DEF Awaited
      <4>2. wpc[v] # "idle" => \E l \in listeners' : l.type = "online" /\ l.worker = v
        BY <1>1, <3>1, <4>1 DEF Script
      <4>3. wpc[v] # "idle" => \A k \in 1 .. Len(outbox'[v]) : outbox'[v][k].type = "error"
        <5>1. wpc[v] # "idle" => \A j \in 1 .. Len(outbox[v]) : outbox[v][j].type = "error"
          BY <3>1, <4>1 DEF Script
        <5>2. \A k \in 1 .. Len(outbox'[v]) :
                \E j \in 1 .. Len(outbox[v]) : outbox'[v][k] = outbox[v][j]
          BY <1>4
        <5> QED
          BY <5>1, <5>2
      <4> QED
        BY <3>1, <4>1, <4>2, <4>3 DEF Script
    <3>3. wpc'[v] = "stopped" => inbox'[v] = <<>> /\ ppc' = "failed"
      <4>1. wpc[v] = "stopped" => inbox[v] = <<>> /\ ppc = "failed"
        BY <3>1 DEF Script
      <4> QED
        BY <1>2, <1>4, <2>1, <4>1
    <3>4. (Script(v))'
      BY <1>1, <1>5, <2>1, <3>1, <3>2, <3>3 DEF Script
    <3>5. \A k \in 1 .. Len(inbox'[v]) : inbox'[v][k].type # "transform"
      <4>1. \A k \in 1 .. Len(inbox[v]) : inbox[v][k].type # "transform"
        BY <1>6, <3>1 DEF Assigned
      <4>2. inbox'[v] = <<>> \/ inbox'[v] = inbox[v]
        BY <1>4
      <4> QED
        BY <4>1, <4>2
    <3>6. (Assigned(v))'
      BY <1>1, <1>4, <1>6, <2>1, <3>1, <3>5 DEF Assigned, InTransform
    <3> QED
      BY <3>4, <3>6
  <2> QED
    BY <2>1, <2>2
<1>7. CASE wpc[w] = "stopped" /\ ppc \notin {"online", "failed"}
  <2>1. closed /\ ppc \in {"ready", "batch"}
    BY <1>7 DEF OnTime, Script
  <2>2. \A v \in Worker : wpc[v] = "stopped" /\ inbox[v] = <<>>
    BY <2>1 DEF OnTime, Script
  <2>3. ppc' \in {"ready", "batch"}
    BY <1>3, <2>1 DEF Awaited
  <2>4. ASSUME NEW v \in Worker PROVE (Script(v) /\ Assigned(v))'
    <3>1. wpc'[v] = "stopped" /\ inbox'[v] = <<>>
      BY <1>4, <2>2
    <3>2. ~ (Waiting(v))' /\ ~ (Working(v))'
      BY <3>1 DEF Waiting, Working, InTransform
    <3>3. (Script(v))'
      BY <1>1, <1>5, <2>1, <2>3, <3>1 DEF Script
    <3>4. (Assigned(v))'
      BY <3>1, <3>2 DEF Assigned, InTransform
    <3> QED
      BY <3>3, <3>4
  <2> QED
    BY <2>3, <2>4
<1> QED
  BY <1>6, <1>7

(* A batch starts when the one before it has left nothing behind.          *)
LEMMA UpdateTransform ==
    ASSUME BatchTypes, NoneAhead, OnTime, NEW n \in Counts, Transform(n)
    PROVE  ppc' = "batch" /\ \A v \in Worker : (Script(v) /\ Assigned(v))'
<1> DEFINE m(v) == [type |-> "transform", batch |-> batchId',
                    start |-> Share(n, v).start, end |-> Share(n, v).end]
<1>1. /\ ppc = "ready" /\ ppc' = "batch" /\ batchId' = batchId + 1
      /\ listeners' = listeners \cup Listen("transformed", batchId')
      /\ inbox' = [v \in Worker |-> IF wpc[v] = "stopped" THEN inbox[v] ELSE Append(inbox[v], m(v))]
      /\ UNCHANGED <<wpc, outbox, task, closed>>
  BY DEF Transform, localVars
<1>2. inbox \in [Worker -> Seq(Message)] /\ outbox \in [Worker -> Seq(Reply)] /\ batchId \in Nat
  BY DEF BatchTypes
<1>3. ASSUME NEW v \in Worker PROVE (Script(v) /\ Assigned(v))'
  <2>1. Script(v) /\ Assigned(v) /\ wpc[v] \notin InTransform
        /\ \A k \in 1 .. Len(inbox[v]) : inbox[v][k].type # "transform"
    BY <1>1 DEF OnTime, Assigned
  <2>2. m(v).type = "transform" /\ m(v).batch = batchId'
    OBVIOUS
  <2> HIDE DEF m
  <2>3. (Script(v))'
    BY <1>1, <2>1 DEF Script
  <2>4. ~ (Replied(v))'
    <3>1. \E l \in listeners' : l.batch = batchId' /\ l.worker = v
      <4>1. [worker |-> v, type |-> "transformed", batch |-> batchId']
               \in Listen("transformed", batchId')
        BY DEF Listen
      <4> QED
        BY <1>1, <4>1
    <3>2. ASSUME NEW k \in 1 .. Len(outbox[v]), outbox[v][k].type = "transformed"
          PROVE  outbox[v][k].batch # batchId'
      <4>1. outbox[v][k] \in Reply
        BY <1>2
      <4>2. outbox[v][k].batch \in Nat /\ outbox[v][k].batch <= batchId
        BY <3>2, <4>1 DEF Reply, Batch, NoneAhead
      <4> QED
        BY <1>1, <1>2, <4>2
    <3> QED
      BY <1>1, <3>1, <3>2 DEF Replied
  <2>5. \A k \in 1 .. Len(inbox'[v]) :
           inbox'[v][k].type = "transform" => inbox'[v][k].batch = batchId'
    <3>1. CASE wpc[v] = "stopped"
      BY <1>1, <2>1, <3>1
    <3>2. CASE wpc[v] # "stopped"
      <4>1. inbox'[v] = Append(inbox[v], m(v))
        BY <1>1, <3>2
      <4>2. /\ Len(Append(inbox[v], m(v))) = Len(inbox[v]) + 1 /\ Len(inbox[v]) \in Nat
            /\ \A k \in 1 .. Len(inbox[v]) : Append(inbox[v], m(v))[k] = inbox[v][k]
            /\ Append(inbox[v], m(v))[Len(inbox[v]) + 1] = m(v)
        <5>1. inbox[v] \in Seq(Message \cup {m(v)}) /\ m(v) \in Message \cup {m(v)}
          <6>1. inbox[v] \in Seq(Message)
            BY <1>2
          <6> QED
            BY <6>1
        <5> QED
          BY <5>1, QueueAppend
      <4> QED
        BY <2>1, <2>2, <4>1, <4>2
    <3> QED
      BY <3>1, <3>2
  <2>6. (Assigned(v))'
    BY <1>1, <2>1, <2>4, <2>5 DEF Assigned
  <2> QED
    BY <2>3, <2>6
<1> QED
  BY <1>1, <1>3

LEMMA UpdateHost ==
    ASSUME BatchTypes, NoneAhead, OnTime, NoLostUpdate, timeouts = 0, PoolNext, timeouts' = 0
    PROVE  OnTime' /\ NoLostUpdate'
<1>1. UNCHANGED <<data, hits, seen, task>>
  BY DEF PoolNext, PoolHandlers, Create, OnPoolMessage, OnPoolError, ListenerTimeout, Reject,
         Close, Transform, localVars
<1>2. /\ wpc \in [Worker -> InTransform \cup {"none", "boot", "idle", "dead", "stopped"}]
      /\ listeners \subseteq Listener
  BY DEF BatchTypes
<1>3. \A v \in Worker : wpc'[v] = "store" => wpc[v] = "store"
  BY <1>2 DEF PoolNext, PoolHandlers, Create, OnPoolMessage, OnPoolError, ListenerTimeout, Reject,
              Close, Stop, Transform
<1>4. SUFFICES /\ ppc' \in {"online", "initialized", "ready", "batch", "failed"}
               /\ \A v \in Worker : (Script(v) /\ Assigned(v))'
  <2>1. ASSUME ppc' \in {"online", "initialized", "ready", "batch", "failed"},
               \A v \in Worker : (Script(v) /\ Assigned(v))'
        PROVE  OnTime'
    <3>1. \A v \in Worker : (NotStale(v))'
      BY <1>1, <1>3 DEF OnTime, NotStale
    <3> QED
      BY <1>1, <2>1, <3>1 DEF OnTime
  <2>2. NoLostUpdate'
    BY <1>1 DEF NoLostUpdate, Transforms
  <2> QED
    BY <2>1, <2>2
<1>5. CASE Create
  <2>1. /\ ppc = "none" /\ ppc' = "online" /\ listeners' = Listen("online", 0)
        /\ wpc' = [w \in Worker |-> "boot"]
        /\ UNCHANGED <<inbox, outbox, closed>>
    BY <1>5 DEF Create
  <2>2. ASSUME NEW v \in Worker PROVE (Script(v) /\ Assigned(v))'
    <3>1. inbox[v] = <<>> /\ outbox[v] = <<>> /\ ~ closed
      BY <2>1 DEF OnTime, Script
    <3>2. [worker |-> v, type |-> "online", batch |-> 0] \in Listen("online", 0)
      BY DEF Listen
    <3>3. (Script(v))'
      BY <2>1, <3>1, <3>2 DEF Script
    <3>4. (Assigned(v))'
      BY <2>1, <3>1 DEF Assigned, InTransform
    <3> QED
      BY <3>3, <3>4
  <2> QED
    BY <2>1, <2>2
<1>6. CASE \E w \in Worker : OnPoolMessage(w)
  BY <1>6, UpdateMessage
<1>7. ASSUME NEW w \in Worker, OnPoolError(w)
      PROVE  /\ ppc' \in {"online", "initialized", "ready", "batch", "failed"}
             /\ \A v \in Worker : (Script(v) /\ Assigned(v))'
  <2> DEFINE event == [outbox EXCEPT ![w] = Tail(@)]
             rejected == {l \in listeners : l.worker = w}
  <2>1. /\ outbox[w] # <<>> /\ Head(outbox[w]).type = "error" /\ ppc # "none"
        /\ Reject(w, event, rejected)
    BY <1>7 DEF OnPoolError
  <2>2. /\ 1 \in 1 .. Len(outbox[w]) /\ outbox[w][1].type = "error"
        /\ \A v \in Worker : \A k \in 1 .. Len(event[v]) :
              \E j \in 1 .. Len(outbox[v]) : event[v][k] = outbox[v][j]
    BY <2>1, OutboxHead
  <2>3. ppc \in {"online", "failed"}
    BY <2>1, <2>2 DEF OnTime, Script
  <2> HIDE DEF event, rejected
  <2> QED
    BY <2>1, <2>2, <2>3, UpdateReject
<1>8. ASSUME NEW l \in listeners, ListenerTimeout(l)
      PROVE  /\ ppc' \in {"online", "initialized", "ready", "batch", "failed"}
             /\ \A v \in Worker : (Script(v) /\ Assigned(v))'
  <2>1. Reject(l.worker, outbox, {l}) /\ wpc[l.worker] = "stopped" /\ l.worker \in Worker
    BY <1>2, <1>8 DEF ListenerTimeout, Listener
  <2>2. \A v \in Worker : \A k \in 1 .. Len(outbox[v]) :
           \E j \in 1 .. Len(outbox[v]) : outbox[v][k] = outbox[v][j]
    OBVIOUS
  <2> QED
    BY <2>1, <2>2, UpdateReject
<1>9. CASE Close
  <2>1. /\ \A v \in Worker : wpc'[v] = "stopped" /\ inbox'[v] = <<>> /\ outbox'[v] = <<>>
        /\ ppc \in {"ready", "batch"} /\ UNCHANGED ppc
    BY <1>9 DEF Close, Stop
  <2>2. ASSUME NEW v \in Worker PROVE (Script(v) /\ Assigned(v))'
    <3>1. ~ (Waiting(v))' /\ ~ (Working(v))'
      BY <2>1 DEF Waiting, Working, InTransform
    <3>2. (Script(v))'
      BY <1>9, <2>1 DEF Close, Script
    <3>3. (Assigned(v))'
      BY <2>1, <3>1 DEF Assigned, InTransform
    <3> QED
      BY <3>2, <3>3
  <2> QED
    BY <2>1, <2>2
<1>10. CASE \E n \in Counts : Transform(n)
  BY <1>10, UpdateTransform
<1> QED
  BY <1>5, <1>6, <1>7, <1>8, <1>9, <1>10 DEF PoolNext, PoolHandlers

LEMMA UpdateStarts == Init => UpdateInv
<1> SUFFICES ASSUME Init PROVE UpdateInv
  OBVIOUS
<1>1. /\ program \in {"counter", "pool"} /\ ppc = "none" /\ timeouts = 0 /\ closed = FALSE
      /\ hits = [b \in Batch |-> [i \in Item |-> 0]] /\ data = [i \in Item |-> 0]
      /\ wpc = [w \in Worker |-> "none"] /\ inbox = [w \in Worker |-> <<>>]
      /\ outbox = [w \in Worker |-> <<>>] /\ seen = [w \in Worker |-> 0]
  BY DEF Init, WorkerInit, PoolInit
<1>2. ASSUME NEW i \in Item PROVE Transforms(i) = 0
  <2> DEFINE c == [b \in Batch |-> hits[b][i]]
  <2>1. c \in [Batch -> Nat] /\ \A b \in Batch : c[b] = 0
    BY <1>1, <1>2
  <2> HIDE DEF c
  <2> QED
    BY <2>1, TotalZero DEF Transforms, c
<1>3. \A i \in Item : data[i] = 0
  BY <1>1
<1>4. OnTime
  BY <1>1 DEF OnTime, Script, Assigned, NotStale, InTransform
<1> QED
  BY <1>1, <1>2, <1>3, <1>4 DEF UpdateInv, NoLostUpdate

(* The counter's Workers have no transform to run (CountInv).              *)
LEMMA UpdateStep == ASSUME BatchInv, CountInv, UpdateInv, [Next]_vars PROVE UpdateInv'
<1>1. CASE UNCHANGED vars
  <2>1. UNCHANGED <<program, wpc, inbox, outbox, data, seen, task, ppc, listeners, batchId,
                    closed, timeouts, hits>>
    BY <1>1 DEF vars, workerVars, poolVars
  <2> QED
    BY <2>1 DEF UpdateInv, OnTime, Script, Assigned, Replied, NotStale, NoLostUpdate, Transforms,
                Current, Waiting, Working
<1>2. CASE program = "counter" /\ UNCHANGED <<program, poolVars>>
           /\ (CounterHostStep \/ CounterTimeout)
  <2>1. UNCHANGED <<data, hits, timeouts>>
    BY <1>2 DEF CounterHostStep, CounterTimeout, CreateWorkers, CounterReturn, OnCounterEvent,
                workerVars, poolVars
  <2> QED
    BY <1>2, <2>1 DEF UpdateInv, Transforms
<1>3. CASE program = "counter" /\ UNCHANGED <<program, poolVars>> /\ \E w \in Worker : WorkerStep(w)
  <2>1. UNCHANGED <<hits, timeouts>>
    BY <1>3 DEF poolVars
  <2>2. PICK w \in Worker : WorkerStep(w)
    BY <1>3
  <2>3. wpc[w] # "store"
    BY <1>3, <2>2 DEF CountInv, CountTypes, NotStarted, Counted, Phase, InCounter
  <2>4. UNCHANGED data
    BY <2>2, <2>3
    DEF WorkerStep, TransformStep, CounterStep, LoadScript, Receive, Gate, TryLock, LockWait,
        ReadCounter, WriteCounter, Unlock, NotifyOne, Report, LoadItem, StoreItem, Transformed
  <2> QED
    BY <1>3, <2>1, <2>4 DEF UpdateInv, Transforms
<1>4. CASE program = "pool" /\ UNCHANGED program /\ PoolNext
  <2>1. timeouts' = timeouts \/ timeouts' = timeouts + 1
    BY <1>4 DEF PoolNext, PoolHandlers, Create, OnPoolMessage, OnPoolError, ListenerTimeout,
                Close, Transform
  <2>2. timeouts' \in Nat /\ (timeouts' = 0 => timeouts = 0)
    BY <2>1 DEF UpdateInv
  <2>3. timeouts' = 0 => OnTime' /\ NoLostUpdate'
    BY <1>4, <2>2, UpdateHost DEF BatchInv, UpdateInv
  <2> QED
    BY <1>4, <2>2, <2>3 DEF UpdateInv
<1>5. CASE program = "pool" /\ UNCHANGED program /\ \E w \in Worker : PoolWorkerStep(w)
  <2>1. UNCHANGED timeouts
    BY <1>5 DEF PoolWorkerStep
  <2>2. timeouts = 0 => OnTime' /\ NoLostUpdate'
    BY <1>5, UpdateWorker DEF BatchInv, UpdateInv
  <2> QED
    BY <1>5, <2>1, <2>2 DEF UpdateInv
<1> QED
  BY <1>1, <1>2, <1>3, <1>4, <1>5
  DEF Next, CounterHost, CounterLimit, CounterWorker, PoolHost, PoolWorker, Counting, Pooling

(* Until a deadline passes, every item has been through as many transforms *)
(* as were run on it: no two Workers are at one item, and nobody is still  *)
(* at work on a batch when the next one starts, whoever failed to load and *)
(* whenever the pool is closed.                                            *)
THEOREM NoLostUpdateHolds == Spec => []NoLostUpdate
<1>1. UpdateInv => NoLostUpdate
  BY DEF UpdateInv, NoLostUpdate
<1> QED
  BY <1>1, BatchStarts, BatchStep, CountInvHolds, UpdateStarts, UpdateStep, PTL DEF Spec
=============================================================================
