---------------------------- MODULE ClientProofs ----------------------------
(***************************************************************************)
(* What is proved about the clients of a pool: scopes take turns at the    *)
(* permit in the order they asked for it, and a JSON call gets the answer  *)
(* to its own request.                                                     *)
(***************************************************************************)
EXTENDS MCClients, TLAPS

-----------------------------------------------------------------------------
(* Scopes: the inductive invariant of ScopeOrder.                          *)

ScopeTypes == /\ spawned \in [Scopes -> Nat]
              /\ state \in [Calls -> {"none", "chained"} \cup Admitted]
              /\ waiters \in Seq(Calls)
              /\ permit \in BOOLEAN

(* A free permit has no holder, and the waiters are calls that queued, each once. *)
PermitHeld == permit => \A c \in Calls : state[c] # "dispatching"
WaitersQueued == /\ \A i \in 1 .. Len(waiters) : state[waiters[i]] = "queued"
                 /\ \A i, j \in 1 .. Len(waiters) : waiters[i] = waiters[j] => i = j
NotSpawned == \A s \in Scopes, k \in 1 .. MaxTasks :
                 k > spawned[s] => state[<<s, k>>] = "none"

ScopeInv == ScopeTypes /\ PermitHeld /\ WaitersQueued /\ NotSpawned /\ ScopeOrder

LEMMA ScopeStarts == ASSUME ScopeInit PROVE ScopeInv
  BY ScopeAssumption
  DEF ScopeInit, ScopeInv, ScopeTypes, PermitHeld, WaitersQueued, NotSpawned, ScopeOrder,
      Calls, Tasks, Direct, Admitted, Ended

(* Joining or taking the permit: a call that was not at it comes to it.    *)
LEMMA AcquireKeeps ==
    ASSUME ScopeTypes, PermitHeld, WaitersQueued, NEW c \in Calls,
           state[c] \in {"none", "chained"}, Acquire(c)
    PROVE  /\ state'[c] \in {"queued", "dispatching"}
           /\ state' \in [Calls -> {"none", "chained"} \cup Admitted]
           /\ waiters' \in Seq(Calls) /\ permit' \in BOOLEAN
           /\ PermitHeld' /\ WaitersQueued'
           /\ \A d \in Calls : d # c => (state'[d] = state[d])
           /\ \A d \in Calls : d # c /\ state'[d] = "dispatching" => state'[c] # "dispatching"
<1> USE DEF ScopeTypes
<1>1. CASE permit
  <2>1. /\ permit' = FALSE /\ waiters' = waiters
        /\ state' = [state EXCEPT ![c] = "dispatching"]
    BY <1>1 DEF Acquire
  <2>2. /\ state' \in [Calls -> {"none", "chained"} \cup Admitted]
        /\ state'[c] = "dispatching"
        /\ \A d \in Calls : d # c => state'[d] = state[d]
    BY <2>1 DEF Admitted
  <2>3. \A i \in 1 .. Len(waiters) : waiters[i] \in Calls /\ waiters[i] # c
    BY DEF WaitersQueued
  <2>4. WaitersQueued'
    BY <2>1, <2>2, <2>3 DEF WaitersQueued
  <2> QED
    BY <1>1, <2>1, <2>2, <2>4 DEF PermitHeld
<1>2. CASE ~ permit
  <2>1. /\ waiters' = Append(waiters, c) /\ state' = [state EXCEPT ![c] = "queued"]
        /\ permit' = permit
    BY <1>2 DEF Acquire
  <2>2. /\ Len(waiters') = Len(waiters) + 1 /\ waiters'[Len(waiters) + 1] = c
        /\ \A i \in 1 .. Len(waiters) : waiters'[i] = waiters[i] /\ waiters[i] \in Calls
        /\ waiters' \in Seq(Calls)
    BY <2>1
  <2>3. \A i \in 1 .. Len(waiters) : waiters[i] # c
    BY DEF WaitersQueued
  <2>4. WaitersQueued'
    BY <2>1, <2>2, <2>3 DEF WaitersQueued
  <2> QED
    BY <1>2, <2>1, <2>2, <2>4 DEF PermitHeld, Admitted
<1> QED
  BY <1>1, <1>2

LEMMA ScopeStep == ASSUME ScopeInv, ScopeNext PROVE ScopeInv'
<1> USE ScopeAssumption DEF ScopeInv, ScopeTypes
<1>1. ASSUME NEW s \in Scopes, Spawn(s) PROVE ScopeInv'
  <2> DEFINE new == <<s, spawned[s] + 1>>
  <2>1. /\ spawned' = [spawned EXCEPT ![s] = @ + 1] /\ UNCHANGED <<waiters, permit>>
        /\ state' = [state EXCEPT ![new] = "chained"]
    BY <1>1 DEF Spawn
  <2>2. \A t \in Scopes, j \in 1 .. MaxTasks :
           <<t, j>> \in Calls /\ (<<t, j>> = new => state[<<t, j>>] = "none")
    <3>1. \A t \in Scopes, j \in 1 .. MaxTasks : <<t, j>> \in Calls
      BY DEF Calls, Tasks
    <3>2. spawned[s] \in Nat
      OBVIOUS
    <3>3. \A t \in Scopes, j \in 1 .. MaxTasks :
             <<t, j>> = new => t = s /\ j > spawned[t]
      BY <3>2
    <3> QED
      BY <3>1, <3>3 DEF NotSpawned
  <2>3. \A c \in Calls : state'[c] = state[c] \/ (state[c] = "none" /\ state'[c] = "chained")
    <3> SUFFICES ASSUME NEW c \in Calls, c = new PROVE state[c] = "none"
      BY <2>1
    <3>1. c \in Tasks
      BY DEF Calls, Direct
    <3> QED
      BY <3>1, <2>2 DEF Tasks
  <2>4. ScopeTypes'
    <3>1. spawned' \in [Scopes -> Nat]
      BY <2>1
    <3>2. state' \in [Calls -> {"none", "chained"} \cup Admitted]
      <4> HIDE DEF new
      <4> QED
        BY <2>1
    <3> QED
      BY <2>1, <3>1, <3>2
  <2>5. NotSpawned'
    BY <2>1, <2>2 DEF NotSpawned
  <2>6. \A i \in 1 .. Len(waiters) : waiters[i] \in Calls
    OBVIOUS
  <2>7. PermitHeld'
    BY <2>1, <2>3 DEF PermitHeld
  <2>8. WaitersQueued'
    <3>1. \A i \in 1 .. Len(waiters) : state'[waiters[i]] = "queued"
      <4> TAKE i \in 1 .. Len(waiters)
      <4>1. waiters[i] \in Calls /\ state[waiters[i]] = "queued"
        BY <2>6 DEF WaitersQueued
      <4> QED
        BY <2>3, <4>1
    <3> QED
      BY <2>1, <3>1 DEF WaitersQueued
  <2>9. ScopeOrder'
    <3>1. \A c \in Calls : state'[c] \in Admitted => state[c] \in Admitted
      BY <2>3 DEF Admitted, Ended
    <3>2. \A c \in Calls : state[c] \in Ended => state'[c] \in Ended
      BY <2>3 DEF Ended
    <3>3. \A t \in Scopes, j, k \in 1 .. MaxTasks :
             j < k /\ state'[<<t, k>>] \in Admitted => state'[<<t, j>>] \in Ended
      BY <2>2, <3>1, <3>2 DEF ScopeOrder
    <3>4. \A c, d \in Calls : state'[c] = "dispatching" /\ state'[d] = "dispatching" => c = d
      BY <2>3 DEF ScopeOrder
    <3> QED
      BY <3>3, <3>4 DEF ScopeOrder
  <2> QED
    BY <2>4, <2>5, <2>7, <2>8, <2>9
<1>2. ASSUME NEW s \in Scopes, CallDirectly(s) PROVE ScopeInv'
  <2>1. Direct(s) \in Calls /\ Acquire(Direct(s)) /\ state[Direct(s)] = "none"
        /\ UNCHANGED spawned
    BY <1>2 DEF CallDirectly, Calls
  <2>2. \A t \in Scopes, k \in 1 .. MaxTasks : <<t, k>> # Direct(s) /\ <<t, k>> \in Calls
    BY DEF Direct, Calls, Tasks
  <2> QED
    BY <2>1, <2>2, AcquireKeeps DEF NotSpawned, ScopeOrder
<1>3. ASSUME NEW s \in Scopes, NEW k \in 1 .. MaxTasks, TaskRuns(s, k) PROVE ScopeInv'
  <2>1. /\ <<s, k>> \in Calls /\ state[<<s, k>>] = "chained" /\ UNCHANGED spawned
        /\ k <= spawned[s]
    BY <1>3 DEF TaskRuns, Calls, Tasks, NotSpawned
  <2>2. \A j \in 1 .. MaxTasks : j < k => state[<<s, j>>] \in Ended
    <3> SUFFICES ASSUME NEW j \in 1 .. MaxTasks, j < k PROVE state[<<s, j>>] \in Ended
      OBVIOUS
    <3>1. k - 1 \in 1 .. MaxTasks /\ state[<<s, k - 1>>] \in Ended
      BY <1>3 DEF TaskRuns, Previous
    <3>2. CASE j < k - 1
      BY <3>1, <3>2 DEF ScopeOrder, Admitted
    <3> QED
      BY <3>1, <3>2
  <2>3. \A t \in Scopes, j \in 1 .. MaxTasks : <<t, j>> \in Calls
    BY DEF Calls, Tasks
  <2>4. CASE Acquire(<<s, k>>)
    <3>1. \A d \in Calls : d # <<s, k>> => state'[d] = state[d]
      BY <2>1, <2>4, AcquireKeeps
    <3>2. state'[<<s, k>>] \in {"queued", "dispatching"}
      BY <2>1, <2>4, AcquireKeeps
    <3>3. ScopeOrder'
      <4>1. \A j \in 1 .. MaxTasks : j < k => state'[<<s, j>>] \in Ended
        BY <2>2, <2>3, <3>1
      <4>2. \A t \in Scopes, i, j \in 1 .. MaxTasks :
               i < j /\ state'[<<t, j>>] \in Admitted => state'[<<t, i>>] \in Ended
        BY <2>1, <2>3, <3>1, <4>1 DEF ScopeOrder, Admitted, Ended
      <4>3. \A c, d \in Calls :
               state'[c] = "dispatching" /\ state'[d] = "dispatching" => c = d
        BY <2>1, <2>4, <3>1, AcquireKeeps DEF ScopeOrder
      <4> QED
        BY <4>2, <4>3 DEF ScopeOrder
    <3>4. NotSpawned'
      BY <2>1, <2>3, <3>1 DEF NotSpawned
    <3> QED
      BY <2>1, <2>4, <3>3, <3>4, AcquireKeeps
  <2>5. CASE state' = [state EXCEPT ![<<s, k>>] = "raised"] /\ UNCHANGED <<waiters, permit>>
    <3>1. /\ state'[<<s, k>>] = "raised"
          /\ \A d \in Calls : d # <<s, k>> => state'[d] = state[d]
          /\ state' \in [Calls -> {"none", "chained"} \cup Admitted]
      BY <2>1, <2>5 DEF Admitted, Ended
    <3>2. ScopeOrder'
      BY <2>1, <2>2, <2>3, <3>1 DEF ScopeOrder, Admitted, Ended
    <3>3. NotSpawned'
      BY <2>1, <2>3, <3>1 DEF NotSpawned
    <3>4. \A i \in 1 .. Len(waiters) : waiters[i] \in Calls
      OBVIOUS
    <3>5. PermitHeld' /\ WaitersQueued'
      BY <2>1, <2>5, <3>1, <3>4 DEF PermitHeld, WaitersQueued
    <3> QED
      BY <2>1, <2>5, <3>1, <3>2, <3>3, <3>5
  <2> QED
    BY <1>3, <2>4, <2>5 DEF TaskRuns
<1>4. ASSUME NEW c \in Calls, DispatchEnds(c) PROVE ScopeInv'
  <2>1. PICK result \in Ended :
          IF waiters = <<>>
          THEN /\ state' = [state EXCEPT ![c] = result]
               /\ permit' = TRUE /\ UNCHANGED waiters
          ELSE /\ state' = [state EXCEPT ![c] = result, ![Head(waiters)] = "dispatching"]
               /\ waiters' = Tail(waiters) /\ UNCHANGED permit
    BY <1>4 DEF DispatchEnds
  <2>2. state[c] = "dispatching" /\ UNCHANGED spawned /\ ~ permit
    BY <1>4 DEF DispatchEnds, PermitHeld
  <2>3. \A t \in Scopes, j \in 1 .. MaxTasks : <<t, j>> \in Calls
    BY DEF Calls, Tasks
  <2>4. CASE waiters = <<>>
    BY <2>1, <2>2, <2>3, <2>4
    DEF NotSpawned, ScopeOrder, PermitHeld, WaitersQueued, Admitted, Ended
  <2>5. CASE waiters # <<>>
    <3>1. /\ Head(waiters) = waiters[1] /\ waiters[1] \in Calls /\ 1 \in 1 .. Len(waiters)
          /\ Len(Tail(waiters)) = Len(waiters) - 1 /\ Tail(waiters) \in Seq(Calls)
          /\ \A i \in 1 .. Len(waiters) - 1 : Tail(waiters)[i] = waiters[i + 1]
      BY <2>5
    <3>2. state[waiters[1]] = "queued" /\ waiters[1] # c
      BY <2>2, <3>1 DEF WaitersQueued
    <3>3. /\ state' = [state EXCEPT ![c] = result, ![waiters[1]] = "dispatching"]
          /\ waiters' = Tail(waiters) /\ UNCHANGED permit
      BY <2>1, <2>5, <3>1
    <3>4. /\ state'[c] \in Ended /\ state'[waiters[1]] = "dispatching"
          /\ \A d \in Calls : d # c /\ d # waiters[1] => state'[d] = state[d]
          /\ state' \in [Calls -> {"none", "chained"} \cup Admitted]
      BY <3>1, <3>2, <3>3 DEF Admitted, Ended
    <3>5. WaitersQueued'
      <4>1. \A i \in 1 .. Len(waiters') :
               /\ i + 1 \in 1 .. Len(waiters) /\ waiters'[i] = waiters[i + 1]
               /\ waiters[i + 1] \in Calls
        BY <3>1, <3>3
      <4> QED
        BY <2>2, <3>1, <3>4, <4>1 DEF WaitersQueued
    <3>6. ScopeOrder'
      BY <2>2, <2>3, <3>1, <3>2, <3>4 DEF ScopeOrder, Admitted, Ended
    <3>7. NotSpawned'
      BY <2>2, <2>3, <3>2, <3>4 DEF NotSpawned
    <3> QED
      BY <2>2, <3>1, <3>3, <3>4, <3>5, <3>6, <3>7 DEF PermitHeld
  <2> QED
    BY <2>4, <2>5
<1>5. ASSUME UNCHANGED <<spawned, state, waiters, permit>> PROVE ScopeInv'
  BY <1>5 DEF PermitHeld, WaitersQueued, NotSpawned, ScopeOrder
<1> QED
  BY <1>1, <1>2, <1>3, <1>4, <1>5
  DEF ScopeNext, Runtime, Called, Joined, ScopeReturns, BodyEnds, Join

(* Calls of a scope are admitted to the permit in the order they were      *)
(* spawned in, and one at a time dispatches, for every number of scopes    *)
(* and of calls (ThreadScope::spawn, thread_pool.mbt).                     *)
THEOREM ScopeOrderHolds == Spec => []ScopeOrder
<1>1. Init => ScopeInv
  BY ScopeStarts DEF Init
<1>2. ScopeInv /\ [Next]_vars => ScopeInv'
  <2> SUFFICES ASSUME ScopeInv, [Next]_vars PROVE ScopeInv'
    OBVIOUS
  <2>1. ScopeNext \/ UNCHANGED scopeVars
    BY DEF Next, vars, ArenaClient, JsonClient, ScopeClient
  <2>2. CASE UNCHANGED scopeVars
    BY <2>2 DEF scopeVars, ScopeInv, ScopeTypes, PermitHeld, WaitersQueued, NotSpawned,
                ScopeOrder
  <2> QED
    BY <2>1, <2>2, ScopeStep
<1>3. ScopeInv => ScopeOrder
  BY DEF ScopeInv
<1> QED
  BY <1>1, <1>2, <1>3, PTL DEF Spec

-----------------------------------------------------------------------------
(* The mailbox: the inductive invariant of ResponseMatches.                *)

MailboxTypes ==
    /\ hpc \in {"idle", "waiting"}
    /\ gpc \in {"idle", "parse", "reply", "answer", "done", "dead"}
    /\ post \in Nat /\ taken \in Nat /\ served \in Nat /\ lost \in Nat
    /\ asked \in Requests \cup {"empty"}

(* A pool that has failed or was closed has no Worker, and only a call     *)
(* that is waiting is in the way of the next.                              *)
DownIsDead == down => gpc = "dead"
BusyWaits  == guestBusy <=> hpc = "waiting"

AnswerFits == Size[Response[asked]] <= PayloadBytes

(* How far the Guest has come with the call the Host waits for, as long as *)
(* no dispatch was given up: what each of its steps leaves to the next.    *)
Asked   == taken = post - 1 /\ served = post - 1
Posted  == Asked /\ payload = asked /\ reqLen = Size[asked]
Taken   == taken = post /\ served = post - 1
Replied == /\ respLen = IF AnswerFits THEN Size[Response[asked]] ELSE 0
           /\ status = IF AnswerFits THEN "ok" ELSE "error"
           /\ AnswerFits => payload = Response[asked]
Progress ==
    CASE gpc = "idle"   -> Posted \/ (taken = post /\ served = post /\ Replied)
      [] gpc = "parse"  -> Taken /\ payload = asked /\ reqLen = Size[asked]
      [] gpc = "reply"  -> Taken /\ working = asked
      [] gpc = "answer" -> Taken /\ working = asked /\ (AnswerFits => payload = Response[asked])
      [] gpc = "done"   -> Taken /\ Replied
      [] gpc = "dead"   -> down \/ Taken

(* One request at a time is in the mailbox: the Guest is at it, or between *)
(* two of them.                                                            *)
MailboxTurns ==
    lost = 0 =>
       /\ hpc = "waiting" => asked \in Requests /\ Size[asked] <= PayloadBytes /\ Progress
       /\ hpc = "idle" => IF gpc = "dead" THEN down
                          ELSE gpc = "idle" /\ taken = post /\ served = post

MailboxInv == /\ MailboxTypes /\ DownIsDead /\ BusyWaits /\ MailboxTurns
              /\ ResponseMatches

LEMMA PayloadNat == PayloadBytes \in Nat
<1>1. (MailboxBytes + 3) \div 4 \in Nat
  BY MailboxAssumption
<1> QED
  BY <1>1 DEF PayloadBytes

LEMMA MailboxStarts == ASSUME MailboxInit PROVE MailboxInv
  BY DEF MailboxInit, MailboxInv, MailboxTypes, DownIsDead, BusyWaits, MailboxTurns,
         ResponseMatches

LEMMA MailboxStep == ASSUME MailboxInv, MailboxNext PROVE MailboxInv'
<1> USE MailboxAssumption DEF MailboxInv, MailboxTypes, DownIsDead, BusyWaits, MailboxTurns
<1>1. ASSUME NEW r \in Requests, BeginCall(r) PROVE MailboxInv'
  <2>1. /\ ~ guestBusy /\ asked' = r /\ UNCHANGED <<down, lost, gpc, taken, served>>
        /\ hpc = "idle"
    BY <1>1 DEF BeginCall, guestVars
  <2>2. CASE Size[r] > PayloadBytes
    <3>1. /\ answer' = <<"capacity">> /\ guestBusy' = FALSE /\ hpc' = "idle" /\ post' = post
      BY <1>1, <2>2 DEF BeginCall, Finish
    <3>2. answer'[1] = "capacity"
      BY <3>1
    <3> QED
      BY <2>1, <3>1, <3>2 DEF ResponseMatches
  <2>3. CASE ~ (Size[r] > PayloadBytes) /\ down
    <3>1. /\ answer' = <<"transport">> /\ guestBusy' = FALSE /\ hpc' = "idle" /\ post' = post
      BY <1>1, <2>3 DEF BeginCall, Finish
    <3>2. answer'[1] = "transport"
      BY <3>1
    <3> QED
      BY <2>1, <2>3, <3>1, <3>2 DEF ResponseMatches
  <2>4. CASE ~ (Size[r] > PayloadBytes) /\ ~ down
    <3>1. /\ guestBusy' = TRUE /\ hpc' = "waiting" /\ post' = post + 1
          /\ payload' = r /\ reqLen' = Size[r]
      BY <1>1, <2>4 DEF BeginCall
    <3>2. Size[r] \in Nat /\ PayloadBytes \in Nat
      BY PayloadNat DEF Texts
    <3>3. Size[r] <= PayloadBytes
      BY <2>4, <3>2
    <3>4. ASSUME lost = 0 PROVE Progress'
      <4>1. gpc = "idle" /\ taken = post /\ served = post
        BY <2>1, <2>4, <3>4
      <4> QED
        BY <2>1, <3>1, <4>1 DEF Progress, Posted, Asked
    <3>5. MailboxTurns'
      BY <2>1, <3>1, <3>3, <3>4
    <3>6. MailboxTypes' /\ DownIsDead' /\ BusyWaits'
      BY <2>1, <3>1
    <3>7. ResponseMatches'
      BY <3>1 DEF ResponseMatches
    <3> QED
      BY <3>5, <3>6, <3>7
  <2> QED
    BY <2>2, <2>3, <2>4
<1>2. CASE BusyCall
  BY <1>2 DEF BusyCall, mailbox, guestVars, Progress, Posted, Asked, Taken, Replied,
              AnswerFits, ResponseMatches
<1>3. CASE FinishCall
  <2>1. /\ ~ down /\ served = post /\ hpc' = "idle" /\ ~ guestBusy' /\ hpc = "waiting"
        /\ UNCHANGED <<mailbox, guestVars, down, post, asked, calls, lost>>
    BY <1>3 DEF FinishCall, Finish
  <2>2. ASSUME lost = 0 PROVE gpc = "idle" /\ Replied /\ taken = post /\ asked \in Requests
    <3>1. Progress /\ asked \in Requests
      BY <2>1, <2>2
    <3>2. served # post - 1
      BY <2>1
    <3>3. ~ Taken /\ ~ Posted
      BY <3>2 DEF Taken, Posted, Asked
    <3> QED
      BY <2>1, <3>1, <3>3 DEF Progress
  <2>3. ASSUME lost = 0
        PROVE  /\ answer'[1] = "ok" => answer'[2] = Response[asked]
               /\ answer'[1] = "guest failed" => Size[Response[asked]] > PayloadBytes
               /\ answer'[1] = "transport" => Size[Response[asked]] > MailboxBytes
    <3>1. Response[asked] \in Texts /\ Size[Response[asked]] \in Nat
      BY <2>2, <2>3 DEF Texts
    <3>4. PayloadBytes \in Nat
      BY PayloadNat
    <3>2. CASE AnswerFits
      BY <1>3, <2>2, <2>3, <3>1, <3>2 DEF FinishCall, Finish, Replied, ReadText
    <3>3. CASE ~ AnswerFits
      <4>1. respLen = 0 /\ status = "error" /\ ~ (respLen < 0 \/ respLen > MailboxBytes)
        BY <2>2, <2>3, <3>3 DEF Replied
      <4>2. answer' = <<"guest failed">>
        BY <1>3, <4>1 DEF FinishCall, Finish
      <4>3. answer'[1] = "guest failed"
        BY <4>2
      <4>4. Size[Response[asked]] > PayloadBytes
        BY <3>1, <3>3, <3>4 DEF AnswerFits
      <4> QED
        BY <4>3, <4>4
    <3> QED
      BY <3>2, <3>3
  <2> QED
    BY <2>1, <2>2, <2>3 DEF mailbox, guestVars, ResponseMatches
<1>4. CASE DispatchFailed
  BY <1>4 DEF DispatchFailed, Finish, mailbox, guestVars, ResponseMatches
<1>5. CASE DispatchTimeout
  BY <1>5 DEF DispatchTimeout, Finish, mailbox, guestVars, ResponseMatches
<1>6. CASE CloseGuest
  BY <1>6 DEF CloseGuest, mailbox, Progress, ResponseMatches
<1>7. CASE GuestStep
  <2> USE DEF hostVars, mailbox, ResponseMatches
  <2>1. CASE TakeCall
    BY <1>7, <2>1 DEF TakeCall, Progress, Posted, Asked, Taken
  <2>2. CASE ParseRequest
    <3>1. ASSUME lost = 0, hpc = "waiting" PROVE working' = asked
      <4>1. Progress /\ asked \in Requests /\ Size[asked] <= PayloadBytes
        BY <3>1
      <4>2. payload = asked /\ reqLen = Size[asked]
        BY <2>2, <4>1 DEF ParseRequest, Progress
      <4>3. Size[asked] \in Nat
        BY <4>1 DEF Texts
      <4>4. ~ (reqLen < 0 \/ reqLen > PayloadBytes)
        <5> HIDE DEF MailboxInv
        <5> QED
          BY <4>1, <4>2, <4>3, PayloadNat
      <4> QED
        BY <2>2, <4>2, <4>4 DEF ParseRequest, ReadText
    <3> QED
      BY <2>2, <3>1 DEF ParseRequest, Progress, Taken
  <2>3. CASE WriteReply
    BY <2>3 DEF WriteReply, Progress, Taken, Reply, ReplyFits, AnswerFits
  <2>4. CASE WriteStatus
    BY <2>4 DEF WriteStatus, Progress, Taken, Replied, Reply, ReplyFits, AnswerFits
  <2>5. CASE Acknowledge
    BY <2>5 DEF Acknowledge, Progress, Taken, Replied, AnswerFits
  <2> QED
    BY <1>7, <2>1, <2>2, <2>3, <2>4, <2>5 DEF GuestStep
<1> QED
  BY <1>1, <1>2, <1>3, <1>4, <1>5, <1>6, <1>7 DEF MailboxNext

(* For every handler, every size of its texts and of the mailbox: until a  *)
(* dispatch times out, a call that ends well has the answer to its own     *)
(* request (JsonGuest::call and serve_json, json_contract.mbt).            *)
THEOREM ResponseMatchesHolds == Spec => []ResponseMatches
<1>1. Init => MailboxInv
  BY MailboxStarts DEF Init
<1>2. MailboxInv /\ [Next]_vars => MailboxInv'
  <2> SUFFICES ASSUME MailboxInv, [Next]_vars PROVE MailboxInv'
    OBVIOUS
  <2>1. MailboxNext \/ UNCHANGED mailboxVars
    BY DEF Next, vars, ArenaClient, JsonClient, ScopeClient
  <2>2. CASE UNCHANGED mailboxVars
    BY <2>2 DEF mailboxVars, hostVars, guestVars, mailbox, MailboxInv, MailboxTypes,
                DownIsDead, BusyWaits, MailboxTurns, ResponseMatches, Progress, Posted,
                Asked, Taken, Replied, AnswerFits
  <2> QED
    BY <2>1, <2>2, MailboxStep
<1>3. MailboxInv => ResponseMatches
  BY DEF MailboxInv
<1> QED
  BY <1>1, <1>2, <1>3, PTL DEF Spec
=============================================================================
