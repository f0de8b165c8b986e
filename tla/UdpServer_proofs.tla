--------------------------- MODULE UdpServer_proofs ---------------------------
(* Proofs about the request queue of the daemon, for any pool and any bound. *)
EXTENDS UdpServer, TLAPS, SequenceTheorems, FiniteSetTheorems

\* Taking the first element of q moves it from the front of q to the end of p.
LEMMA ConcatMove ==
  ASSUME NEW p \in Seq(Requests), NEW q \in Seq(Requests), q # <<>>
  PROVE  /\ Tail(q) \in Seq(Requests)
         /\ Head(q) \in Requests
         /\ p \o q = Append(p, Head(q)) \o Tail(q)
         /\ Len(Tail(q)) = Len(q) - 1
<1>1. Len(q) \in Nat \ {0}
  BY EmptySeq
<1>2. Len(Tail(q)) = Len(q) - 1 /\ Tail(q) \in Seq(Requests) /\ Head(q) \in Requests
  BY <1>1
<1>3. Append(p, Head(q)) \in Seq(Requests) /\ Len(Append(p, Head(q))) = Len(p) + 1
  BY <1>2
<1>4. p \o q = Append(p, Head(q)) \o Tail(q)
  BY <1>1, <1>2, <1>3
<1>. QED  BY <1>2, <1>4

\* Appending to the second part of a concatenation appends to the whole.
LEMMA ConcatAppend ==
  ASSUME NEW p \in Seq(Requests), NEW q \in Seq(Requests), NEW e \in Requests
  PROVE  /\ Append(q, e) \in Seq(Requests)
         /\ Append(p \o q, e) = p \o Append(q, e)
         /\ Len(Append(q, e)) = Len(q) + 1
         /\ Append(q, e) # <<>>
  OBVIOUS

-----------------------------------------------------------------------------

\* The variables of the daemon keep their types, and no thread keeps a pointer
\* to a request it does not own, in any pool.
THEOREM TypeCorrect == Spec => []TypeOK
<1>. USE DEF TypeOK, Places
<1>1. Init => TypeOK
  <2>. SUFFICES ASSUME Init PROVE TypeOK
    OBVIOUS
  <2>1. m_vQueue \in Seq(Requests) /\ accepted \in Seq(Requests) /\ taken \in Seq(Requests)
    BY DEF Init
  <2>2. callCount \in Nat /\ reported \in Nat
    BY DEF Init
  <2>. QED  BY <2>1, <2>2, Zenon DEF Init
<1>2. TypeOK /\ [Next]_vars => TypeOK'
  <2>. SUFFICES ASSUME TypeOK, [Next]_vars PROVE TypeOK'
    OBVIOUS
  <2>. USE DEF QueueVars, ListenerVars, WorkerVars, StopVars, MonitorVars, Goto
  <2>1. ASSUME NEW r \in Requests, Receive(r) PROVE TypeOK'
    <3>1. pRequest' = {r} /\ pRequest' # {} /\ listener' = "add"
      BY <2>1 DEF Receive
    <3>2. arrived' \in SUBSET Requests /\ pRequest' \in SUBSET Requests
      BY <2>1 DEF Receive
    <3>3. callCount' \in Nat
      BY <2>1 DEF Receive
    <3>. QED  BY <2>1, <3>1, <3>2, <3>3 DEF Receive
  <2>2. CASE FailReceive
    BY <2>2 DEF FailReceive
  <2>3. CASE AddToQueue
    <3>0. \/ m_vQueue' = m_vQueue /\ accepted' = accepted
          \/ \E r \in Requests : m_vQueue' = Append(m_vQueue, r) /\ accepted' = Append(accepted, r)
      <4>1. pRequest \subseteq Requests
        OBVIOUS
      <4>. HIDE DEF TypeOK
      <4>. QED  BY <2>3, <4>1, Zenon DEF AddToQueue
    <3>1. m_vQueue' \in Seq(Requests) /\ accepted' \in Seq(Requests)
      <4>1. m_vQueue \in Seq(Requests) /\ accepted \in Seq(Requests)
        OBVIOUS
      <4>. HIDE DEF TypeOK
      <4>2. ASSUME NEW r \in Requests
            PROVE  /\ Append(m_vQueue, r) \in Seq(Requests)
                   /\ Append(accepted, r) \in Seq(Requests)
        BY <4>1, AppendProperties
      <4>. QED  BY <3>0, <4>1, <4>2, Zenon
    <3>2. /\ worker' \in [Threads -> Places]
          /\ \A t \in Threads : worker'[t] = "process" <=> worker[t] = "process"
      BY <2>3 DEF AddToQueue, Broadcast
    <3>3. /\ listener' = "recv" /\ pRequest' = {}
          /\ UNCHANGED <<arrived, pItem, taken, processed, StopVars, MonitorVars>>
      BY <2>3 DEF AddToQueue
    <3>. QED  BY <3>1, <3>2, <3>3
  <2>4. CASE StopListening
    BY <2>4 DEF StopListening
  <2>5. ASSUME NEW t \in Threads, WorkerStep(t) \/ WakeSpuriously(t)
        PROVE TypeOK'
    <3>1. CASE WaitForRequest(t)
      BY <3>1 DEF WaitForRequest
    <3>2. CASE TestShutDown(t)
      BY <3>2 DEF TestShutDown
    <3>3. CASE Take(t)
      <4>1. Tail(m_vQueue) \in Seq(Requests) /\ Head(m_vQueue) \in Requests
        BY <3>3, ConcatMove DEF Take
      <4>. QED  BY <3>3, <4>1 DEF Take, Erase
    <3>4. CASE EndDrain(t)
      BY <3>4 DEF EndDrain
    <3>5. CASE Process(t)
      BY <3>5 DEF Process, ItemAfterProcess
    <3>6. CASE WakeSpuriously(t)
      BY <3>6 DEF WakeSpuriously
    <3>. QED  BY <2>5, <3>1, <3>2, <3>3, <3>4, <3>5, <3>6 DEF WorkerStep
  <2>6. CASE Report
    BY <2>6 DEF Report, CountAfterReport
  <2>7. CASE StopMonitor
    BY <2>7 DEF StopMonitor
  <2>8. CASE SetFlag
    BY <2>8 DEF SetFlag
  <2>9. CASE CloseSocket
    BY <2>9 DEF CloseSocket, SocketAfterClose
  <2>10. CASE BroadcastShutDown
    BY <2>10 DEF BroadcastShutDown, Broadcast
  <2>11. CASE UNCHANGED vars
    BY <2>11 DEF vars
  <2>. QED
    BY <2>1, <2>2, <2>3, <2>4, <2>5, <2>6, <2>7, <2>8, <2>9, <2>10, <2>11
    DEF Next, ListenerStep, StopStep
<1>. QED  BY <1>1, <1>2, PTL DEF Spec

-----------------------------------------------------------------------------

\* What the queue promises, as one inductive invariant.
QueueInv == QueueIsFifo /\ NoSleeperWhileQueued /\ QueueBounded

LEMMA QueueInvInit == Init => QueueInv
  BY MaxQueueAssumption
  DEF Init, QueueInv, QueueIsFifo, NoSleeperWhileQueued, QueueBounded

\* Queueing a request: it goes to the end of the history and of the queue, every
\* sleeper is woken, and the bound is tested first.
LEMMA AddKeepsQueueInv ==
  ASSUME TypeOK, QueueInv, AddToQueue
  PROVE  QueueInv'
<1>1. CASE QueueIsFull /\ UNCHANGED <<QueueVars, worker>>
  BY <1>1, AddToQueue
  DEF AddToQueue, QueueVars, QueueInv, QueueIsFifo, NoSleeperWhileQueued,
      QueueBounded, Waiting, WorkerVars
<1>2. ASSUME NEW r \in pRequest,
             ~QueueIsFull,
             m_vQueue' = Append(m_vQueue, r),
             accepted' = Append(accepted, r),
             worker' = Broadcast
      PROVE  QueueInv'
  <2>1. r \in Requests /\ m_vQueue \in Seq(Requests) /\ taken \in Seq(Requests)
    BY <1>2 DEF TypeOK
  <2>2. QueueIsFifo'
    <3>1. taken' = taken
      BY AddToQueue DEF AddToQueue
    <3>2. accepted = taken \o m_vQueue
      BY DEF QueueInv, QueueIsFifo
    <3>3. Append(taken \o m_vQueue, r) = taken \o Append(m_vQueue, r)
      BY <2>1, ConcatAppend
    <3>. QED  BY <1>2, <3>1, <3>2, <3>3, Zenon DEF QueueIsFifo
  <2>3. NoSleeperWhileQueued'
    BY <1>2 DEF NoSleeperWhileQueued, Waiting, Broadcast
  <2>4. QueueBounded'
    BY <1>2, <2>1, ConcatAppend, MaxQueueAssumption DEF QueueBounded, QueueIsFull
  <2>. QED  BY <2>2, <2>3, <2>4 DEF QueueInv
<1>. QED  BY <1>1, <1>2, AddToQueue DEF AddToQueue

\* Taking a request moves it from the queue to the history.
LEMMA TakeKeepsQueueInv ==
  ASSUME TypeOK, QueueInv, NEW t \in Threads, Take(t)
  PROVE  QueueInv'
<1>1. /\ m_vQueue \in Seq(Requests) /\ taken \in Seq(Requests)
      /\ m_vQueue # <<>>
      /\ m_vQueue' = Tail(m_vQueue)
      /\ taken' = Append(taken, Head(m_vQueue))
      /\ accepted' = accepted
  BY DEF TypeOK, Take, Erase
<1>2. QueueIsFifo'
  BY <1>1, ConcatMove DEF QueueInv, QueueIsFifo
<1>3. NoSleeperWhileQueued'
  <2>1. Waiting' \subseteq Waiting
    BY DEF Waiting, Take, Goto, TypeOK
  <2>. QED  BY <1>1, <2>1 DEF NoSleeperWhileQueued, QueueInv
<1>4. QueueBounded'
  BY <1>1, ConcatMove, MaxQueueAssumption DEF QueueInv, QueueBounded
<1>. QED  BY <1>2, <1>3, <1>4 DEF QueueInv

\* A worker that neither takes nor sleeps leaves the queue as it is and adds no
\* sleeper; one that goes to sleep finds the queue empty.
LEMMA WorkerKeepsQueueInv ==
  ASSUME TypeOK, QueueInv, NEW t \in Threads, WorkerStep(t) \/ WakeSpuriously(t)
  PROVE  QueueInv'
<1>. USE DEF QueueVars, ListenerVars, Goto
<1>1. CASE WaitForRequest(t)
  BY <1>1 DEF WaitForRequest, QueueInv, QueueIsFifo, NoSleeperWhileQueued, QueueBounded
<1>2. CASE Take(t)
  BY <1>2, TakeKeepsQueueInv
<1>3. CASE TestShutDown(t) \/ EndDrain(t) \/ Process(t) \/ WakeSpuriously(t)
  <2>1. UNCHANGED <<m_vQueue, accepted, taken>>
    BY <1>3 DEF TestShutDown, EndDrain, Process, WakeSpuriously
  <2>2. Waiting' \subseteq Waiting
    BY <1>3 DEF TestShutDown, EndDrain, Process, WakeSpuriously, Waiting, TypeOK
  <2>. QED
    BY <2>1, <2>2 DEF QueueInv, QueueIsFifo, NoSleeperWhileQueued, QueueBounded
<1>. QED  BY <1>1, <1>2, <1>3 DEF WorkerStep

LEMMA StepKeepsQueueInv == TypeOK /\ QueueInv /\ [Next]_vars => QueueInv'
<1>. SUFFICES ASSUME TypeOK, QueueInv, [Next]_vars PROVE QueueInv'
  OBVIOUS
<1>1. CASE AddToQueue
  BY <1>1, AddKeepsQueueInv
<1>2. CASE \E t \in Threads : WorkerStep(t) \/ WakeSpuriously(t)
  BY <1>2, WorkerKeepsQueueInv
<1>3. CASE BroadcastShutDown
  BY <1>3
  DEF BroadcastShutDown, Broadcast, QueueVars, QueueInv, QueueIsFifo,
      NoSleeperWhileQueued, QueueBounded, Waiting
<1>4. CASE \/ \E r \in Requests : Receive(r)
           \/ FailReceive \/ StopListening \/ Report \/ StopMonitor
           \/ SetFlag \/ CloseSocket \/ UNCHANGED vars
  <2>1. UNCHANGED <<m_vQueue, accepted, taken, worker>>
    BY <1>4
    DEF Receive, FailReceive, StopListening, Report, StopMonitor, SetFlag,
        CloseSocket, vars, QueueVars, WorkerVars
  <2>. QED
    BY <2>1 DEF QueueInv, QueueIsFifo, NoSleeperWhileQueued, QueueBounded, Waiting
<1>. QED  BY <1>1, <1>2, <1>3, <1>4 DEF Next, ListenerStep, StopStep

\* Requests leave the queue in the order they entered it, none lost, none twice.
THEOREM Fifo == Spec => []QueueIsFifo
  BY TypeCorrect, QueueInvInit, StepKeepsQueueInv, PTL DEF Spec, QueueInv

\* No worker sleeps while a request is queued.
THEOREM NoLostWakeup == Spec => []NoSleeperWhileQueued
  BY TypeCorrect, QueueInvInit, StepKeepsQueueInv, PTL DEF Spec, QueueInv

\* The queue holds at most MAX_QUEUE_ITEMS_COUNT + 1 requests.
THEOREM Bounded == Spec => []QueueBounded
  BY TypeCorrect, QueueInvInit, StepKeepsQueueInv, PTL DEF Spec, QueueInv

-----------------------------------------------------------------------------

\* The requests received are finitely many, which Cardinality needs.
CallsInv == IsFiniteSet(arrived) /\ CallsAccounted

\* No call is counted twice or lost between the listener and the monitor.
THEOREM CallsExact == Spec => []CallsAccounted
<1>1. Init => CallsInv
  BY FS_EmptySet DEF Init, CallsInv, CallsAccounted
<1>2. TypeOK /\ CallsInv /\ [Next]_vars => CallsInv'
  <2>. SUFFICES ASSUME TypeOK, CallsInv, [Next]_vars PROVE CallsInv'
    OBVIOUS
  <2>0. callCount \in Nat /\ reported \in Nat /\ Cardinality(arrived) \in Nat
    BY FS_CardinalityType DEF TypeOK, CallsInv
  <2>1. ASSUME NEW r \in Requests, Receive(r) PROVE CallsInv'
    <3>1. r \notin arrived /\ arrived' = arrived \cup {r}
      BY <2>1 DEF Receive
    <3>2. IsFiniteSet(arrived') /\ Cardinality(arrived') = Cardinality(arrived) + 1
      BY <3>1, FS_AddElement DEF CallsInv
    <3>3. callCount' = callCount + 1 /\ reported' = reported
      BY <2>1 DEF Receive
    <3>. QED  BY <2>0, <3>2, <3>3 DEF CallsInv, CallsAccounted
  <2>2. CASE Report
    <3>1. arrived' = arrived /\ reported' = reported + callCount /\ callCount' = 0
      BY <2>2 DEF Report, ListenerVars, CountAfterReport
    <3>. QED  BY <2>0, <3>1 DEF CallsInv, CallsAccounted
  <2>3. CASE \/ FailReceive \/ ListenerStep \/ StopMonitor \/ SetFlag \/ StopStep
             \/ \E t \in Threads : WorkerStep(t) \/ WakeSpuriously(t)
             \/ UNCHANGED vars
    <3>1. UNCHANGED <<arrived, callCount, reported>>
      BY <2>3
      DEF FailReceive, ListenerStep, AddToQueue, StopListening, StopMonitor,
          SetFlag, StopStep, CloseSocket, BroadcastShutDown, WorkerStep,
          WaitForRequest, TestShutDown, Take, EndDrain, Process, WakeSpuriously,
          vars, ListenerVars, MonitorVars
    <3>. QED  BY <3>1 DEF CallsInv, CallsAccounted
  <2>. QED  BY <2>1, <2>2, <2>3 DEF Next
<1>. QED  BY <1>1, <1>2, TypeCorrect, PTL DEF Spec, CallsInv
=============================================================================
