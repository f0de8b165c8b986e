------------------------------ MODULE UdpServer ------------------------------
(***************************************************************************)
(* The request queue of the daemon: one listener thread that receives      *)
(* datagrams and queues them, a pool of worker threads that drain the      *)
(* queue, the monitor thread, and the shutdown sequence (zsd/src/          *)
(* UdpServer.cpp).                                                         *)
(*                                                                         *)
(* Every access to m_vQueue is made between a lock and an unlock of        *)
(* m_Mutex, so a locked section is one step here.  m_bShutDown is written  *)
(* and read without a common lock, so its write, the close of the socket   *)
(* and the broadcast of ShutDown() are three steps.  pthread_cond_wait     *)
(* may return without a broadcast (WakeSpuriously).                        *)
(***************************************************************************)
EXTENDS Naturals, Sequences, FiniteSets

CONSTANTS
  Threads,    \* the worker threads of the pool (Thread.Pool.Size of them)
  Requests,   \* the datagrams that clients send, each of them received at most once
  MaxQueue    \* MAX_QUEUE_ITEMS_COUNT

ASSUME ThreadsAssumption == Threads # {} /\ IsFiniteSet(Threads)
ASSUME MaxQueueAssumption == MaxQueue \in Nat

VARIABLES
  m_vQueue,     \* the queued requests, oldest first
  m_bShutDown,  \* set by ShutDown(), never reset
  m_Socket,     \* "open" or "closed"
  listener,     \* where the listener is in Run()
  pRequest,     \* the request the listener is about to queue (a set of at most one)
  worker,       \* where each worker is in ProcFunc()
  pItem,        \* the request each worker holds (a set of at most one)
  monitor,      \* where the monitor is in ProcMonitorFunc()
  callCount,    \* m_nMonitorCallsCount
  stopper,      \* where the thread that runs ShutDown() is
  arrived,      \* history: the requests received
  accepted,     \* history: the requests queued, in the order they were
  taken,        \* history: the requests taken by workers, in the order they were
  processed,    \* history: the requests whose processing has ended
  reported      \* history: the calls the monitor has reported

vars == <<m_vQueue, m_bShutDown, m_Socket, listener, pRequest, worker, pItem,
          monitor, callCount, stopper, arrived, accepted, taken, processed,
          reported>>

ListenerVars == <<listener, pRequest, arrived>>
WorkerVars == <<worker, pItem, taken, processed>>
QueueVars == <<m_vQueue, accepted>>
StopVars == <<m_bShutDown, m_Socket, stopper>>
MonitorVars == <<monitor, callCount, reported>>

Waiting == {t \in Threads : worker[t] = "wait"}

Init ==
  /\ m_vQueue = <<>>
  /\ m_bShutDown = FALSE
  /\ m_Socket = "open"
  /\ listener = "recv"
  /\ pRequest = {}
  /\ worker = [t \in Threads |-> "outer"]
  /\ pItem = [t \in Threads |-> {}]
  /\ monitor = "sleep"
  /\ callCount = 0
  /\ stopper = "idle"
  /\ arrived = {}
  /\ accepted = <<>>
  /\ taken = <<>>
  /\ processed = {}
  /\ reported = 0

-----------------------------------------------------------------------------
(* The listener: CUdpServer::Run and AddToQueue *)

\* recvfrom() returns a datagram, the flag is read once more, the call is
\* counted under m_MutexMonitorCall and the datagram is copied.
Receive(r) ==
  /\ listener = "recv"
  /\ ~m_bShutDown
  /\ r \notin arrived
  /\ arrived' = arrived \cup {r}
  /\ callCount' = callCount + 1
  /\ pRequest' = {r}
  /\ listener' = "add"
  /\ UNCHANGED <<QueueVars, WorkerVars, StopVars, monitor, reported>>

\* recvfrom() returns because the socket was closed under it, or with a
\* datagram that comes too late, and the flag is set.
StopListening ==
  /\ listener = "recv"
  /\ m_bShutDown
  /\ m_Socket = "closed" \/ arrived # Requests
  /\ listener' = "exit"
  /\ UNCHANGED <<pRequest, arrived, QueueVars, WorkerVars, StopVars, MonitorVars>>

\* recvfrom() fails: Run() returns without setting m_bShutDown.
FailReceive ==
  /\ listener = "recv"
  /\ ~m_bShutDown
  /\ listener' = "exit"
  /\ UNCHANGED <<pRequest, arrived, QueueVars, WorkerVars, StopVars, MonitorVars>>

QueueIsFull_Never == FALSE
\* The bound is compared with > before the insertion.
QueueIsFull == Len(m_vQueue) > MaxQueue

Broadcast_None == worker
\* pthread_cond_broadcast: every waiting thread may go on.
Broadcast == [t \in Threads |-> IF worker[t] = "wait" THEN "woken" ELSE worker[t]]

AddToQueue ==
  /\ listener = "add"
  /\ listener' = "recv"
  /\ pRequest' = {}
  /\ \/ /\ QueueIsFull
        /\ UNCHANGED <<QueueVars, worker>>
     \/ /\ ~QueueIsFull
        /\ \E r \in pRequest :
             /\ m_vQueue' = Append(m_vQueue, r)
             /\ accepted' = Append(accepted, r)
        /\ worker' = Broadcast
  /\ UNCHANGED <<arrived, pItem, taken, processed, StopVars, MonitorVars>>

-----------------------------------------------------------------------------
(* A worker: ProcFunc *)

Goto(t, place) == worker' = [worker EXCEPT ![t] = place]

\* The locked section that starts the outer loop, when there is no request:
\* the thread waits, whatever the flag says.
WaitForRequest(t) ==
  /\ worker[t] = "outer"
  /\ m_vQueue = <<>>
  /\ Goto(t, "wait")
  /\ UNCHANGED <<pItem, taken, processed, QueueVars, ListenerVars, StopVars, MonitorVars>>

WakeSpuriously(t) ==
  /\ worker[t] = "wait"
  /\ Goto(t, "woken")
  /\ UNCHANGED <<pItem, taken, processed, QueueVars, ListenerVars, StopVars, MonitorVars>>

\* The end of that section: the flag is tested and the mutex released.
TestShutDown(t) ==
  /\ \/ worker[t] = "outer" /\ m_vQueue # <<>>
     \/ worker[t] = "woken"
  /\ Goto(t, IF m_bShutDown THEN "exit" ELSE "drain")
  /\ UNCHANGED <<pItem, taken, processed, QueueVars, ListenerVars, StopVars, MonitorVars>>

Erase_Last(q) == SubSeq(q, 1, Len(q) - 1)
\* Queue.erase(Queue.begin())
Erase(q) == Tail(q)

Take(t) ==
  /\ worker[t] = "drain"
  /\ m_vQueue # <<>>
  /\ pItem' = [pItem EXCEPT ![t] = {Head(m_vQueue)}]
  /\ taken' = Append(taken, Head(m_vQueue))
  /\ m_vQueue' = Erase(m_vQueue)
  /\ Goto(t, "process")
  /\ UNCHANGED <<accepted, processed, ListenerVars, StopVars, MonitorVars>>

EndDrain(t) ==
  /\ worker[t] = "drain"
  /\ m_vQueue = <<>>
  /\ Goto(t, "outer")
  /\ UNCHANGED <<pItem, taken, processed, QueueVars, ListenerVars, StopVars, MonitorVars>>

\* The request is deleted, and pItem is reset before it is used again.
ItemAfterProcess(t) == {}

\* ProcessRequest ends: the reply is sent, the request is freed, and the inner
\* loop goes on draining without a look at the flag.
Process(t) ==
  /\ worker[t] = "process"
  /\ processed' = processed \cup pItem[t]
  /\ pItem' = [pItem EXCEPT ![t] = ItemAfterProcess(t)]
  /\ Goto(t, "drain")
  /\ UNCHANGED <<taken, QueueVars, ListenerVars, StopVars, MonitorVars>>

-----------------------------------------------------------------------------
(* The monitor: ProcMonitorFunc and GetCallCount *)

CountAfterReport_Kept == callCount
CountAfterReport == 0

Report ==
  /\ monitor = "sleep"
  /\ ~m_bShutDown
  /\ callCount > 0
  /\ reported' = reported + callCount
  /\ callCount' = CountAfterReport
  /\ UNCHANGED <<monitor, QueueVars, WorkerVars, ListenerVars, StopVars>>

StopMonitor ==
  /\ monitor = "sleep"
  /\ m_bShutDown
  /\ monitor' = "exit"
  /\ UNCHANGED <<callCount, reported, QueueVars, WorkerVars, ListenerVars, StopVars>>

-----------------------------------------------------------------------------
(* CUdpServer::ShutDown, run by the thread that got SIGINT *)

SetFlag ==
  /\ stopper = "idle"
  /\ m_bShutDown' = TRUE
  /\ stopper' = "close"
  /\ UNCHANGED <<m_Socket, QueueVars, WorkerVars, ListenerVars, MonitorVars>>

SocketAfterClose_Open == "open"
SocketAfterClose == "closed"

CloseSocket ==
  /\ stopper = "close"
  /\ m_Socket' = SocketAfterClose
  /\ stopper' = "broadcast"
  /\ UNCHANGED <<m_bShutDown, QueueVars, WorkerVars, ListenerVars, MonitorVars>>

BroadcastShutDown ==
  /\ stopper = "broadcast"
  /\ worker' = Broadcast
  /\ stopper' = "done"
  /\ UNCHANGED <<m_bShutDown, m_Socket, pItem, taken, processed, QueueVars,
                 ListenerVars, MonitorVars>>

-----------------------------------------------------------------------------

WorkerStep(t) ==
  \/ WaitForRequest(t)
  \/ TestShutDown(t)
  \/ Take(t)
  \/ EndDrain(t)
  \/ Process(t)

ListenerStep == AddToQueue \/ StopListening

StopStep == CloseSocket \/ BroadcastShutDown

Next ==
  \/ \E r \in Requests : Receive(r)
  \/ FailReceive
  \/ ListenerStep
  \/ \E t \in Threads : WorkerStep(t) \/ WakeSpuriously(t)
  \/ Report
  \/ StopMonitor
  \/ SetFlag
  \/ StopStep

\* Each thread that can go on does: the scheduler of the operating system runs
\* every runnable thread.  Nothing makes a client send, an operator stop the
\* daemon, recvfrom() fail or cond_wait return without a broadcast.
Fairness ==
  /\ \A t \in Threads : WF_vars(WorkerStep(t))
  /\ WF_vars(ListenerStep)
  /\ WF_vars(StopStep)
  /\ WF_vars(StopMonitor)

Spec == Init /\ [][Next]_vars /\ Fairness

-----------------------------------------------------------------------------
(* Properties *)

Places == {"outer", "wait", "woken", "drain", "process", "exit"}

\* Every variable has its type, and a thread holds a request exactly while it
\* queues or processes it: the pointers pRequest and pItem never dangle.
TypeOK ==
  /\ m_vQueue \in Seq(Requests)
  /\ m_bShutDown \in BOOLEAN
  /\ m_Socket \in {"open", "closed"}
  /\ listener \in {"recv", "add", "exit"}
  /\ pRequest \in SUBSET Requests
  /\ worker \in [Threads -> Places]
  /\ pItem \in [Threads -> SUBSET Requests]
  /\ monitor \in {"sleep", "exit"}
  /\ callCount \in Nat
  /\ stopper \in {"idle", "close", "broadcast", "done"}
  /\ arrived \in SUBSET Requests
  /\ accepted \in Seq(Requests)
  /\ taken \in Seq(Requests)
  /\ processed \in SUBSET Requests
  /\ reported \in Nat
  /\ listener = "add" <=> pRequest # {}
  /\ \A t \in Threads : worker[t] = "process" <=> pItem[t] # {}

\* Requests leave the queue in the order in which they entered it, and none is
\* lost or handed out twice between the two: what was queued is what workers
\* took followed by what still waits.
QueueIsFifo == accepted = taken \o m_vQueue

\* No lost wakeup on the request path: while a request is queued, no worker
\* sleeps in pthread_cond_wait.
NoSleeperWhileQueued == m_vQueue # <<>> => Waiting = {}

\* The queue never holds more than MAX_QUEUE_ITEMS_COUNT + 1 requests.
QueueBounded == Len(m_vQueue) <= MaxQueue + 1

\* The load that the monitor prints is exact: the calls reported and the calls
\* still counted are the calls received, although two threads reset and count.
CallsAccounted == reported + callCount = Cardinality(arrived)

\* A queued request is processed, unless the daemon is stopped first: a worker
\* is always there to take it.
QueuedIsProcessed ==
  \A r \in Requests :
    (\E i \in 1..Len(m_vQueue) : m_vQueue[i] = r) ~> (r \in processed \/ m_bShutDown)

\* The listener does not outlive ShutDown(): the close of the socket takes it
\* out of recvfrom().
ListenerStops == m_bShutDown ~> listener = "exit"

\* What the comment on the broadcast in ShutDown() says: the broadcast makes
\* the threads of the pool exit.
PoolStops == (stopper = "done") ~> \A t \in Threads : worker[t] = "exit"
=============================================================================
