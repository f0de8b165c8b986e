-------------------------------- MODULE Call --------------------------------
(***************************************************************************)
(* A command from its start in the Java client to its reply: ComClient     *)
(* (Send, SendCmd, getServerReply), the network, the request queue, the    *)
(* workers that run CUdpServer::ProcessRequest, and the cache of replies,  *)
(* whose actions come from OpenConsCache.                                  *)
(*                                                                         *)
(* The network delays, loses (a datagram need not be delivered), reorders  *)
(* and, at most MaxDups times, duplicates.  The wait of receive() is one unit.*)
(* Each client makes the calls 1 to MaxCalls one after the other, without  *)
(* a pause; an execution of a command returns a reply of its own.  The     *)
(* session exists: HANDSHAKE and CONNECT are not modelled here.            *)
(***************************************************************************)
EXTENDS OpenConsCache, Sequences, FiniteSets

CONSTANTS
  Threads,         \* the workers of the server
  MaxQueue,        \* MAX_QUEUE_ITEMS_COUNT
  MaxCalls,        \* calls that a client makes
  maxResendTimes,  \* of ComClient
  SeqMod,          \* sequence numbers wrap here (2^32)
  FirstSeq,        \* seqNum of a new client (random in the code)
  MaxDups          \* bound: datagrams duplicated

ASSUME ResendAssumption == maxResendTimes \in Nat \ {0} /\ SeqMod \in Nat \ {0, 1}
ASSUME CallsAssumption == MaxCalls \in Nat /\ MaxDups \in Nat /\ IsFiniteSet(Threads)
\* A client does not come back to a number while a datagram with it may be under way.
ASSUME SeqAssumption == FirstSeq \in 0..(SeqMod - 1) /\ MaxCalls * maxResendTimes < SeqMod
ASSUME RepliesAssumption == \A r \in Replies : DOMAIN r = 1..3

VARIABLES
  client,    \* each client: pc, call, attempt, seq, since, deadline, result
  net,       \* the datagrams under way
  dups,      \* how many were duplicated
  m_vQueue,  \* the queue of the server
  worker,    \* each worker: pc, the request it holds, the reply of its execution
  execs      \* history: how many times each call of each client was executed

callVars == <<cacheVars, now, client, net, dups, m_vQueue, worker, execs>>

Request(c, kind, s, k) == [to |-> "server", kind |-> kind, from |-> c, seq |-> s, call |-> k]
Reply(req, status, reply) ==
  [to |-> "client", kind |-> req.kind, from |-> req.from, seq |-> req.seq,
   status |-> status, reply |-> reply]

\* timeOutSec, which the user sets to any number of seconds, is the unit of time, and TTL
\* the life of an item in such units.
timeOut == 1

Idle == [pc |-> "idle", req |-> Request(0, "none", 0, 0), reply |-> None]
\* A call that has not ended, or has ended with "Time out.".
Pending == <<"pending">>
TimeOut == <<"Time out.">>

CallInit ==
  /\ CacheInit
  /\ client = [c \in Clients |->
       [pc |-> "idle", call |-> 0, attempt |-> 0, seq |-> FirstSeq,
        since |-> 0, deadline |-> 0, result |-> None]]
  /\ net = {}
  /\ dups = 0
  /\ m_vQueue = <<>>
  /\ worker = [t \in Threads |-> Idle]
  /\ execs = [c \in Clients |-> [k \in 1..MaxCalls |-> 0]]

-----------------------------------------------------------------------------
(* The client *)

ServerVars == <<cacheVars, m_vQueue, worker, execs>>

\* A datagram leaves the network, or stays there for a second delivery.
Deliver(m) ==
  \/ net' = net \ {m} /\ UNCHANGED dups
  \/ dups < MaxDups /\ dups' = dups + 1 /\ UNCHANGED net

NextSeq_Same(s) == s
NextSeq(s) == (s + 1) % SeqMod

\* SendCmd: a new sequence number and a new deadline, then the command.
SendCmd(c, k, attempt) ==
  LET s == NextSeq(client[c].seq)
  IN  /\ client' = [client EXCEPT ![c] =
           [pc |-> "wait", call |-> k, attempt |-> attempt, seq |-> s,
            since |-> now, deadline |-> now + maxResendTimes * timeOut, result |-> Pending]]
      /\ net' = net \cup {Request(c, "cmd", s, k)}

EndCall(c, result) ==
  /\ client' = [client EXCEPT ![c].pc = "idle", ![c].result = result]
  /\ UNCHANGED net

\* Send: the first attempt.
StartCall(c) ==
  /\ client[c].pc = "idle"
  /\ client[c].call < MaxCalls
  /\ SendCmd(c, client[c].call + 1, 1)
  /\ UNCHANGED <<ServerVars, now, dups>>

\* Send: the next attempt, when SendCmd returned false.
MayResend(attempt) == attempt < maxResendTimes
SendAgain(c) ==
  IF MayResend(client[c].attempt)
  THEN SendCmd(c, client[c].call, client[c].attempt + 1)
  ELSE EndCall(c, TimeOut)

\* checkTimeOut()
PastDeadline_Never(c) == FALSE
PastDeadline(c) == now >= client[c].deadline

IsMine_AnySeq(c, m) == m.from = c
IsMine(c, m) == m.from = c /\ m.seq = client[c].seq

\* receive() returned a datagram of another call: back to the loop.
SkipReply(c, m) ==
  /\ ~IsMine(c, m)
  /\ client' = [client EXCEPT ![c] =
       IF PastDeadline(c) THEN [@ EXCEPT !.pc = "idle", !.result = TimeOut]
       ELSE [@ EXCEPT !.since = now]]

\* In SendCmd any reply with the number of the call ends the call.
TakeReply(c, m) ==
  /\ client[c].pc = "wait"
  /\ IsMine(c, m)
  /\ client' = [client EXCEPT ![c].pc = "idle", ![c].result = m.reply]

\* In getServerReply the status decides (the sleep(500) before the next question is
\* left to the fairness of time); a reply to the command itself carries
\* REPLY_STATUS_IN_PROCESS.
TakeStatus(c, m) ==
  /\ client[c].pc = "askwait"
  /\ IsMine(c, m)
  /\ \/ /\ m.status = "Done"
        /\ client' = [client EXCEPT ![c].pc = "idle", ![c].result = m.reply]
     \/ /\ m.status = "InProcessing"
        /\ client' = [client EXCEPT ![c].pc = "ask"]
     \/ /\ m.status = "NotFound"
        /\ client' = [client EXCEPT ![c].pc = "resend"]

Receive(c) ==
  /\ client[c].pc \in {"wait", "askwait"}
  /\ \E m \in {n \in net : n.to = "client" /\ n.from = c} :
       /\ Deliver(m)
       /\ \/ TakeReply(c, m)
          \/ TakeStatus(c, m)
          \/ SkipReply(c, m)
  /\ UNCHANGED <<ServerVars, now>>

Resend(c) ==
  /\ client[c].pc = "resend"
  /\ SendAgain(c)
  /\ UNCHANGED <<ServerVars, now, dups>>

\* receive() gives up after timeOutSec.
SocketTimeout(c) ==
  /\ client[c].pc \in {"wait", "askwait"}
  /\ now >= client[c].since + timeOut
  /\ client' = [client EXCEPT ![c].pc = "ask"]
  /\ UNCHANGED <<ServerVars, now, net, dups>>

Ask(c) ==
  /\ client[c].pc = "ask"
  /\ \/ PastDeadline(c) /\ EndCall(c, TimeOut)
     \/ /\ ~PastDeadline(c)
        /\ client' = [client EXCEPT ![c].pc = "askwait", ![c].since = now]
        /\ net' = net \cup {Request(c, "get", client[c].seq, client[c].call)}
  /\ UNCHANGED <<ServerVars, now, dups>>

-----------------------------------------------------------------------------
(* The server *)

ClientVars == <<client, now>>

\* Run and AddToQueue: a full queue drops the request.
Arrive ==
  /\ \E m \in {n \in net : n.to = "server"} :
       /\ Deliver(m)
       /\ m_vQueue' = IF Len(m_vQueue) > MaxQueue THEN m_vQueue ELSE Append(m_vQueue, m)
  /\ UNCHANGED <<ClientVars, cacheVars, worker, execs>>

QueueAfterTake_Kept(q) == q
QueueAfterTake(q) == Tail(q)

\* ProcFunc takes the first request; GetData decrypts it.
Take(t) ==
  /\ worker[t].pc = "idle"
  /\ m_vQueue # <<>>
  /\ worker' = [worker EXCEPT ![t] = [Idle EXCEPT !.pc = "taken", !.req = Head(m_vQueue)]]
  /\ m_vQueue' = QueueAfterTake(m_vQueue)
  /\ UNCHANGED <<ClientVars, cacheVars, net, dups, execs>>

\* CMD_GET_REPLY: GetReply and the reply.
AnswerGet(t) ==
  LET req == worker[t].req
      found == FindResult(req.from, req.seq)
  IN  /\ worker[t].pc = "taken"
      /\ req.kind = "get"
      /\ Find(req.from, req.seq)
      /\ net' = net \cup {Reply(req, found.status, found.reply)}
      /\ worker' = [worker EXCEPT ![t] = Idle]
      /\ UNCHANGED <<ClientVars, m_vQueue, dups, execs>>

AddCall(t) ==
  /\ worker[t].pc = "taken"
  /\ worker[t].req.kind = "cmd"
  /\ Add(worker[t].req.from, worker[t].req.seq)
  /\ worker' = [worker EXCEPT ![t].pc = "added"]
  /\ UNCHANGED <<ClientVars, m_vQueue, net, dups, execs>>

\* The call to the storage.
Execute(t) ==
  LET req == worker[t].req
      n == execs[req.from][req.call] + 1
  IN  /\ worker[t].pc = "added"
      /\ execs' = [execs EXCEPT ![req.from][req.call] = n]
      /\ worker' = [worker EXCEPT ![t].pc = "executed", ![t].reply = <<req.from, req.call, n>>]
      /\ UNCHANGED <<ClientVars, cacheVars, m_vQueue, net, dups>>

\* The state of the call is updated, then the reply sent.
ReplyToCall(t) ==
  LET req == worker[t].req
  IN  /\ worker[t].pc = "executed"
      /\ Update(req.from, req.seq, worker[t].reply)
      /\ net' = net \cup {Reply(req, "InProcessing", worker[t].reply)}
      /\ worker' = [worker EXCEPT ![t] = Idle]
      /\ UNCHANGED <<ClientVars, m_vQueue, dups, execs>>

-----------------------------------------------------------------------------

\* Time passes while a client waits, and a wait does not outlast its time-out: a
\* client, also one between two waits, is late by less than a unit.
Waiting == {c \in Clients : client[c].pc \in {"wait", "askwait"}}
Wait ==
  /\ Waiting # {}
  /\ \A c \in Waiting : now < client[c].since + timeOut
  /\ \A c \in Clients \ Waiting : client[c].pc = "idle"
  /\ Tick
  /\ UNCHANGED <<client, net, dups, m_vQueue, worker, execs>>

ClientStep(c) ==
  \/ StartCall(c)
  \/ Receive(c)
  \/ Resend(c)
  \/ SocketTimeout(c)
  \/ Ask(c)

WorkerStep(t) ==
  \/ Take(t)
  \/ AnswerGet(t)
  \/ AddCall(t)
  \/ Execute(t)
  \/ ReplyToCall(t)

CallNext ==
  \/ \E c \in Clients : ClientStep(c)
  \/ \E t \in Threads : WorkerStep(t)
  \/ Arrive
  \/ Wait

\* Time goes on, also over rounds of questions (sleep(500) is part of each), and
\* receive() does return; no worker need ever run, and no datagram need ever be
\* delivered.
CallFairness ==
  /\ SF_callVars(Wait)
  /\ \A c \in Clients : WF_callVars(SocketTimeout(c) \/ Ask(c) \/ Resend(c))

CallSpec == CallInit /\ [][CallNext]_callVars /\ CallFairness

-----------------------------------------------------------------------------
(* Properties *)

\* A call that returns a reply returns the reply of an execution of this very
\* call, whatever was delayed, duplicated, resent, or left by earlier calls.
AnswerIsOurs ==
  \A c \in Clients : client[c].result \notin {None, Pending, TimeOut} =>
    LET r == client[c].result
    IN  r[1] = c /\ r[2] = client[c].call /\ r[3] \in 1..execs[c][client[c].call]

\* While a call goes on, the item of its current attempt expires only if the user has
\* set a time-out so long that maxResendTimes of them last for the TTL: no delay, resent
\* or doubled datagram makes an item older than the patience of its client.
AskedIsKept ==
  \A c \in Clients :
    client[c].pc # "idle" /\ Known(c, client[c].seq) /\ IsExpired(items[c]) =>
      TTL <= maxResendTimes * timeOut

\* The client's retries are the only reason for a second execution: a call is
\* executed at most once for each attempt and each duplicated datagram.
ExecutionsBounded ==
  \A c \in Clients :
    \A k \in 1..client[c].call :
      execs[c][k] <= dups + (IF k = client[c].call THEN client[c].attempt ELSE maxResendTimes)

\* Every call of the client ends, with a reply or with "Time out.", even when
\* nothing comes back from the server.
CallEnds == \A c \in Clients : (client[c].pc # "idle") ~> (client[c].pc = "idle")
=============================================================================
