------------------------------ MODULE Session -------------------------------
(***************************************************************************)
(* The session between a client and the server: HANDSHAKE, CONNECT and the *)
(* commands that follow, while the server may be restarted.  The client is *)
(* ZsClient.connect over ComClient.Connect, SendCmd and the packets of     *)
(* ComRequestBuilder; the server is CUdpServer::GetData and ProcessRequest *)
(* with the session keys of CKeys and the coder m_pCoderAES, which all     *)
(* workers share.                                                          *)
(*                                                                         *)
(* Ciphers are ideal: what was encrypted under one key is noise to the     *)
(* server and an error to the client with another.  Datagrams are delayed, *)
(* reordered and lost.  The queue and the questions for a late reply       *)
(* (GET_REPLY) are in UdpServer and Call: here a call that is not answered *)
(* ends with "Time out.".                                                  *)
(***************************************************************************)
EXTENDS Naturals, FiniteSets

CONSTANTS
  Clients,
  Workers,               \* the threads of the pool
  m_nSize,               \* the number of session keys of CKeys
  MAX_CALLS_IN_CONNECT,  \* of ZsClient
  MaxConnects,           \* bound: connects that a client makes
  MaxCalls,              \* bound: commands that a client sends
  MaxRestarts,           \* bound: restarts of the server
  NoKey, Server

ASSUME SizeAssumption == m_nSize \in Nat /\ m_nSize > 1
ASSUME TriesAssumption == MAX_CALLS_IN_CONNECT \in Nat \ {0}
ASSUME PeersAssumption == Server \notin Clients
ASSUME BoundsAssumption == MaxConnects \in Nat /\ MaxCalls \in Nat /\ MaxRestarts \in Nat

VARIABLES
  client,       \* pc, tries left, seqNum, session (keyId and key), counters, outcome
  net,          \* the datagrams under way
  incarnation,  \* which run of the server this is
  m_pCoderAES,  \* the key in the shared coder
  worker        \* a worker in the middle of CONNECT: its request and the new key

vars == <<client, net, incarnation, m_pCoderAES, worker>>

\* The keys: of a session, of one connect of one client (its guid), of the server.
SessionKey(run, id) == <<"session", run, id>>
GuidKey(c, seq) == <<"guid", c, seq>>
PublicKey(run) == <<"public", run, 0>>

NoSession == [run |-> 0, id |-> 0]
NoAnswer == <<0, 0>>
Idle == [busy |-> FALSE, req |-> NoKey, id |-> 0]

Init ==
  /\ client = [c \in Clients |->
       [pc |-> "off", tries |-> 0, seq |-> 0, session |-> NoSession, connects |-> 0,
        calls |-> 0, outcome |-> "none", answer |-> NoAnswer]]
  /\ net = {}
  /\ incarnation = 1
  /\ m_pCoderAES = NoKey
  /\ worker = [w \in Workers |-> Idle]

-----------------------------------------------------------------------------
(* The client *)

ServerVars == <<incarnation, m_pCoderAES, worker>>

Connecting(c) == client[c].pc \in {"hello", "connect"}
Waiting(c) == Connecting(c) \/ client[c].pc = "wait"
\* What a call that fails leaves: keyId stays 0 when there was never a session.
Rest(s) == IF s = NoSession THEN "off" ELSE "idle"

Request(c, cmd, key, id, value) ==
  [to |-> Server, from |-> c, cmd |-> cmd, seq |-> client[c].seq + 1, key |-> key, id |-> id,
   value |-> value]

\* SendCmd: a new sequence number, then the datagram.
Send(c, req, next, taken) ==
  /\ client' = [client EXCEPT ![c] = [next EXCEPT !.seq = req.seq]]
  /\ net' = (net \ taken) \cup {req}

\* Connect: the handshake.
SendHello(c, next) ==
  Send(c, Request(c, "hello", NoKey, client[c].session.id, NoAnswer), [next EXCEPT !.pc = "hello"], {})

\* ZsClient.connect, also to connect anew.
Connect(c) ==
  /\ client[c].pc \in {"off", "idle"}
  /\ client[c].connects < MaxConnects
  /\ SendHello(c, [client[c] EXCEPT !.tries = MAX_CALLS_IN_CONNECT, !.connects = @ + 1,
                                    !.outcome = "pending", !.answer = NoAnswer])
  /\ UNCHANGED ServerVars

SendCommand(c) ==
  LET s == client[c].session
  IN  /\ client[c].pc = "idle" /\ s.id # 0
      /\ client[c].calls < MaxCalls
      /\ Send(c, Request(c, "command", SessionKey(s.run, s.id), s.id, <<0, client[c].calls + 1>>),
              [client[c] EXCEPT !.pc = "wait", !.calls = @ + 1, !.outcome = "pending",
                                !.answer = NoAnswer], {})
      /\ UNCHANGED ServerVars

End(c, outcome) ==
  client' = [client EXCEPT ![c].pc = Rest(client[c].session), ![c].outcome = outcome]

\* A time-out of the handshake or of CONNECT ends the try, and connect() tries again.
MayTimeOut_Commands(c) == client[c].pc = "wait"
MayTimeOut(c) == Waiting(c)
TriesLeft(c) == client[c].tries - 1
TimeOut(c) ==
  /\ MayTimeOut(c)
  /\ \/ /\ Connecting(c) /\ TriesLeft(c) > 0
        /\ SendHello(c, [client[c] EXCEPT !.tries = TriesLeft(c)])
     \/ /\ ~(Connecting(c) /\ TriesLeft(c) > 0)
        /\ End(c, "Time out.")
        /\ UNCHANGED net
  /\ UNCHANGED ServerVars

\* Parse decrypts an encrypted reply with the key of the session, before anything in
\* it is looked at.
Readable(c, m) ==
  m.key = NoKey \/ m.key = SessionKey(client[c].session.run, client[c].session.id)

IsMine_AnySeq(c, m) == client[c].pc = "wait" => m.id = client[c].session.id
IsMine(c, m) ==
  /\ m.seq = client[c].seq
  /\ client[c].pc = "wait" => m.id = client[c].session.id

FailParse(c, m) ==
  /\ ~Readable(c, m)
  /\ End(c, "unreadable")
  /\ net' = net \ {m}

Skip(c, m) ==
  /\ Readable(c, m) /\ ~IsMine(c, m)
  /\ net' = net \ {m}
  /\ UNCHANGED client

\* The public key has come: a new guid, encrypted with it.
TakeHello(c, m) ==
  LET req == Request(c, "connect", PublicKey(m.value[1]), client[c].session.id, NoAnswer)
  IN  /\ client[c].pc = "hello"
      /\ Send(c, req, [client[c] EXCEPT !.pc = "connect"], {m})

\* The session key has come, encrypted with the guid.
TakeSession(c, m) ==
  /\ client[c].pc = "connect"
  /\ net' = net \ {m}
  /\ \/ m.error /\ End(c, "refused")
     \/ ~m.error /\ m.under # GuidKey(c, client[c].seq) /\ End(c, "undecodable")
     \/ /\ ~m.error /\ m.under = GuidKey(c, client[c].seq)
        /\ client' = [client EXCEPT ![c] = [@ EXCEPT !.pc = "idle", !.outcome = "ok",
             !.session = [run |-> m.value[1], id |-> m.value[2]]]]

TakeAnswer(c, m) ==
  /\ client[c].pc = "wait"
  /\ net' = net \ {m}
  /\ client' = [client EXCEPT ![c] = [@ EXCEPT !.pc = "idle", !.outcome = "ok", !.answer = m.value]]

Receive(c) ==
  /\ Waiting(c)
  /\ \E m \in {n \in net : n.to = c} :
       \/ FailParse(c, m)
       \/ Skip(c, m)
       \/ /\ Readable(c, m) /\ IsMine(c, m)
          /\ TakeHello(c, m) \/ TakeSession(c, m) \/ TakeAnswer(c, m)
  /\ UNCHANGED ServerVars

-----------------------------------------------------------------------------
(* The server *)

Reply(req, key, value) ==
  [to |-> req.from, cmd |-> req.cmd, seq |-> req.seq, key |-> key, id |-> req.id, error |-> FALSE,
   under |-> NoKey, value |-> value]

Answer(req, reply) == net' = (net \ {req}) \cup {reply}

Requests(cmd) == {m \in net : m.to = Server /\ m.cmd = cmd}
Free(w) == ~worker[w].busy

\* GetNextKey: never the key 0, which the client takes for "not connected".
NextKeys == 1..(m_nSize - 1)

HandShake(w) ==
  /\ Free(w)
  /\ \E req \in Requests("hello") : Answer(req, Reply(req, NoKey, <<incarnation, 0>>))
  /\ UNCHANGED <<client, incarnation, m_pCoderAES, worker>>

\* The guid can be read: the shared coder gets it.
BeginConnect(w) ==
  /\ Free(w)
  /\ \E req \in Requests("connect"), id \in NextKeys :
       /\ req.key = PublicKey(incarnation)
       /\ worker' = [worker EXCEPT ![w] = [busy |-> TRUE, req |-> req, id |-> id]]
       /\ m_pCoderAES' = GuidKey(req.from, req.seq)
       /\ net' = net \ {req}
  /\ UNCHANGED <<client, incarnation>>

\* The session key is encrypted with what the shared coder holds by now.  (Two workers
\* inside its Init and Encrypt at the same moment can also end the process: Restart.)
EndConnect(w) ==
  LET req == worker[w].req
      reply == [Reply(req, NoKey, <<incarnation, worker[w].id>>) EXCEPT !.under = m_pCoderAES]
  IN  /\ worker[w].busy
      /\ net' = net \cup {reply}
      /\ worker' = [worker EXCEPT ![w] = Idle]
      /\ UNCHANGED <<client, incarnation, m_pCoderAES>>

\* A guid for the public key of an earlier run.
RefuseConnect(w) ==
  /\ Free(w)
  /\ \E req \in Requests("connect") :
       /\ req.key # PublicKey(incarnation)
       /\ Answer(req, [Reply(req, NoKey, NoAnswer) EXCEPT !.error = TRUE])
  /\ UNCHANGED <<client, incarnation, m_pCoderAES, worker>>

\* GetData decrypts with the key that this run has for the id.
CanRead(req) == req.key = SessionKey(incarnation, req.id)

\* The worker's coder still has that key when the reply is encrypted.
ReplyKey_Shared(req) == m_pCoderAES
ReplyKey(req) == SessionKey(incarnation, req.id)

\* What GetData makes of a request it cannot read is noise, with a sequence number that
\* no client waits for.
NoiseSeq == 0
ReplyToNoise(req) ==
  [Reply(req, ReplyKey(req), NoAnswer) EXCEPT !.seq = NoiseSeq, !.error = TRUE]

\* Noise is dropped when its command id is not a valid one.  Otherwise, or when there is
\* no memory for the length it gives, it is answered like any command that fails.
Execute(w) ==
  /\ Free(w)
  /\ \E req \in Requests("command") :
       \/ /\ CanRead(req)
          /\ Answer(req, Reply(req, ReplyKey(req), <<incarnation, req.value[2]>>))
       \/ /\ ~CanRead(req)
          /\ net' = net \ {req} \/ Answer(req, ReplyToNoise(req))
  /\ UNCHANGED <<client, incarnation, m_pCoderAES, worker>>

\* The server ends and is started again: new keys, nothing else survives.
Restart ==
  /\ incarnation <= MaxRestarts
  /\ incarnation' = incarnation + 1
  /\ m_pCoderAES' = NoKey
  /\ worker' = [w \in Workers |-> Idle]
  /\ UNCHANGED <<client, net>>

ClientStep(c) == Connect(c) \/ SendCommand(c) \/ TimeOut(c) \/ Receive(c)
WorkerStep(w) ==
  HandShake(w) \/ BeginConnect(w) \/ EndConnect(w) \/ RefuseConnect(w) \/ Execute(w)

Next ==
  \/ \E c \in Clients : ClientStep(c)
  \/ \E w \in Workers : WorkerStep(w)
  \/ Restart

\* receive() returns after timeOutSec at the latest, and checkTimeOut ends the wait
\* also when other datagrams keep coming.  The server promises nothing.
Fairness == \A c \in Clients : WF_vars(TimeOut(c))

Spec == Init /\ [][Next]_vars /\ Fairness

-----------------------------------------------------------------------------
(* Properties *)

Outcomes == {"none", "pending", "ok", "refused", "undecodable", "unreadable", "Time out."}
Runs == 1..(MaxRestarts + 1)

TypeOK ==
  /\ incarnation \in Runs
  /\ \A c \in Clients :
       /\ client[c].pc \in {"off", "hello", "connect", "idle", "wait"}
       /\ client[c].tries \in 0..MAX_CALLS_IN_CONNECT
       /\ client[c].seq \in Nat /\ client[c].connects \in 0..MaxConnects
       /\ client[c].calls \in 0..MaxCalls
       /\ client[c].outcome \in Outcomes
       /\ client[c].outcome = "pending" <=> Waiting(c)
       /\ client[c].session # NoSession => client[c].session.run \in Runs
       /\ client[c].pc \in {"idle", "wait"} => client[c].session # NoSession
  /\ \A w \in Workers : worker[w].busy \in BOOLEAN

\* The answer a client takes is the answer to the command it has just sent, from
\* the run of the server that gave it its session, whatever late replies of earlier
\* commands and earlier sessions arrive, and however often the server restarts.
AnswerIsOwn ==
  \A c \in Clients :
    client[c].answer # NoAnswer => client[c].answer = <<client[c].session.run, client[c].calls>>

\* A client with one session can read whatever comes to it, until the server is
\* started again: as zsd.cpp:96 says, the new run may answer noise, under its own key.
\* (With a second session a late reply to the first is unreadable too, and ends the
\* call that waits.)
Outlived(c) == client[c].session # NoSession /\ client[c].session.run < incarnation
OneSessionReadable ==
  \A c \in Clients : client[c].outcome = "unreadable" => client[c].connects > 1 \/ Outlived(c)

\* Every connect and every command of the client comes to an end, also when the
\* server is away or drops what it cannot read.
EveryWaitEnds == \A c \in Clients : Waiting(c) ~> ~Waiting(c)

\* The comment in ProcessRequest, "Encrypt session key with client's key": the reply
\* to CONNECT can be read by the client that asked.
EncryptedForClient == \A c \in Clients : client[c].outcome # "undecodable"
=============================================================================
