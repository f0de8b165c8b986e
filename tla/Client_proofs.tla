--------------------------- MODULE Client_proofs ----------------------------
(***************************************************************************)
(* The session between a client and the daemon, and the facade of the      *)
(* client. For any clients, workers, datagrams, servers, numbers and pins. *)
(***************************************************************************)
EXTENDS Session, ZsClient, TLAPS

-----------------------------------------------------------------------------
(***************************************************************************)
(* Session: a client reads the answer to its own question, in its own      *)
(* session.                                                                *)
(***************************************************************************)

ClientRecords ==
  [pc : {"off", "hello", "connect", "idle", "wait"}, tries : 0..MAX_CALLS_IN_CONNECT,
   seq : Nat, session : [run : Nat, id : Nat], connects : 0..MaxConnects, calls : 0..MaxCalls,
   outcome : Outcomes, answer : Nat \X Nat]

\* The types that the proof needs.
SessionTypes ==
  /\ incarnation \in Runs
  /\ client \in [Clients -> ClientRecords]
  /\ DOMAIN worker = Workers
  /\ \A w \in Workers : worker[w].busy \in BOOLEAN

\* What the progress of a client says of its session, its outcome and its answer.
ClientConsistent(c) ==
  LET s == client[c]
  IN  /\ s.outcome = "pending" <=> Waiting(c)
      /\ s.session # NoSession => s.session.run \in Runs
      /\ s.pc \in {"idle", "wait"} => s.session # NoSession
      /\ s.connects = 0 => s.pc = "off"
      /\ s.pc = "off" => s.session = NoSession
      /\ Connecting(c) /\ s.connects <= 1 => s.session = NoSession
      /\ Waiting(c) => s.answer = NoAnswer /\ s.seq > 0
      /\ s.session.run <= incarnation

\* A message with this number belongs to the request the client sent last.
IsLatest(c, m) == Waiting(c) /\ m.seq = client[c].seq
CommandFor(c) == IF client[c].pc = "wait" THEN "command" ELSE client[c].pc
KeyOf(c) == SessionKey(client[c].session.run, client[c].session.id)

\* What requests and replies have in common.
MessageOf(c, m) ==
  /\ c \in Clients
  /\ m.cmd \in {"hello", "connect", "command"}
  /\ m.seq \in Nat /\ m.seq <= client[c].seq
  /\ m.id \in Nat
  /\ IsLatest(c, m) => m.cmd = CommandFor(c)
  /\ m.cmd = "command" /\ client[c].connects <= 1 =>
       client[c].session # NoSession /\ (m.key = KeyOf(c) \/ Outlived(c))

\* A command of a client with one session was encrypted for that.
CommandOf(c, m) ==
  m.cmd = "command" /\ client[c].connects <= 1 =>
    client[c].session # NoSession /\ m.key = KeyOf(c) /\ m.id = client[c].session.id

RequestOK(m) ==
  /\ MessageOf(m.from, m)
  /\ CommandOf(m.from, m)
  /\ m.value \in Nat \X Nat
  /\ IsLatest(m.from, m) /\ m.cmd = "command" =>
       /\ m.key = KeyOf(m.from) /\ m.id = client[m.from].session.id
       /\ m.value[2] = client[m.from].calls

ReplyOK(m) ==
  /\ MessageOf(m.to, m)
  /\ m.value \in Nat \X Nat
  /\ m.cmd # "command" => m.key = NoKey
  /\ m.cmd = "connect" /\ ~m.error => m.value \in (1..incarnation) \X NextKeys
  /\ IsLatest(m.to, m) /\ m.cmd = "command" =>
       m.value = <<client[m.to].session.run, client[m.to].calls>>

MessagesOK ==
  \A m \in net : IF m.to = Server THEN RequestOK(m) ELSE ReplyOK(m)

WorkerOK(w) ==
  worker[w].busy =>
    /\ RequestOK(worker[w].req) /\ worker[w].req.cmd = "connect"
    /\ worker[w].id \in NextKeys

SessionInv ==
  /\ SessionTypes
  /\ \A c \in Clients : ClientConsistent(c)
  /\ MessagesOK
  /\ \A w \in Workers : WorkerOK(w)
  /\ AnswerIsOwn
  /\ OneSessionReadable

-----------------------------------------------------------------------------
(* What a step of a client keeps *)

\* A client that turns to a new number, or stops waiting, leaves every message as
\* consistent as it was, and a new session touches no command of an earlier one.
Moves(c, n) ==
  /\ client' = [client EXCEPT ![c] = n]
  /\ n.seq >= client[c].seq
  /\ n.connects >= client[c].connects
  /\ n.seq = client[c].seq => n.pc \in {"off", "idle"}
  /\ n.session = client[c].session \/ client[c].session = NoSession \/ n.connects > 1

LEMMA MessagesKept ==
  ASSUME SessionTypes, NEW c \in Clients, NEW n \in ClientRecords, Moves(c, n), NEW m,
         UNCHANGED incarnation
  PROVE  /\ RequestOK(m) => RequestOK(m)'
         /\ ReplyOK(m) => ReplyOK(m)'
<1>1. ASSUME NEW d, MessageOf(d, m) PROVE MessageOf(d, m)'
  <2>1. CASE d # c
    <3>1. client'[d] = client[d]
      BY <1>1, <2>1 DEF Moves, SessionTypes, MessageOf
    <3> QED BY <1>1, <3>1 DEF MessageOf, IsLatest, Waiting, Connecting, CommandFor, KeyOf, Outlived
  <2>2. CASE d = c
    <3>1. client'[c] = n
      BY DEF Moves, SessionTypes
    <3>2. ~IsLatest(c, m)'
      <4>1. m.seq \in Nat /\ m.seq <= client[c].seq /\ client[c].seq \in Nat /\ n.seq \in Nat
        BY <1>1, <2>2 DEF MessageOf, SessionTypes, ClientRecords
      <4> QED BY <3>1, <4>1 DEF Moves, IsLatest, Waiting, Connecting
    <3> QED
      BY <1>1, <2>2, <3>1, <3>2
      DEF Moves, MessageOf, KeyOf, Outlived, SessionTypes, ClientRecords
  <2> QED BY <2>1, <2>2
<1>2. ASSUME NEW d, MessageOf(d, m), IsLatest(d, m)' PROVE client'[d] = client[d]
  <2>1. CASE d # c
    BY <1>2, <2>1 DEF Moves, SessionTypes, MessageOf
  <2>2. CASE d = c
    <3>1. m.seq \in Nat /\ m.seq <= client[c].seq /\ client[c].seq \in Nat /\ n.seq \in Nat
      BY <1>2, <2>2 DEF MessageOf, SessionTypes, ClientRecords
    <3>2. client'[c] = n
      BY DEF Moves, SessionTypes
    <3> QED BY <1>2, <2>2, <3>1, <3>2 DEF Moves, IsLatest, Waiting, Connecting
  <2> QED BY <2>1, <2>2
<1>3. ASSUME RequestOK(m) PROVE RequestOK(m)'
  <2>1. MessageOf(m.from, m) /\ MessageOf(m.from, m)' /\ m.from \in Clients
    BY <1>3, <1>1 DEF RequestOK, MessageOf
  <2>2. CommandOf(m.from, m)'
    <3>1. CommandOf(m.from, m)
      BY <1>3 DEF RequestOK
    <3>2. CASE m.from # c
      <4>1. client'[m.from] = client[m.from]
        BY <2>1, <3>2 DEF Moves, SessionTypes
      <4> QED BY <3>1, <4>1 DEF CommandOf, KeyOf
    <3>3. CASE m.from = c
      <4>1. client'[c] = n
        BY DEF Moves, SessionTypes
      <4> QED BY <3>1, <3>3, <4>1, BoundsAssumption DEF Moves, CommandOf, KeyOf, SessionTypes, ClientRecords
    <3> QED BY <3>2, <3>3
  <2> QED
    BY <1>3, <1>2, <2>1, <2>2 DEF RequestOK, IsLatest, Waiting, Connecting, KeyOf
<1>4. ASSUME ReplyOK(m) PROVE ReplyOK(m)'
  <2>1. MessageOf(m.to, m) /\ MessageOf(m.to, m)'
    BY <1>4, <1>1 DEF ReplyOK
  <2> QED
    BY <1>4, <1>2, <2>1 DEF ReplyOK, IsLatest, Waiting, Connecting
<1> QED BY <1>3, <1>4

\* What is left to show of a step of a client.
LEMMA ClientStepKept ==
  ASSUME SessionInv, NEW c \in Clients, NEW n \in ClientRecords, Moves(c, n),
         UNCHANGED ServerVars,
         ClientConsistent(c)',
         \A m \in net' \ net : m.to = Server /\ RequestOK(m)',
         n.answer # NoAnswer => n.answer = <<n.session.run, n.calls>>,
         n.outcome = "unreadable" => n.connects > 1 \/ Outlived(c)'
  PROVE  SessionInv'
<1>1. client'[c] = n /\ \A d \in Clients : d # c => client'[d] = client[d]
  BY DEF Moves, SessionInv, SessionTypes
<1>2. SessionTypes'
  BY DEF SessionInv, SessionTypes, Moves, ServerVars
<1>3. ASSUME NEW d \in Clients PROVE ClientConsistent(d)'
  BY <1>1, <1>3 DEF SessionInv, ServerVars, ClientConsistent, Waiting, Connecting
<1>4. MessagesOK'
  <2> SUFFICES ASSUME NEW m \in net'
               PROVE  IF m.to = Server THEN RequestOK(m)' ELSE ReplyOK(m)'
    BY DEF MessagesOK
  <2>1. CASE m \in net
    <3>1. IF m.to = Server THEN RequestOK(m) ELSE ReplyOK(m)
      BY <2>1 DEF SessionInv, MessagesOK
    <3> QED BY <3>1, MessagesKept DEF SessionInv, ServerVars
  <2> QED BY <2>1
<1>5. ASSUME NEW w \in Workers PROVE WorkerOK(w)'
  <2>1. worker' = worker /\ WorkerOK(w)
    BY DEF ServerVars, SessionInv
  <2>2. \A m : RequestOK(m) => RequestOK(m)'
    BY MessagesKept DEF SessionInv, ServerVars
  <2> QED BY <2>1, <2>2 DEF WorkerOK
<1>6. AnswerIsOwn' /\ OneSessionReadable'
  BY <1>1 DEF SessionInv, ServerVars, AnswerIsOwn, OneSessionReadable, Outlived
<1> QED BY <1>2, <1>3, <1>4, <1>5, <1>6 DEF SessionInv

-----------------------------------------------------------------------------
(* The steps of a client *)

\* A handshake, of a first try or a later one.
LEMMA HelloKept ==
  ASSUME SessionInv, NEW c \in Clients, NEW n0 \in ClientRecords,
         SendHello(c, n0), UNCHANGED ServerVars,
         n0.session = client[c].session, n0.connects >= client[c].connects, n0.connects > 0,
         n0.seq = client[c].seq, n0.connects > 1 \/ n0.session = NoSession,
         n0.outcome = "pending", n0.answer = NoAnswer
  PROVE  SessionInv'
<1> DEFINE n == [n0 EXCEPT !.pc = "hello", !.seq = client[c].seq + 1]
<1> PICK req : req = Request(c, "hello", NoKey, client[c].session.id, NoAnswer)
  OBVIOUS
<1>0. client[c] \in ClientRecords /\ ClientConsistent(c)
  BY DEF SessionInv, SessionTypes
<1>1. n \in ClientRecords
  <2>1. client[c].seq + 1 \in Nat
    BY <1>0 DEF ClientRecords
  <2> QED BY <2>1 DEF ClientRecords
<1>2. client' = [client EXCEPT ![c] = n] /\ net' = net \cup {req}
  BY <1>0 DEF SendHello, Send, Request, ClientRecords
<1>3. Moves(c, n)
  BY <1>0, <1>2 DEF Moves, ClientRecords
<1>4. client'[c] = n
  BY <1>2 DEF SessionInv, SessionTypes
<1>5. ClientConsistent(c)'
  <2>1. client'[c].seq > 0 /\ UNCHANGED incarnation
    BY <1>0, <1>4 DEF ClientRecords, SendCommand, ServerVars
  <2> QED BY <1>0, <1>4, <2>1 DEF ClientConsistent, Waiting, Connecting, ClientRecords
<1>6. req.to = Server /\ RequestOK(req)'
  <2>1. /\ req.to = Server /\ req.from = c /\ req.cmd = "hello" /\ req.seq = client'[c].seq
        /\ req.seq \in Nat /\ req.id \in Nat /\ req.value = <<0, 0>> /\ client'[c].pc = "hello"
    BY <1>0, <1>4 DEF Request, ClientRecords, NoAnswer
  <2>2. MessageOf(c, req)'
    BY <2>1 DEF MessageOf, IsLatest, Waiting, Connecting, CommandFor
  <2> QED BY SMTT(30), <2>1, <2>2 DEF RequestOK, CommandOf
<1> HIDE DEF n
<1>7. n.answer = NoAnswer /\ n.outcome # "unreadable"
  BY DEF n, ClientRecords
<1> QED BY <1>1, <1>2, <1>3, <1>5, <1>6, <1>7, ClientStepKept

LEMMA ConnectKept ==
  ASSUME SessionInv, NEW c \in Clients, Connect(c)
  PROVE  SessionInv'
<1> DEFINE n0 == [client[c] EXCEPT !.tries = MAX_CALLS_IN_CONNECT, !.connects = @ + 1,
                                   !.outcome = "pending", !.answer = NoAnswer]
<1>1. client[c] \in ClientRecords /\ ClientConsistent(c)
  BY DEF SessionInv, SessionTypes
<1>2. n0 \in ClientRecords
  <2>1. client[c].connects + 1 \in 0..MaxConnects /\ MAX_CALLS_IN_CONNECT \in 0..MAX_CALLS_IN_CONNECT
    BY <1>1, TriesAssumption, BoundsAssumption DEF Connect, ClientRecords
  <2> QED BY <1>1, <2>1 DEF ClientRecords, NoAnswer, Outcomes
<1>3. /\ n0.session = client[c].session /\ n0.connects = client[c].connects + 1
      /\ n0.seq = client[c].seq /\ n0.outcome = "pending" /\ n0.answer = NoAnswer
  BY <1>1 DEF ClientRecords
<1>4. client[c].connects \in Nat
  BY <1>1, BoundsAssumption DEF ClientRecords
<1>5. n0.connects > 1 \/ n0.session = NoSession
  BY <1>1, <1>3, <1>4 DEF ClientConsistent
<1>6. SendHello(c, n0) /\ UNCHANGED ServerVars
  BY DEF Connect
<1> HIDE DEF n0
<1> QED BY <1>2, <1>3, <1>4, <1>5, <1>6, HelloKept

LEMMA SendCommandKept ==
  ASSUME SessionInv, NEW c \in Clients, SendCommand(c)
  PROVE  SessionInv'
<1> DEFINE s == client[c].session
           n == [client[c] EXCEPT !.pc = "wait", !.calls = @ + 1, !.outcome = "pending",
                                  !.answer = NoAnswer, !.seq = client[c].seq + 1]
<1> PICK req : req = Request(c, "command", SessionKey(s.run, s.id), s.id, <<0, client[c].calls + 1>>)
  OBVIOUS
<1>0. /\ client[c] \in ClientRecords /\ ClientConsistent(c) /\ client[c].pc = "idle"
      /\ client[c].calls < MaxCalls
  BY DEF SessionInv, SessionTypes, SendCommand
<1>1. n \in ClientRecords
  <2>1. client[c].seq + 1 \in Nat /\ client[c].calls + 1 \in 0..MaxCalls
    BY <1>0, BoundsAssumption DEF ClientRecords
  <2> QED BY <1>0, <2>1 DEF ClientRecords, NoAnswer, Outcomes
<1>2. client' = [client EXCEPT ![c] = n] /\ net' = net \cup {req} /\ UNCHANGED ServerVars
  BY <1>0 DEF SendCommand, Send, Request, ClientRecords
<1>3. Moves(c, n)
  BY <1>0, <1>2, BoundsAssumption DEF Moves, ClientRecords
<1>4. client'[c] = n
  BY <1>2 DEF SessionInv, SessionTypes
<1>5. ClientConsistent(c)'
  <2>1. client'[c].seq > 0 /\ UNCHANGED incarnation
    BY <1>0, <1>4 DEF ClientRecords, SendCommand, ServerVars
  <2> QED BY <1>0, <1>4, <2>1 DEF ClientConsistent, Waiting, Connecting, ClientRecords
<1>6. req.to = Server /\ RequestOK(req)'
  <2>1. /\ req.to = Server /\ req.from = c /\ req.cmd = "command" /\ req.seq = client'[c].seq
        /\ req.seq \in Nat /\ req.id \in Nat /\ req.value = <<0, client'[c].calls>>
        /\ req.id = client'[c].session.id /\ client'[c].pc = "wait" /\ client'[c].session # NoSession
        /\ req.key = SessionKey(client'[c].session.run, client'[c].session.id)
    BY <1>0, <1>4 DEF Request, ClientRecords, ClientConsistent
  <2>2. req.value \in Nat \X Nat /\ req.value[2] = client'[c].calls
    <3>1. client'[c].calls \in Nat
      BY <1>0, <1>4, BoundsAssumption DEF ClientRecords
    <3>2. req.value = <<0, client'[c].calls>>
      BY <2>1
    <3> QED BY <3>1, <3>2
  <2>3. MessageOf(c, req)'
    <3>1. /\ req.seq \in Nat /\ req.seq <= client'[c].seq /\ req.id \in Nat
      BY SMTT(30), <2>1
    <3>2. req.cmd = "command" /\ CommandFor(c)' = "command"
      BY <2>1 DEF CommandFor
    <3>3. client'[c].session # NoSession /\ req.key = KeyOf(c)'
      BY <2>1 DEF KeyOf
    <3> QED BY <3>1, <3>2, <3>3 DEF MessageOf
  <2> QED BY <2>1, <2>2, <2>3 DEF RequestOK, CommandOf, KeyOf
<1>7. n.answer = NoAnswer /\ n.outcome # "unreadable"
  BY <1>0 DEF ClientRecords
<1> HIDE DEF n
<1> QED BY <1>1, <1>2, <1>3, <1>5, <1>6, <1>7, ClientStepKept

\* The end of a wait with a failure.
LEMMA EndKept ==
  ASSUME SessionInv, NEW c \in Clients, NEW outcome \in Outcomes \ {"pending"},
         Waiting(c), End(c, outcome), UNCHANGED ServerVars, net' \subseteq net,
         outcome = "unreadable" => client[c].connects > 1 \/ Outlived(c)
  PROVE  SessionInv'
<1> DEFINE n == [client[c] EXCEPT !.pc = Rest(client[c].session), !.outcome = outcome]
<1>0. client[c] \in ClientRecords /\ ClientConsistent(c)
  BY DEF SessionInv, SessionTypes
<1>1. n \in ClientRecords
  BY <1>0 DEF ClientRecords, Rest
<1>2. client' = [client EXCEPT ![c] = n]
  BY <1>0 DEF End, ClientRecords, SessionInv, SessionTypes
<1>3. Moves(c, n)
  BY <1>0, <1>2, BoundsAssumption DEF Moves, ClientRecords, Rest
<1>4. client'[c] = n
  BY <1>2 DEF SessionInv, SessionTypes
<1>5. ClientConsistent(c)'
  BY <1>0, <1>4 DEF ClientConsistent, Waiting, Connecting, ClientRecords, Rest, ServerVars
<1>6. n.answer = NoAnswer /\ (n.outcome = "unreadable" => n.connects > 1 \/ Outlived(c)')
  <2>1. n.session = client[c].session /\ n.connects = client[c].connects /\ n.outcome = outcome
        /\ n.answer = NoAnswer
    BY <1>0 DEF ClientRecords, ClientConsistent
  <2> QED BY <1>4, <2>1 DEF Outlived, ServerVars
<1> HIDE DEF n
<1> QED BY <1>1, <1>2, <1>3, <1>5, <1>6, ClientStepKept

LEMMA TimeOutKept ==
  ASSUME SessionInv, NEW c \in Clients, TimeOut(c)
  PROVE  SessionInv'
<1>0. client[c] \in ClientRecords /\ ClientConsistent(c)
  BY DEF SessionInv, SessionTypes
<1>1. CASE Connecting(c) /\ TriesLeft(c) > 0 /\ UNCHANGED ServerVars
           /\ SendHello(c, [client[c] EXCEPT !.tries = TriesLeft(c)])
  <2> DEFINE n0 == [client[c] EXCEPT !.tries = TriesLeft(c)]
  <2>1. TriesLeft(c) \in 0..MAX_CALLS_IN_CONNECT
    BY <1>0, <1>1, TriesAssumption DEF ClientRecords, TriesLeft
  <2>2. n0 \in ClientRecords
    BY <1>0, <2>1 DEF ClientRecords
  <2>3. /\ n0.session = client[c].session /\ n0.connects = client[c].connects
        /\ n0.seq = client[c].seq /\ n0.outcome = client[c].outcome
        /\ n0.answer = client[c].answer
    BY <1>0 DEF ClientRecords
  <2>4. client[c].connects \in Nat
    BY <1>0, BoundsAssumption DEF ClientRecords
  <2>5. /\ client[c].connects # 0 /\ client[c].outcome = "pending" /\ client[c].answer = NoAnswer
        /\ client[c].connects <= 1 => client[c].session = NoSession
    BY <1>0, <1>1 DEF ClientConsistent, Waiting, Connecting
  <2>6. SendHello(c, n0)
    BY <1>1
  <2> HIDE DEF n0
  <2> QED BY <1>1, <2>2, <2>3, <2>4, <2>5, <2>6, HelloKept
<1>2. CASE End(c, "Time out.") /\ UNCHANGED net /\ UNCHANGED ServerVars
  BY <1>2, EndKept DEF Outcomes, TimeOut, MayTimeOut
<1> QED BY <1>1, <1>2 DEF TimeOut, MayTimeOut

\* Of a message to the client, what its replies are known for.
LEMMA RepliesToClient ==
  ASSUME SessionInv, NEW c \in Clients, NEW m \in net, m.to = c
  PROVE  ReplyOK(m) /\ MessageOf(c, m)
BY PeersAssumption DEF SessionInv, MessagesOK, ReplyOK

\* What is under way may be lost.
LEMMA LostKept ==
  ASSUME SessionInv, client' = client, net' \subseteq net, UNCHANGED ServerVars
  PROVE  SessionInv'
<1>1. /\ SessionTypes' /\ (\A d \in Clients : ClientConsistent(d)')
      /\ AnswerIsOwn' /\ OneSessionReadable'
  BY DEF SessionInv, SessionTypes, ServerVars, ClientConsistent, Waiting, Connecting,
    AnswerIsOwn, OneSessionReadable, Outlived
<1>2. MessagesOK'
  BY DEF SessionInv, ServerVars, MessagesOK, RequestOK, ReplyOK, MessageOf, IsLatest,
    Waiting, Connecting, CommandFor, KeyOf, CommandOf, Outlived
<1>3. \A w \in Workers : WorkerOK(w)'
  BY DEF SessionInv, ServerVars, WorkerOK, RequestOK, MessageOf, IsLatest, Waiting,
    Connecting, CommandFor, KeyOf, CommandOf, Outlived
<1> QED BY <1>1, <1>2, <1>3 DEF SessionInv

LEMMA ReceiveKept ==
  ASSUME SessionInv, NEW c \in Clients, Receive(c)
  PROVE  SessionInv'
<1>0. client[c] \in ClientRecords /\ ClientConsistent(c) /\ Waiting(c) /\ UNCHANGED ServerVars
  BY DEF SessionInv, SessionTypes, Receive
<1> PICK m \in net : /\ m.to = c
                     /\ \/ FailParse(c, m)
                        \/ Skip(c, m)
                        \/ /\ Readable(c, m) /\ IsMine(c, m)
                           /\ TakeHello(c, m) \/ TakeSession(c, m) \/ TakeAnswer(c, m)
  BY DEF Receive
<1>1. ReplyOK(m) /\ MessageOf(c, m)
  BY RepliesToClient
<1>2. CASE FailParse(c, m)
  <2>1. client[c].connects > 1 \/ Outlived(c)
    <3>1. client[c].connects <= 1 => m.key = NoKey \/ m.key = KeyOf(c) \/ Outlived(c)
      BY <1>1 DEF ReplyOK, MessageOf
    <3>2. client[c].connects \in Nat
      BY <1>0, BoundsAssumption DEF ClientRecords
    <3> QED BY <1>2, <3>1, <3>2 DEF FailParse, Readable, KeyOf
  <2> QED BY <1>0, <1>2, <2>1, EndKept DEF FailParse, Outcomes
<1>3. CASE Skip(c, m)
  <2>1. client' = client /\ net' \subseteq net /\ UNCHANGED ServerVars
    BY <1>0, <1>3 DEF Skip
  <2> QED BY <2>1, LostKept
<1>4. CASE IsMine(c, m) /\ TakeHello(c, m)
  <2> DEFINE n == [client[c] EXCEPT !.pc = "connect", !.seq = client[c].seq + 1]
  <2> PICK req : req = Request(c, "connect", PublicKey(m.value[1]), client[c].session.id, NoAnswer)
    OBVIOUS
  <2>1. n \in ClientRecords
    <3>1. client[c].seq + 1 \in Nat
      BY <1>0 DEF ClientRecords
    <3> QED BY <1>0, <3>1 DEF ClientRecords
  <2>2. client' = [client EXCEPT ![c] = n] /\ net' = (net \ {m}) \cup {req}
    BY <1>0, <1>4 DEF TakeHello, Send, Request, ClientRecords
  <2>3. Moves(c, n)
    BY <1>0, <2>2, BoundsAssumption DEF Moves, ClientRecords
  <2>4. client'[c] = n
    BY <2>2 DEF SessionInv, SessionTypes
  <2>5. ClientConsistent(c)'
    <3>1. client'[c].seq > 0 /\ UNCHANGED incarnation
      BY <1>0, <2>4 DEF ClientRecords, ServerVars
    <3> QED BY <1>0, <1>4, <2>4, <3>1 DEF ClientConsistent, Waiting, Connecting, ClientRecords, TakeHello
  <2>6. req.to = Server /\ RequestOK(req)'
    <3>1. /\ req.to = Server /\ req.from = c /\ req.cmd = "connect" /\ req.seq = client'[c].seq
          /\ req.seq \in Nat /\ req.id \in Nat /\ req.value = <<0, 0>>
          /\ client'[c].pc = "connect"
      BY <1>0, <2>4 DEF Request, ClientRecords, NoAnswer
    <3>2. MessageOf(c, req)'
      BY <3>1 DEF MessageOf, IsLatest, Waiting, Connecting, CommandFor
    <3> QED BY SMTT(30), <3>1, <3>2 DEF RequestOK, CommandOf
  <2>7. n.answer = NoAnswer /\ n.outcome # "unreadable"
    BY <1>0 DEF ClientRecords, ClientConsistent
  <2> HIDE DEF n
  <2> QED BY <1>0, <2>1, <2>2, <2>3, <2>5, <2>6, <2>7, ClientStepKept
<1>5. CASE IsMine(c, m) /\ TakeSession(c, m)
  <2>1. CASE End(c, "refused") \/ End(c, "undecodable")
    BY <1>0, <1>5, <2>1, EndKept DEF TakeSession, Outcomes
  <2>2. CASE /\ ~m.error
             /\ client' = [client EXCEPT ![c] = [@ EXCEPT !.pc = "idle", !.outcome = "ok",
                   !.session = [run |-> m.value[1], id |-> m.value[2]]]]
    <3> DEFINE n == [client[c] EXCEPT !.pc = "idle", !.outcome = "ok",
                      !.session = [run |-> m.value[1], id |-> m.value[2]]]
    <3>1. m.value \in (1..incarnation) \X NextKeys
      BY <1>0, <1>1, <1>5, <2>2
      DEF ReplyOK, MessageOf, IsMine, TakeSession, IsLatest, CommandFor
    <3>2. /\ m.value[1] \in Nat /\ m.value[2] \in Nat /\ m.value[1] \in Runs /\ m.value[2] # 0
          /\ m.value[1] <= incarnation
      BY <3>1, BoundsAssumption, SizeAssumption DEF Runs, NextKeys, SessionInv, SessionTypes
    <3>3. n \in ClientRecords
      BY <1>0, <3>2 DEF ClientRecords, Outcomes
    <3>4. client' = [client EXCEPT ![c] = n] /\ client'[c] = n
      BY <2>2 DEF SessionInv, SessionTypes
    <3>5. client[c].connects > 1 \/ client[c].session = NoSession
      <4>1. client[c].connects \in Nat
        BY <1>0, BoundsAssumption DEF ClientRecords
      <4> QED BY <1>0, <1>5, <4>1 DEF ClientConsistent, TakeSession, Connecting
    <3>6. Moves(c, n)
      BY <1>0, <3>4, <3>5, BoundsAssumption DEF Moves, ClientRecords
    <3>7. n.session = [run |-> m.value[1], id |-> m.value[2]] /\ n.session # NoSession
      BY <1>0, <3>2 DEF ClientRecords, NoSession
    <3>8. ClientConsistent(c)'
      BY <1>0, <1>5, <3>2, <3>4, <3>7
      DEF ClientConsistent, Waiting, Connecting, ClientRecords, TakeSession, ServerVars
    <3>9. n.answer = NoAnswer /\ n.outcome # "unreadable"
      BY <1>0 DEF ClientRecords, ClientConsistent
    <3>10. net' \subseteq net
      BY <1>5 DEF TakeSession
    <3> HIDE DEF n
    <3> QED BY <1>0, <3>3, <3>4, <3>6, <3>8, <3>9, <3>10, ClientStepKept
  <2> QED BY <1>5, <2>1, <2>2 DEF TakeSession
<1>6. CASE IsMine(c, m) /\ TakeAnswer(c, m)
  <2> DEFINE n == [client[c] EXCEPT !.pc = "idle", !.outcome = "ok", !.answer = m.value]
  <2>1. m.value = <<client[c].session.run, client[c].calls>> /\ m.value \in Nat \X Nat
    BY <1>0, <1>1, <1>6
    DEF ReplyOK, MessageOf, IsMine, TakeAnswer, IsLatest, CommandFor
  <2>2. n \in ClientRecords
    BY <1>0, <2>1 DEF ClientRecords, Outcomes
  <2>3. client' = [client EXCEPT ![c] = n] /\ client'[c] = n /\ net' \subseteq net
    BY <1>6 DEF TakeAnswer, SessionInv, SessionTypes
  <2>4. Moves(c, n)
    BY <1>0, <2>3, BoundsAssumption DEF Moves, ClientRecords
  <2>5. ClientConsistent(c)'
    BY <1>0, <1>6, <2>3
    DEF ClientConsistent, Waiting, Connecting, ClientRecords, TakeAnswer, ServerVars
  <2>6. n.answer = <<n.session.run, n.calls>> /\ n.outcome # "unreadable"
    BY <1>0, <2>1 DEF ClientRecords
  <2> HIDE DEF n
  <2> QED BY <1>0, <2>2, <2>3, <2>4, <2>5, <2>6, ClientStepKept
<1> QED BY <1>2, <1>3, <1>4, <1>5, <1>6

-----------------------------------------------------------------------------
(* The steps of the server *)

\* What is left to show of a step that leaves the clients alone: the new replies, and
\* a worker that has begun with a request.
LEMMA ServerStepKept ==
  ASSUME SessionInv, UNCHANGED client, incarnation' \in Runs, incarnation' >= incarnation,
         DOMAIN worker' = Workers,
         \A m \in net' \ net : m.to # Server /\ ReplyOK(m),
         \A w \in Workers : worker'[w].busy \in BOOLEAN /\ (worker'[w].busy =>
           \/ worker'[w] = worker[w]
           \/ /\ RequestOK(worker'[w].req) /\ worker'[w].req.cmd = "connect"
              /\ worker'[w].id \in NextKeys)
  PROVE  SessionInv'
<1>0. incarnation \in Nat /\ incarnation' \in Nat /\ 1..incarnation \subseteq 1..incarnation'
      /\ \A c \in Clients : client[c].session.run \in Nat
  <2>1. incarnation \in Nat /\ incarnation' \in Nat
    BY BoundsAssumption DEF SessionInv, SessionTypes, Runs
  <2> QED BY <2>1 DEF SessionInv, SessionTypes, ClientRecords
<1>1. SessionTypes' /\ (\A c \in Clients : ClientConsistent(c)')
  BY <1>0 DEF SessionInv, SessionTypes, ClientConsistent, Waiting, Connecting
<1>2. \A c \in Clients : Outlived(c) => Outlived(c)'
  BY <1>0 DEF Outlived
<1>3. AnswerIsOwn' /\ OneSessionReadable'
  BY <1>2 DEF SessionInv, AnswerIsOwn, OneSessionReadable
<1>4. /\ \A c, m : MessageOf(c, m) => MessageOf(c, m)'
      /\ \A m : RequestOK(m) => RequestOK(m)'
      /\ \A m : ReplyOK(m) => ReplyOK(m)'
  <2>1. \A c, m : MessageOf(c, m) => MessageOf(c, m)'
    BY <1>2 DEF MessageOf, IsLatest, Waiting, Connecting, CommandFor, KeyOf
  <2>2. \A m : RequestOK(m) => RequestOK(m)'
    BY <2>1 DEF RequestOK, CommandOf, IsLatest, Waiting, Connecting, KeyOf
  <2>3. ASSUME NEW m, ReplyOK(m) PROVE ReplyOK(m)'
    <3>1. m.cmd = "connect" /\ ~m.error => m.value \in (1..incarnation') \X NextKeys
      <4> SUFFICES ASSUME m.value \in (1..incarnation) \X NextKeys
                   PROVE  m.value \in (1..incarnation') \X NextKeys
        BY <2>3 DEF ReplyOK
      <4> QED BY <1>0
    <3> QED BY <2>1, <2>3, <3>1 DEF ReplyOK, IsLatest, Waiting, Connecting
  <2> QED BY <2>1, <2>2, <2>3
<1>6. MessagesOK'
  BY <1>4 DEF SessionInv, MessagesOK
<1>5. ASSUME NEW w \in Workers PROVE WorkerOK(w)'
  <2>1. WorkerOK(w)
    BY DEF SessionInv
  <2> QED BY <1>4, <1>5, <2>1 DEF WorkerOK
<1> QED BY <1>1, <1>3, <1>5, <1>6 DEF SessionInv

\* A reply with the fields of its request is as consistent as that.
LEMMA ReplyToRequest ==
  ASSUME SessionInv, NEW req, RequestOK(req), NEW m, m.to = req.from, m.cmd = req.cmd,
         m.seq = req.seq, m.id = req.id, m.value \in Nat \X Nat,
         m.cmd # "command" => m.key = NoKey,
         m.cmd = "connect" /\ ~m.error => m.value \in (1..incarnation) \X NextKeys,
         m.cmd = "command" => /\ m.key = req.key /\ req.key = SessionKey(m.value[1], req.id)
                              /\ m.value[2] = req.value[2]
  PROVE  m.to # Server /\ ReplyOK(m)
<1>1. MessageOf(m.to, m) /\ m.to \in Clients
  BY DEF RequestOK, MessageOf, IsLatest
<1>2. ASSUME IsLatest(m.to, m), m.cmd = "command"
      PROVE  m.value = <<client[m.to].session.run, client[m.to].calls>>
  <2>1. /\ req.key = KeyOf(req.from) /\ req.value[2] = client[req.from].calls
        /\ req.key = SessionKey(m.value[1], req.id)
    BY <1>2 DEF RequestOK, IsLatest
  <2> QED BY <1>2, <2>1 DEF KeyOf, SessionKey
<1> QED BY <1>1, <1>2, PeersAssumption DEF ReplyOK

LEMMA WorkerStepKept ==
  ASSUME SessionInv, NEW w \in Workers, WorkerStep(w)
  PROVE  SessionInv'
<1>0. /\ incarnation \in Runs /\ incarnation \in Nat /\ DOMAIN worker = Workers
      /\ \A v \in Workers : worker[v].busy \in BOOLEAN
      /\ Runs \subseteq Nat /\ NextKeys \subseteq Nat /\ 0 \in Nat
      /\ incarnation \in 1..incarnation /\ incarnation >= incarnation
  BY BoundsAssumption, SizeAssumption DEF SessionInv, SessionTypes, Runs, NextKeys
<1>1. ASSUME NEW cmd, NEW req \in Requests(cmd) PROVE RequestOK(req) /\ req.cmd = cmd
  BY <1>1 DEF Requests, SessionInv, MessagesOK
<1>2. CASE HandShake(w)
  <2> PICK req \in Requests("hello") : Answer(req, Reply(req, NoKey, <<incarnation, 0>>))
    BY <1>2 DEF HandShake
  <2>1. PICK m : m = Reply(req, NoKey, <<incarnation, 0>>)
    OBVIOUS
  <2>2. m.to # Server /\ ReplyOK(m)
    BY <1>0, <1>1, <2>1, ReplyToRequest DEF Reply
  <2> QED BY <1>0, <1>2, <2>1, <2>2, ServerStepKept DEF HandShake, Answer
<1>3. CASE BeginConnect(w)
  <2> PICK req \in Requests("connect"), id \in NextKeys :
        /\ worker' = [worker EXCEPT ![w] = [busy |-> TRUE, req |-> req, id |-> id]]
        /\ net' = net \ {req}
    BY <1>3 DEF BeginConnect
  <2> QED BY <1>0, <1>1, <1>3, ServerStepKept DEF BeginConnect
<1>4. CASE EndConnect(w)
  <2> PICK req : req = worker[w].req
    OBVIOUS
  <2>1. PICK m : m = [Reply(req, NoKey, <<incarnation, worker[w].id>>) EXCEPT !.under = m_pCoderAES]
    OBVIOUS
  <2>2. RequestOK(req) /\ req.cmd = "connect" /\ worker[w].id \in NextKeys
    BY <1>4 DEF EndConnect, SessionInv, WorkerOK
  <2>3. m.to # Server /\ ReplyOK(m)
    BY <1>0, <2>1, <2>2, ReplyToRequest DEF Reply
  <2>4. worker' = [worker EXCEPT ![w] = Idle] /\ net' = net \cup {m}
    BY <1>4, <2>1 DEF EndConnect
  <2>5. \A v \in Workers : IF v = w THEN ~worker'[v].busy ELSE worker'[v] = worker[v]
    BY <1>0, <2>4 DEF Idle
  <2>6. DOMAIN worker' = Workers /\ (\A v \in Workers : worker'[v].busy \in BOOLEAN)
    BY <1>0, <2>4 DEF Idle
  <2>7. UNCHANGED client /\ incarnation' \in Runs /\ incarnation' >= incarnation
    BY <1>0, <1>4 DEF EndConnect
  <2> QED BY <2>3, <2>4, <2>5, <2>6, <2>7, ServerStepKept
<1>5. CASE RefuseConnect(w)
  <2> PICK req \in Requests("connect") :
        Answer(req, [Reply(req, NoKey, NoAnswer) EXCEPT !.error = TRUE])
    BY <1>5 DEF RefuseConnect
  <2>1. PICK m : m = [Reply(req, NoKey, NoAnswer) EXCEPT !.error = TRUE]
    OBVIOUS
  <2>2. m.to # Server /\ ReplyOK(m)
    BY <1>0, <1>1, <2>1, ReplyToRequest DEF Reply, NoAnswer
  <2> QED BY <1>0, <1>5, <2>1, <2>2, ServerStepKept DEF RefuseConnect, Answer
<1>6. CASE Execute(w)
  <2> PICK req \in Requests("command") :
       \/ CanRead(req) /\ Answer(req, Reply(req, ReplyKey(req), <<incarnation, req.value[2]>>))
       \/ ~CanRead(req) /\ (net' = net \ {req} \/ Answer(req, ReplyToNoise(req)))
    BY <1>6 DEF Execute
  <2>1. PICK m : m = Reply(req, ReplyKey(req), <<incarnation, req.value[2]>>)
    OBVIOUS
  <2>2. CanRead(req) => m.to # Server /\ ReplyOK(m)
    <3>1. req.value[2] \in Nat
      BY <1>1 DEF RequestOK
    <3> QED BY <1>0, <1>1, <2>1, <3>1, ReplyToRequest DEF Reply, CanRead, ReplyKey
  <2>3. PICK n : n = ReplyToNoise(req)
    OBVIOUS
  <2>4. ASSUME ~CanRead(req) PROVE n.to # Server /\ ReplyOK(n)
    <3>1. RequestOK(req) /\ req.cmd = "command"
      BY <1>1
    <3> PICK c : c = req.from
      OBVIOUS
    <3>2. c \in Clients /\ MessageOf(c, req) /\ CommandOf(c, req)
      BY <3>1 DEF RequestOK, MessageOf
    <3>3. ClientConsistent(c) /\ client[c] \in ClientRecords
      BY <3>2 DEF SessionInv, SessionTypes
    <3>4. /\ n.to = c /\ n.cmd = "command" /\ n.seq = 0 /\ n.id = req.id /\ n.id \in Nat
          /\ n.value = NoAnswer /\ n.value \in Nat \X Nat
      BY <1>0, <2>3, <3>1, <3>2 DEF ReplyToNoise, Reply, NoiseSeq, NoAnswer, MessageOf
    <3>5. ~IsLatest(c, n) /\ n.seq \in Nat /\ n.seq <= client[c].seq
      BY <1>0, <3>3, <3>4 DEF IsLatest, ClientConsistent, ClientRecords
    <3>6. client[c].connects <= 1 => client[c].session # NoSession /\ Outlived(c)
      <4> SUFFICES ASSUME client[c].connects <= 1
                   PROVE  client[c].session # NoSession /\ client[c].session.run < incarnation
        BY DEF Outlived
      <4>1. /\ client[c].session # NoSession
            /\ req.key = SessionKey(client[c].session.run, req.id)
        BY <3>1, <3>2 DEF CommandOf, KeyOf
      <4>2. client[c].session.run # incarnation
        BY <2>4, <4>1 DEF CanRead
      <4>3. client[c].session.run \in Nat /\ client[c].session.run <= incarnation
        BY <3>3 DEF ClientConsistent, ClientRecords
      <4> QED BY <1>0, <4>1, <4>2, <4>3
    <3>7. MessageOf(c, n)
      BY <3>2, <3>4, <3>5, <3>6 DEF MessageOf
    <3> QED BY <3>2, <3>4, <3>5, <3>7, PeersAssumption DEF ReplyOK
  <2> QED BY <1>0, <1>6, <2>1, <2>2, <2>3, <2>4, ServerStepKept DEF Execute, Answer
<1> QED BY <1>2, <1>3, <1>4, <1>5, <1>6 DEF WorkerStep

LEMMA RestartKept ==
  ASSUME SessionInv, Restart
  PROVE  SessionInv'
<1>1. incarnation' \in Runs /\ incarnation' >= incarnation
  BY BoundsAssumption DEF Restart, SessionInv, SessionTypes, Runs
<1> QED BY <1>1, ServerStepKept DEF Restart, Idle

-----------------------------------------------------------------------------

LEMMA SessionInit == Init => SessionInv
<1> SUFFICES ASSUME Init PROVE SessionInv
  OBVIOUS
<1>1. 1 \in Runs /\ NoSession \in [run : Nat, id : Nat] /\ NoAnswer \in Nat \X Nat
  BY BoundsAssumption DEF Runs, NoSession, NoAnswer
<1>2. SessionTypes
  <2>1. 0 \in 0..MAX_CALLS_IN_CONNECT /\ 0 \in 0..MaxConnects /\ 0 \in 0..MaxCalls
    BY BoundsAssumption, TriesAssumption
  <2> QED BY <1>1, <2>1 DEF Init, SessionTypes, ClientRecords, Idle, Outcomes
<1> QED
  BY <1>2 DEF Init, SessionInv, ClientConsistent, NoSession, Waiting, Connecting, MessagesOK, WorkerOK,
    Idle, AnswerIsOwn, OneSessionReadable

LEMMA SessionNext == SessionInv /\ [Next]_vars => SessionInv'
<1> SUFFICES ASSUME SessionInv, [Next]_vars PROVE SessionInv'
  OBVIOUS
<1>1. ASSUME NEW c \in Clients, ClientStep(c) PROVE SessionInv'
  BY <1>1, ConnectKept, SendCommandKept, TimeOutKept, ReceiveKept DEF ClientStep
<1>2. ASSUME NEW w \in Workers, WorkerStep(w) PROVE SessionInv'
  BY <1>2, WorkerStepKept
<1>3. CASE UNCHANGED vars
  BY <1>3, LostKept DEF vars, ServerVars
<1> QED BY <1>1, <1>2, <1>3, RestartKept DEF Next

LEMMA SessionAlways == Spec => []SessionInv
BY SessionInit, SessionNext, PTL DEF Spec

\* The type invariant, with what the progress of a client says of its outcome and session.
THEOREM SessionTypeCorrect == Spec => []TypeOK
<1>1. SessionInv => TypeOK
  <2> SUFFICES ASSUME SessionInv PROVE TypeOK
    OBVIOUS
  <2>1. ASSUME NEW c \in Clients PROVE client[c] \in ClientRecords /\ ClientConsistent(c)
    BY DEF SessionInv, SessionTypes
  <2> QED BY <2>1 DEF TypeOK, SessionInv, SessionTypes, ClientConsistent, ClientRecords
<1> QED BY <1>1, SessionAlways, PTL

\* ComClient.Parse compares the number of the packet and the key of the session: for any
\* number of clients, workers, restarts, late and lost datagrams, the answer a client
\* takes belongs to its last command and comes from the run that gave it its session.
THEOREM AnswersAreOwn == Spec => []AnswerIsOwn
<1>1. SessionInv => AnswerIsOwn
  BY DEF SessionInv
<1> QED BY <1>1, SessionAlways, PTL

\* A call ends with an unreadable reply only for a client that has connected twice, or
\* when the server was started again since its session: for any number of both.
THEOREM OneSessionIsReadable == Spec => []OneSessionReadable
<1>1. SessionInv => OneSessionReadable
  BY DEF SessionInv
<1> QED BY <1>1, SessionAlways, PTL

-----------------------------------------------------------------------------
(***************************************************************************)
(* ZsClient: the calls on the open number are refused for a reason.        *)
(***************************************************************************)

ZsTypeOK ==
  /\ com \in Hosts \cup {NoHost}
  /\ openNum \in PhoneNumbers \cup {NoNum}
  /\ pinAt \in [Hosts -> [PhoneNumbers -> ClientPins \cup {NoPin}]]
  /\ DOMAIN called = {"right", "refused", "excused"}

\* The number that is open was opened where the client is connected, and its pin is the one
\* there unless there is a reason.
OpenIsThere ==
  openNum # NoNum =>
    /\ com \in Hosts /\ com = openedAt
    /\ stale = {} => pinAt[com][openNum] = openPin

ZsInv == ZsTypeOK /\ OpenIsThere /\ OpenNumberAnswers

\* PinChanges gives a reason when it changes the pin of the open number.
LEMMA PinChangesKeeps ==
  ASSUME ZsInv, NEW h \in Hosts, NEW num \in PhoneNumbers, NEW pin \in ClientPins \cup {NoPin},
         NEW reason, PinChanges(h, num, pin, reason),
         UNCHANGED <<com, openNum, openPin, openedAt, called>>
  PROVE  ZsInv'
<1>1. ZsTypeOK'
  BY DEF ZsInv, ZsTypeOK, PinChanges
<1>2. OpenIsThere'
  <2> SUFFICES ASSUME openNum # NoNum, stale' = {}
               PROVE  pinAt'[com][openNum] = openPin
    BY DEF ZsInv, OpenIsThere
  <2>1. com \in Hosts /\ openNum \in PhoneNumbers /\ com = openedAt
    BY DEF ZsInv, ZsTypeOK, OpenIsThere
  <2>2. stale = {} /\ (IsOpen(h, num) => pin = pinAt[h][num])
    BY DEF PinChanges
  <2>3. pinAt[com][openNum] = openPin
    BY <2>2 DEF ZsInv, OpenIsThere
  <2>4. CASE IsOpen(h, num)
    BY <2>1, <2>2, <2>3, <2>4 DEF PinChanges, IsOpen, ZsInv, ZsTypeOK
  <2>5. CASE ~IsOpen(h, num)
    BY <2>1, <2>3, <2>5 DEF PinChanges, IsOpen, ZsInv, ZsTypeOK
  <2> QED BY <2>4, <2>5
<1>3. OpenNumberAnswers'
  BY DEF ZsInv, OpenNumberAnswers
<1> QED BY <1>1, <1>2, <1>3 DEF ZsInv

LEMMA ZsInitInv == ZsInit => ZsInv
BY DEF ZsInit, ZsInv, ZsTypeOK, OpenIsThere, OpenNumberAnswers

\* Every way to another connection, and close, forgets the number.
LEMMA CloseKeeps ==
  ASSUME ZsInv, Close, UNCHANGED pinAt, com' \in Hosts \cup {NoHost}
  PROVE  ZsInv'
BY DEF ZsInv, ZsTypeOK, OpenIsThere, OpenNumberAnswers, Close

LEMMA OpenKeeps ==
  ASSUME ZsInv, NEW num \in PhoneNumbers, NEW pin \in ClientPins, open(num, pin)
  PROVE  ZsInv'
<1> USE ZsAssumption DEF ZsInv, ZsTypeOK, OpenIsThere, OpenNumberAnswers, open
<1>1. CASE IsRight(num, pin) /\ OpenAfterSend(num, pin) /\ stale' = {}
  BY <1>1 DEF IsRight, OpenAfterSend
<1>2. CASE OpenAfterThrow(num, pin) /\ UNCHANGED stale
  BY <1>2 DEF OpenAfterThrow, OpenStays
<1> QED BY <1>1, <1>2

LEMMA ChangePinKeeps ==
  ASSUME ZsInv, NEW num \in PhoneNumbers, NEW pin \in ClientPins, NEW newPin \in ClientPins,
         changePin(num, pin, newPin)
  PROVE  ZsInv'
<1>1. com \in Hosts /\ com' = com /\ called' = called
  BY DEF changePin, IsRight, ZsInv, ZsTypeOK
<1>2. CASE /\ pinAt' = [pinAt EXCEPT ![com][num] = newPin]
           /\ OpenAfterSend(num, pin)
           /\ stale' = IF newPin = pin THEN {} ELSE {"changePin"}
  <2>1. ZsTypeOK'
    BY <1>1, <1>2 DEF ZsInv, ZsTypeOK, OpenAfterSend
  <2>2. OpenIsThere'
    BY <1>1, <1>2 DEF ZsInv, ZsTypeOK, OpenAfterSend, OpenIsThere
  <2> QED BY <1>1, <2>1, <2>2 DEF ZsInv, OpenNumberAnswers
<1>3. CASE OpenAfterThrow(num, pin) /\ PinChanges(com, num, newPin, "time out")
  BY <1>1, <1>3, PinChangesKeeps DEF OpenAfterThrow, OpenStays
<1> QED BY <1>2, <1>3 DEF changePin

LEMMA CallKeeps == ZsInv /\ OnOpenNumber => ZsInv'
<1> SUFFICES ASSUME ZsInv, OnOpenNumber PROVE ZsInv'
  OBVIOUS
<1>1. ZsTypeOK' /\ OpenIsThere'
  BY DEF ZsInv, ZsTypeOK, OpenIsThere, OnOpenNumber, OpenStays
<1>2. com = openedAt
  BY DEF ZsInv, OpenIsThere, OnOpenNumber
<1>3. ~IsRight(openNum, openPin) => stale # {}
  BY ZsAssumption DEF ZsInv, OpenIsThere, OnOpenNumber, IsRight
<1>4. /\ called'.right = (com = openedAt)
      /\ called'.refused = ~IsRight(openNum, openPin)
      /\ called'.excused = (stale # {})
  BY Zenon DEF OnOpenNumber
<1>5. OpenNumberAnswers'
  BY <1>2, <1>3, <1>4, Zenon DEF OpenNumberAnswers
<1> QED BY <1>1, <1>5 DEF ZsInv

LEMMA ZsStep == ZsInv /\ [ZsNext]_zsVars => ZsInv'
<1> SUFFICES ASSUME ZsInv, [ZsNext]_zsVars PROVE ZsInv'
  OBVIOUS
<1>1. ASSUME NEW h \in Hosts, connect(h) \/ connectTimeOut(h)
      PROVE  ZsInv'
  BY <1>1, CloseKeeps DEF connect, connectTimeOut, OpenAfterConnect, ZsInv, ZsTypeOK
<1>2. CASE disConnect \/ close
  BY <1>2, CloseKeeps DEF disConnect, close, ZsInv, ZsTypeOK
<1>3. CASE mailCall \/ messageCall \/ tokenCall
  BY <1>3, CallKeeps DEF mailCall, messageCall, tokenCall
<1>4. ASSUME NEW num \in PhoneNumbers, NEW pin \in ClientPins, addNumber(num, pin)
      PROVE  ZsInv'
  <2>1. com \in Hosts
    BY <1>4 DEF addNumber, IsRight, ZsInv, ZsTypeOK
  <2> QED BY <1>4, <2>1, PinChangesKeeps DEF addNumber, OpenStays
<1>5. ASSUME NEW num \in PhoneNumbers, NEW pin \in ClientPins, deleteNumber(num, pin)
      PROVE  ZsInv'
  <2>1. com \in Hosts
    BY <1>5 DEF deleteNumber, IsRight, ZsInv, ZsTypeOK
  <2> QED BY <1>5, <2>1, PinChangesKeeps DEF deleteNumber, OpenStays
<1>6. ASSUME NEW h \in Hosts, NEW num \in PhoneNumbers, NEW pin \in ClientPins \cup {NoPin},
             OtherClient(h, num, pin)
      PROVE  ZsInv'
  BY <1>6, PinChangesKeeps DEF OtherClient, OpenStays
<1>7. CASE UNCHANGED zsVars
  BY <1>7 DEF zsVars, ZsInv, ZsTypeOK, OpenIsThere, OpenNumberAnswers
<1> QED BY <1>1, <1>2, <1>3, <1>4, <1>5, <1>6, <1>7, OpenKeeps, ChangePinKeeps DEF ZsNext

\* Calls on the open number reach the server that accepted it, and one is refused only after
\* the pin was changed there, for one of the reasons that OpenNumberAnswers names.
THEOREM RefusedForAReason == ZsSpec => []OpenNumberAnswers
<1>1. ZsInv => OpenNumberAnswers
  BY DEF ZsInv
<1> QED BY <1>1, ZsInitInv, ZsStep, PTL DEF ZsSpec

=============================================================================
