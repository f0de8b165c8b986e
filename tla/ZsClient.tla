------------------------------ MODULE ZsClient ------------------------------
(***************************************************************************)
(* The facade of the Java client (client/ZsClient.java): the connection of *)
(* a user and the number that is open on it, over servers that answer,     *)
(* refuse, or execute a command whose answer is lost.                      *)
(*                                                                         *)
(* Every method is synchronized, and a step here; a method that throws     *)
(* before it sends is no step.  A server is reduced to the pin of each of  *)
(* its numbers, which other clients change too.  Session has the three     *)
(* tries of connect.                                                       *)
(***************************************************************************)
EXTENDS Naturals

CONSTANTS
  Hosts, PhoneNumbers, ClientPins,
  NoHost, NoNum, NoPin  \* null in the client; no such number on a server

ASSUME ZsAssumption == NoHost \notin Hosts /\ NoNum \notin PhoneNumbers

VARIABLES
  com,       \* the host of "client" (a ComClient), or NoHost
  openNum,
  openPin,
  pinAt,     \* each server: the pin of each number
  openedAt,  \* history: the host that accepted openNum with its pin
  stale,     \* history: why the server may have another pin than openPin
  called     \* history: the last call on the open number, whom it reached and how it ended

zsVars == <<com, openNum, openPin, pinAt, openedAt, stale, called>>

ZsInit ==
  /\ com = NoHost
  /\ openNum = NoNum /\ openPin = NoPin
  /\ pinAt = [h \in Hosts |-> [n \in PhoneNumbers |-> NoPin]]
  /\ openedAt = NoHost
  /\ stale = {}
  /\ called = [right |-> TRUE, refused |-> FALSE, excused |-> FALSE]

Close ==
  /\ openNum' = NoNum /\ openPin' = NoPin
  /\ openedAt' = NoHost
  /\ stale' = {}
  /\ UNCHANGED called

-----------------------------------------------------------------------------
(* The connection *)

OpenAfterConnect_Kept == UNCHANGED <<openNum, openPin, openedAt, stale, called>>
OpenAfterConnect == Close

\* connect(host, port): a ComClient that exists is connected again, to its own host.
connect(h) ==
  /\ com' = IF com = NoHost THEN h ELSE com
  /\ OpenAfterConnect
  /\ UNCHANGED pinAt

\* connect(host, port, timeOutSec): a new ComClient, unless the host is not found.
connectTimeOut(h) ==
  /\ com' \in {h, com}
  /\ OpenAfterConnect
  /\ UNCHANGED pinAt

disConnect == com' = NoHost /\ Close /\ UNCHANGED pinAt

close == Close /\ UNCHANGED <<com, pinAt>>

-----------------------------------------------------------------------------
(* The commands on a number with its pin *)

IsRight(num, pin) == com # NoHost /\ pinAt[com][num] = pin

IsOpen(h, num) == h = openedAt /\ num = openNum

\* The number gets another pin, or is added or deleted, for this reason.
PinChanges(h, num, pin, reason) ==
  /\ pinAt' = [pinAt EXCEPT ![h][num] = pin]
  /\ stale' = IF IsOpen(h, num) /\ pin # pinAt[h][num] THEN stale \cup {reason} ELSE stale

OpenStays == UNCHANGED <<openNum, openPin, openedAt>>

\* What open and changePin leave open when their Send returns, and when it throws.
OpenAfterSend(num, pin) == openNum' = num /\ openPin' = pin /\ openedAt' = com

OpenAfterThrow_Set(num, pin) == OpenAfterSend(num, pin)
OpenAfterThrow(num, pin) == OpenStays

open(num, pin) ==
  /\ com # NoHost
  /\ \/ IsRight(num, pin) /\ OpenAfterSend(num, pin) /\ stale' = {}
     \/ OpenAfterThrow(num, pin) /\ UNCHANGED stale
  /\ UNCHANGED <<com, pinAt, called>>

\* The new pin is not kept: the old one stays with the number.
changePin(num, pin, newPin) ==
  /\ IsRight(num, pin)
  /\ \/ /\ pinAt' = [pinAt EXCEPT ![com][num] = newPin]
        /\ OpenAfterSend(num, pin)
        /\ stale' = IF newPin = pin THEN {} ELSE {"changePin"}
     \/ OpenAfterThrow(num, pin) /\ PinChanges(com, num, newPin, "time out")
  /\ UNCHANGED <<com, called>>

\* Answered or not, nothing in the client changes.
addNumber(num, pin) ==
  /\ IsRight(num, NoPin)
  /\ PinChanges(com, num, pin, "addNumber")
  /\ OpenStays /\ UNCHANGED <<com, called>>

deleteNumber(num, pin) ==
  /\ IsRight(num, pin)
  /\ PinChanges(com, num, NoPin, "deleteNumber")
  /\ OpenStays /\ UNCHANGED <<com, called>>

OtherClient(h, num, pin) ==
  /\ PinChanges(h, num, pin, "other client")
  /\ OpenStays /\ UNCHANGED <<com, called>>

\* A command that is sent with openNum and openPin.
OnOpenNumber ==
  /\ com # NoHost /\ openNum # NoNum
  /\ called' = [right |-> com = openedAt, refused |-> ~IsRight(openNum, openPin),
                excused |-> stale # {}]
  /\ OpenStays /\ UNCHANGED <<com, pinAt, stale>>

\* getMsgIds, sendMsg; readMsg, deleteMsg, getMsgCount; getNumToken, newNumToken,
\* deleteNumToken.
mailCall == OnOpenNumber
messageCall == OnOpenNumber
tokenCall == OnOpenNumber

ZsNext ==
  \/ \E h \in Hosts : connect(h) \/ connectTimeOut(h)
  \/ disConnect \/ close \/ mailCall \/ messageCall \/ tokenCall
  \/ \E num \in PhoneNumbers, pin \in ClientPins :
       \/ open(num, pin) \/ addNumber(num, pin) \/ deleteNumber(num, pin)
       \/ \E newPin \in ClientPins : changePin(num, pin, newPin)
  \/ \E h \in Hosts, num \in PhoneNumbers, pin \in ClientPins \cup {NoPin} : OtherClient(h, num, pin)

ZsSpec == ZsInit /\ [][ZsNext]_zsVars

-----------------------------------------------------------------------------
(* Properties *)

\* The calls that send openNum and openPin (messages, tokens) reach the server that accepted
\* them, and are refused only after another pin was set there: by another client, by a call
\* whose answer was lost, by this client's own changePin (which keeps the old pin), or by a
\* deleteNumber or addNumber of the open number.
OpenNumberAnswers ==
  /\ called.right
  /\ called.refused => called.excused
=============================================================================
