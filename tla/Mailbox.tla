------------------------------- MODULE Mailbox -------------------------------
(***************************************************************************)
(* What the message index of a number promises to its owner: an inbox of   *)
(* at most MaxCount messages, in the order of their arrival, each of them  *)
(* new until it is read once and gone for good when it is deleted.  The    *)
(* index keeps that promise as long as its records are right somewhere: in *)
(* memory and in its file, or in memory alone.  Which steps put the file   *)
(* apart, and which lose the records, is part of the promise, and so is    *)
(* what is left of it then.  MsgBlock is the index that the code keeps.    *)
(***************************************************************************)
EXTENDS Naturals, Sequences, FiniteSets, Selection

CONSTANTS
  Ids,       \* the ids of messages (GUIDs)
  MaxCount   \* the most messages an inbox holds

VARIABLES
  inbox,     \* the messages, oldest first: <<id, "N">> new, <<id, "R">> read
  ret,       \* what the last call returned
  trust,     \* "both": the memory and the file have the inbox; "buffer": only
             \*   the memory has it; "neither": it was lost
  atHand     \* are the messages in memory?

New(box) == {i \in 1..Len(box) : box[i][2] = "N"}
Place(id) == {i \in 1..Len(inbox) : inbox[i][1] = id}
Remove(i) == SubSeq(inbox, 1, i - 1) \o SubSeq(inbox, i + 1, Len(inbox))

Init == inbox = <<>> /\ ret = <<"none">> /\ trust = "both" /\ ~atHand

-----------------------------------------------------------------------------
(* The inbox *)

\* A call writes what it did to memory and file, or leaves the file behind.
Written == trust' = trust
FileBehind == trust' = "buffer"

\* A message is refused only by an inbox that holds MaxCount of them, or one that
\* is not in memory: its deleted messages still take up room.
Deliver(id) ==
  \/ /\ Len(inbox) < MaxCount
     /\ Place(id) = {}
     /\ inbox' = Append(inbox, <<id, "N">>)
     /\ ret' = <<"add", id, "ok">>
     /\ Written \/ FileBehind
  \/ /\ Len(inbox) = MaxCount \/ ~atHand
     /\ ret' = <<"add", id, "no space">>
     /\ Written
     /\ UNCHANGED inbox

\* Reading shows the status the message had, and leaves it read.
Read(id) ==
  \/ \E i \in Place(id) :
       /\ inbox' = [inbox EXCEPT ![i] = <<id, "R">>]
       /\ ret' = <<"read", id, inbox[i][2]>>
       /\ IF inbox[i][2] = "N" THEN FileBehind ELSE Written
  \/ /\ Place(id) = {}
     /\ ret' = <<"read", id, "error">>
     /\ Written
     /\ UNCHANGED inbox

Delete(id) ==
  \/ \E i \in Place(id) :
       /\ inbox' = Remove(i)
       /\ ret' = <<"delete", id, "deleted">>
       /\ Written \/ FileBehind
  \/ /\ Place(id) = {}
     /\ ret' \in {<<"delete", id, "already deleted">>, <<"delete", id, "error">>}
     /\ Written
     /\ UNCHANGED inbox

List(onlyNew) ==
  /\ ret' = <<"list", onlyNew, IF onlyNew THEN Selected(inbox, New(inbox)) ELSE inbox>>
  /\ Written
  /\ UNCHANGED inbox

\* The number of new messages is exact; the total may count deleted ones.
Count ==
  /\ \E total \in Len(inbox)..MaxCount : ret' = <<"count", total, Cardinality(New(inbox))>>
  /\ Written
  /\ UNCHANGED inbox

\* What is in memory stays there until it is dropped, and is in the file then.
Calls ==
  /\ trust # "neither"
  /\ atHand => atHand'
  /\ \/ \E id \in Ids : Deliver(id) \/ Read(id) \/ Delete(id)
     \/ \E onlyNew \in BOOLEAN : List(onlyNew)
     \/ Count

Drop ==
  /\ trust = "both"
  /\ ~atHand'
  /\ UNCHANGED <<inbox, ret, trust>>

-----------------------------------------------------------------------------
(* How the inbox is lost, and what is promised of any messages that may be   *)
(* found in its place                                                        *)

DropUnwritten ==
  /\ trust # "both"
  /\ ~atHand'
  /\ UNCHANGED ret

Crash == ~atHand' /\ ret' = <<"none">>

\* A message put to messages that are not in memory: it is there, the last one.
DeliverBlind(id) ==
  /\ trust = "neither" \/ ~atHand
  /\ ret' = <<"add", id, "ok">>
  /\ inbox' # <<>> /\ inbox'[Len(inbox')] = <<id, "N">>

\* A message that is read is there, as read; a full list is what is there.
LostCalls ==
  /\ trust = "neither"
  /\ \/ \E id \in Ids :
          \/ ret' \in {<<"add", id, "no space">>, <<"delete", id, "deleted">>,
                       <<"delete", id, "already deleted">>, <<"delete", id, "error">>}
          \/ /\ ret' \in {<<"read", id, "N">>, <<"read", id, "R">>}
             /\ \E i \in 1..Len(inbox') : inbox'[i] = <<id, "R">>
          \/ ret'[1] = "read" /\ ret'[2] = id /\ ret'[3] \notin {"N", "R"}
     \/ ret' = <<"list", FALSE, inbox'>>
     \/ ret'[1] = "list" /\ ret'[2] = TRUE
     \/ ret'[1] = "count"

Lost ==
  /\ trust' = "neither"
  /\ \/ DropUnwritten
     \/ Crash
     \/ \E id \in Ids : DeliverBlind(id)
     \/ LostCalls

Next == Calls \/ Drop \/ Lost

Spec == Init /\ [][Next]_<<inbox, ret, trust, atHand>>
=============================================================================
