------------------------------ MODULE MsgBlock ------------------------------
(***************************************************************************)
(* The message index of one number (Core/MsgBlock.cpp): a header and a     *)
(* buffer of records in memory, both written through to the file "msg.in". *)
(* A record is RecLen cells, the status first and the id after it; the     *)
(* file is a sequence of cells, so that a write at a wrong offset puts the *)
(* records out of step as it does on disk.  The texts of the messages are  *)
(* files of their own.                                                     *)
(*                                                                         *)
(* One call runs at a time: the account's lock covers it.  Between calls   *)
(* the cache of blocks may close the file or drop the block, which is then *)
(* read again; a crash leaves the writes made before it (Crashes).         *)
(***************************************************************************)
EXTENDS Naturals, Sequences, FiniteSets, Selection

CONSTANTS
  Ids,       \* message ids; each is given to one message only
  MaxCount,  \* m_nMaxCount, MAX_MSG_IN_BLOCK
  Step,      \* RECORDS_STEP
  RecLen,    \* cells of a record
  Wrap,      \* 2^32: the counters of the header are unsigned int
  Heap,      \* what fresh memory may hold where a record will be
  Crashes    \* may the process stop between two writes of a call?

ASSUME MaxCountAssumption == MaxCount \in Nat \ {0} /\ Wrap \in Nat /\ MaxCount < Wrap
ASSUME LayoutAssumption == RecLen \in Nat \ {0, 1} /\ Step \in Nat \ {0}
ASSUME HeapAssumption == Heap # {} /\ \A r \in Heap : r = [k \in 1..RecLen |-> r[k]]
\* An id is a text of 32 characters, never a cell with a status or of zeros.
ASSUME IdsAssumption == Ids \cap {"N", "R", "D", "0"} = {}

VARIABLES
  block,   \* the CMsgBlock: hdr, loaded (m_bHeaderLoaded), open (the handle),
           \*   mem (the records in the buffer), cap (records it has room for,
           \*   0 when m_pMem is null)
  store,   \* on disk: hdr (zeros while the file is empty), body, texts
  ret,     \* what the last call returned
  used,     \* history: the ids given out
  deleted,  \* history: the ids deleted, by a call that answered or was cut short
  unpurged, \* history: those of them whose text could not be purged
  trust     \* history: where the records are as the calls left them, see Trusts

vars == <<block, store, ret, used, deleted, unpurged, trust>>

\* In the buffer and in the file; in the buffer only, once a new message was read
\* or the records compressed (what these write leaves the file different); or in
\* neither, once such a block is dropped, a record is added to records that are
\* not loaded, or the process stops within a call.
Trusts == {"both", "buffer", "neither"}

\* What is left of a when no more than b is.
Least(a, b) ==
  IF "neither" \in {a, b} THEN "neither" ELSE IF "buffer" \in {a, b} THEN "buffer" ELSE "both"

NoHeader == [total |-> 0, new |-> 0, deleted |-> 0]
Fresh == [hdr |-> NoHeader, loaded |-> FALSE, open |-> FALSE, mem |-> <<>>, cap |-> 0]

Init ==
  /\ block = Fresh
  /\ store = [hdr |-> NoHeader, body |-> <<>>, texts |-> {}]
  /\ ret = <<"none">>
  /\ used = {}
  /\ deleted = {}
  /\ unpurged = {}
  /\ trust = "both"

-----------------------------------------------------------------------------
(* Records and the file *)

Record(id, status) == [k \in 1..RecLen |-> IF k = 1 THEN status ELSE id]
HasId(rec, id) == \A k \in 2..RecLen : rec[k] = id
Cells(recs) ==
  [k \in 1..(Len(recs) * RecLen) |-> recs[1 + ((k - 1) \div RecLen)][1 + ((k - 1) % RecLen)]]

\* lseek() and write(): from cell pos of the body, longer when it must be, a gap
\* filled with zeros.
WriteAt(body, pos, cells) ==
  LET end == pos + Len(cells) - 1
  IN  [k \in 1..(IF end > Len(body) THEN end ELSE Len(body)) |->
         IF k \in pos..end THEN cells[k - pos + 1]
         ELSE IF k <= Len(body) THEN body[k] ELSE "0"]

\* The n records that read() puts into a new buffer: where the file ends too
\* early, the buffer keeps what it held.
ReadRecords(body, n, fill) ==
  [i \in 1..n |-> [k \in 1..RecLen |->
     LET at == (i - 1) * RecLen + k IN IF at <= Len(body) THEN body[at] ELSE fill[k]]]

-----------------------------------------------------------------------------
(* The steps that the calls share *)

Opened(b) == [b EXCEPT !.open = TRUE]

\* LoadHeader.  An empty file leaves the zeros of the constructor.
WithHeader(b) ==
  IF b.loaded THEN b ELSE [Opened(b) EXCEPT !.loaded = TRUE, !.hdr = store.hdr]

\* LoadAllRecords, called when there is no buffer.
WithRecords(b, fill) ==
  IF b.cap # 0 THEN b
  ELSE LET h == Opened(WithHeader(b))
       IN  [h EXCEPT !.mem = ReadRecords(store.body, h.hdr.total, fill),
                     !.cap = h.hdr.total]

Minus1(n) == (n + Wrap - 1) % Wrap
Plus1(n) == (n + 1) % Wrap

\* IsCompress: at least half full, and more than 80 percent deleted.
IsCompress(h) ==
  /\ h.total >= MaxCount \div 2
  /\ h.deleted * 100 > 80 * h.total

\* The records not marked deleted, moved together in their order.
Kept(mem) == Selected(mem, {i \in 1..Len(mem) : mem[i][1] # "D"})

HeaderAfterCompress_NoReset(h, kept) == [h EXCEPT !.total = kept]
HeaderAfterCompress(h, kept) == [h EXCEPT !.total = kept, !.deleted = 0]

\* Compress: nothing without a buffer, or when nothing is marked deleted.
Compressed(b) ==
  LET kept == Kept(b.mem)
  IN  IF b.cap = 0 \/ b.hdr.deleted = 0 \/ Len(kept) = Len(b.mem) THEN b
      ELSE [b EXCEPT !.mem = kept, !.hdr = HeaderAfterCompress(@, Len(kept))]

\* What a slot of a new buffer may hold: no id that was not given out before.
Fills == {r \in Heap : \A k \in 1..RecLen : r[k] \in Ids => r[k] \in used}

StoreHeader(s, h) == [s EXCEPT !.hdr = h]

\* Its two writes, the header and then the records kept; the file is not cut.
CompressWrites(s, b, c) ==
  IF b = c THEN <<>>
  ELSE LET s1 == StoreHeader(s, c.hdr)
       IN  <<s1, [s1 EXCEPT !.body = WriteAt(@, 1, Cells(c.mem))]>>

LastOf(s, writes) == IF writes = <<>> THEN s ELSE writes[Len(writes)]

\* A call ends with block b, its writes made and the result r; or the process
\* stops after some of them.
Finish(b, writes, r, right) ==
  \/ /\ block' = b
     /\ store' = LastOf(store, writes)
     /\ ret' = r
     /\ trust' = Least(trust, right)
  \/ /\ Crashes
     /\ \E k \in 1..(Len(writes) - 1) : store' = writes[k]
     /\ block' = Fresh
     /\ ret' = <<"none">>
     /\ trust' = "neither"

\* Compression leaves the records in the buffer only.
After(b, c) == IF b = c THEN "both" ELSE "buffer"

\* The first record with this id, as the search loops find it.
IndexOf(mem, id) ==
  LET found == {i \in 1..Len(mem) : HasId(mem[i], id)}
  IN  IF found = {} THEN 0 ELSE CHOOSE i \in found : \A j \in found : i <= j

-----------------------------------------------------------------------------
(* The calls *)

\* GetOffsetForNextRecord: one step of room more when the record does not fit.
RoomForNext_None(b) == b.cap
RoomForNext(b) == IF b.hdr.total + 1 > b.cap THEN b.cap + Step ELSE b.cap

NewAfterAdd_Kept(h) == h.new
NewAfterAdd(h) == Plus1(h.new)

\* StoreMsg and Add: the text is written first and purged again, if it can be, when
\* the index is full.  With no buffer nothing is compressed, and the slots of the
\* earlier records are not loaded.
Add(id) ==
  /\ id \notin used
  /\ used' = used \cup {id}
  /\ UNCHANGED <<deleted, unpurged>>
  /\ \E fill \in Fills, purged \in BOOLEAN :
       LET b == Opened(WithHeader(block))
           c == IF b.hdr.total >= MaxCount THEN Compressed(b) ELSE b
           saved == [store EXCEPT !.texts = @ \cup {id}]
           squeezed == CompressWrites(saved, b, c)
           old == IF c.cap = 0 THEN [i \in 1..c.hdr.total |-> fill] ELSE c.mem
           rec == Record(id, "N")
           h == [c.hdr EXCEPT !.total = Plus1(@), !.new = NewAfterAdd(c.hdr)]
           s1 == StoreHeader(LastOf(saved, squeezed), h)
           s2 == [s1 EXCEPT !.body = @ \o rec]
       IN  \/ /\ c.hdr.total >= MaxCount
              /\ Finish(c, <<saved>> \o squeezed \o
                           <<[LastOf(saved, squeezed) EXCEPT !.texts =
                                IF purged THEN @ \ {id} ELSE @]>>,
                        <<"add", id, "no space">>, After(b, c))
           \/ /\ c.hdr.total < MaxCount
              /\ Finish([c EXCEPT !.hdr = h, !.mem = Append(old, rec), !.cap = RoomForNext(c)],
                        <<saved>> \o squeezed \o <<s1, s2>>,
                        <<"add", id, "ok">>,
                        IF c.cap = 0 /\ c.hdr.total # 0 THEN "neither" ELSE After(b, c))

\* Where UpdateStoreStatus writes the status of record i in each of its two calls.
ReadStatusAt(i) == i * RecLen + 1
DeleteStatusAt_Next(i) == i * RecLen + 1
DeleteStatusAt(i) == (i - 1) * RecLen + 1

StatusAfterRead_New == "N"
StatusAfterRead == "R"

Marked(b, i, h, status) == [Opened(b) EXCEPT !.hdr = h, !.mem[i][1] = status]

ReadMessage(id) ==
  /\ UNCHANGED <<used, deleted, unpurged>>
  /\ \E fill \in Fills :
       LET b == WithRecords(block, fill)
           i == IndexOf(b.mem, id)
           h == [b.hdr EXCEPT !.new = Minus1(@)]
           s1 == StoreHeader(store, h)
           s2 == [s1 EXCEPT !.body = WriteAt(@, ReadStatusAt(i), <<StatusAfterRead>>)]
       IN  \/ /\ i = 0 \/ (i # 0 /\ b.mem[i][1] = "D") \/ id \notin store.texts
              /\ Finish(b, <<>>, <<"read", id, "error">>, "both")
           \/ /\ i # 0
              /\ id \in store.texts
              /\ b.mem[i][1] = "N"
              /\ Finish(Marked(b, i, h, StatusAfterRead), <<s1, s2>>, <<"read", id, "N">>, "buffer")
           \/ /\ i # 0
              /\ id \in store.texts
              /\ b.mem[i][1] \notin {"N", "D"}
              /\ Finish(b, <<>>, <<"read", id, b.mem[i][1]>>, "both")

TextsAfterDelete_Kept(texts, id) == texts
TextsAfterDelete(texts, id) == texts \ {id}

\* It goes on when the text cannot be purged, and reports the message deleted.
DeleteMessage(id) ==
  /\ UNCHANGED used
  /\ \E fill \in Fills, purged \in BOOLEAN :
       LET b == Opened(WithRecords(block, fill))
           i == IndexOf(b.mem, id)
           h == [b.hdr EXCEPT !.deleted = Plus1(@),
                              !.new = IF b.mem[i][1] = "N" THEN Minus1(@) ELSE @]
           d == Marked(b, i, h, "D")
           c == IF IsCompress(h) THEN Compressed(d) ELSE d
           s1 == [store EXCEPT !.texts = IF purged THEN TextsAfterDelete(@, id) ELSE @]
           s2 == StoreHeader(s1, h)
           s3 == [s2 EXCEPT !.body = WriteAt(@, DeleteStatusAt(i), <<"D">>)]
       IN  \/ /\ i = 0
              /\ Finish(b, <<>>, <<"delete", id, "error">>, "both")
              /\ UNCHANGED <<deleted, unpurged>>
           \/ /\ i # 0 /\ b.mem[i][1] = "D"
              /\ Finish(b, <<>>, <<"delete", id, "already deleted">>, "both")
              /\ UNCHANGED <<deleted, unpurged>>
           \/ /\ i # 0 /\ b.mem[i][1] # "D"
              /\ Finish(c, <<s1, s2, s3>> \o CompressWrites(s3, d, c),
                        <<"delete", id, "deleted">>, After(d, c))
              /\ deleted' = deleted \cup {id}
              /\ unpurged' = IF purged THEN unpurged \ {id} ELSE unpurged \cup {id}

\* The rows that GetIds returns: a record with no valid status is skipped.
Listed(mem, onlyNew) ==
  {i \in 1..Len(mem) : mem[i][1] \in (IF onlyNew THEN {"N"} ELSE {"N", "R"})}

Rows(mem, onlyNew) ==
  LET listed == Selected(mem, Listed(mem, onlyNew))
  IN  [i \in DOMAIN listed |-> <<listed[i][2], listed[i][1]>>]

GetIds(onlyNew) ==
  /\ UNCHANGED <<used, deleted, unpurged>>
  /\ \E fill \in Fills :
       LET b == WithRecords(block, fill)
           rows == IF onlyNew /\ b.hdr.new = 0 THEN <<>> ELSE Rows(b.mem, onlyNew)
       IN  Finish(b, <<>>, <<"list", onlyNew, rows>>, "both")

GetCount ==
  LET b == Opened(WithHeader(block))
  IN  /\ Finish(b, <<>>, <<"count", b.hdr.total, b.hdr.new>>, "both")
      /\ UNCHANGED <<used, deleted, unpurged>>

\* What CBlocksCache does to a block that nobody has locked.
CloseHandler ==
  /\ block.open
  /\ block' = [block EXCEPT !.open = FALSE]
  /\ UNCHANGED <<store, ret, used, deleted, unpurged, trust>>

\* The destructor; the next call makes a new CMsgBlock.  A crash or an exit
\* between two calls has the same effect.
Drop ==
  /\ block # Fresh
  /\ block' = Fresh
  /\ trust' = IF trust = "both" THEN trust ELSE "neither"
  /\ UNCHANGED <<store, ret, used, deleted, unpurged>>

-----------------------------------------------------------------------------

Overrun == Len(block.mem) > block.cap

Calls ==
  \/ \E id \in Ids : ReadMessage(id) \/ DeleteMessage(id)
  \/ \E onlyNew \in BOOLEAN : GetIds(onlyNew)
  \/ GetCount
  \/ CloseHandler

\* After a write outside the buffer the program has no defined behaviour, and
\* the model stops.
Next ==
  /\ ~Overrun
  /\ \/ Calls
     \/ \E id \in Ids : Add(id)
     \/ Drop

Spec == Init /\ [][Next]_vars

-----------------------------------------------------------------------------
(* Properties *)

Header == [total : 0..(Wrap - 1), new : 0..(Wrap - 1), deleted : 0..(Wrap - 1)]

\* The buffer holds exactly the records the header counts.  A record is written
\* outside it only by an Add to records that are not loaded, whose buffer is new.
TypeOK ==
  /\ block.hdr \in Header
  /\ block.loaded \in BOOLEAN /\ block.open \in BOOLEAN /\ trust \in Trusts
  /\ store.hdr \in Header
  /\ store.texts \subseteq used /\ used \subseteq Ids
  /\ deleted \subseteq used /\ unpurged \subseteq deleted
  /\ block.cap # 0 => Len(block.mem) = block.hdr.total
  /\ Overrun => block.cap = Step /\ trust = "neither"

\* The records that a caller would see now.
View ==
  IF block.cap # 0 THEN block.mem
  ELSE ReadRecords(store.body, WithHeader(block).hdr.total, CHOOSE r \in Heap : TRUE)

Marks(status) == Cardinality({i \in 1..Len(View) : View[i][1] = status})

\* The counters that GetCount and the compression test read are the numbers of
\* records with these marks, so no count wraps below zero, through adds, reads,
\* deletions, compressions, and drops of what the file holds too.
CountersExact ==
  trust # "neither" =>
    /\ WithHeader(block).hdr.new = Marks("N")
    /\ WithHeader(block).hdr.deleted = Marks("D")

\* Until a read or a compression puts them apart, the file holds the records of
\* the buffer and nothing else: a block can be dropped and read again.
FileAgrees == trust = "both" => store.body = Cells(View)

\* The index is an inbox, exactly so as long as the buffer or the file has its
\* records: every call returns what Mailbox allows.
Inbox == INSTANCE Mailbox WITH inbox <- Rows(View, FALSE), atHand <- block.cap # 0
ImplementsMailbox == Inbox!Spec

\* A message that was deleted is read again only if its text could not be purged
\* and its record was lost besides, by a drop, an overwriting or a crash: neither
\* of the two failures is enough.
Shown(id) == ret[1] = "read" /\ ret[2] = id /\ ret[3] # "error"
DeletedStaysUnread ==
  \A id \in deleted : Shown(id) => id \in unpurged /\ trust = "neither"

\* What the comment in ReadMessage says it does, "Update header and message
\* status": a message marked read in memory is marked read in the file.
ReadMarksFile ==
  \A i \in 1..Len(block.mem) :
    block.mem[i][1] = "R" => store.body[(i - 1) * RecLen + 1] = "R"
=============================================================================
