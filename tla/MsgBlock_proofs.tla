-------------------------- MODULE MsgBlock_proofs ---------------------------
(***************************************************************************)
(* The message index: its counters and its file agree with its records,    *)
(* what was deleted is not read again, and the whole is the inbox of       *)
(* Mailbox, for any ids, sizes of the block and layouts of a record, with  *)
(* and without crashes, until its records are lost and after.              *)
(***************************************************************************)
EXTENDS MsgBlock, FunctionTheorems, FiniteSetTheorems, SequenceTheorems,
        WellFoundedInduction, TLAPS

-----------------------------------------------------------------------------
(* The invariant of a block whose records are right, in its buffer at least  *)

HeapCells == UNION {{r[k] : k \in 1..RecLen} : r \in Heap}
Values == Ids \cup HeapCells \cup {"0", "N", "R", "D"}
Recs == [1..RecLen -> Values]
Blocks == [hdr : Header, loaded : BOOLEAN, open : BOOLEAN, mem : Seq(Recs), cap : Nat]

\* The places of v with this mark.
PlacesOf(v, status) == {i \in 1..Len(v) : v[i][1] = status}

\* The header h counts the records v, and no id among them is yet to be given out.
Counts(h, v) ==
  /\ v \in Seq(Recs) /\ h \in Header
  /\ Len(v) = h.total /\ h.total <= MaxCount
  /\ h.new = Cardinality(PlacesOf(v, "N"))
  /\ h.deleted = Cardinality(PlacesOf(v, "D"))

IdsGiven(v, given) == \A i \in 1..Len(v) : \A id \in Ids : HasId(v[i], id) => id \in given

StoreTypes ==
  /\ store = [hdr |-> store.hdr, body |-> store.body, texts |-> store.texts]
  /\ store.texts \subseteq used /\ used \subseteq Ids /\ deleted \subseteq used
  /\ trust \in {"both", "buffer"}

\* The header in memory is the one on disk; records that are not on disk are in memory.
BlockInv ==
  /\ block \in Blocks
  /\ block.loaded => block.hdr = store.hdr
  /\ block.cap # 0 => block.loaded /\ Len(block.mem) <= block.cap
  /\ block.cap = 0 => block.mem = <<>>
  /\ trust = "both" \/ block.cap # 0

MsgInv ==
  /\ StoreTypes /\ BlockInv
  /\ Counts(store.hdr, View) /\ IdsGiven(View, used)
  /\ trust = "both" => store.body = Cells(View)

\* What is left of the trust in the records of such a block.
LEMMA LeastIs ==
  ASSUME NEW right
  PROVE  /\ Least("neither", right) = "neither" /\ Least(right, "neither") = "neither"
         /\ trust \in {"both", "buffer"} =>
              Least(trust, "both") = trust /\ Least(trust, "buffer") = "buffer"
  BY DEF Least

-----------------------------------------------------------------------------
(* Cells: where the records of a file stand                                  *)

LEMMA Division ==
  ASSUME NEW a \in Nat, NEW n \in Nat \ {0}
  PROVE  /\ a \div n \in Nat /\ a % n \in 0..(n - 1)
         /\ a = (a \div n) * n + (a % n)
<1>1. PICK q, r : q = a \div n /\ r = a % n
  OBVIOUS
<1>2. q \in Nat /\ r \in 0..(n - 1)
  BY <1>1
<1>3. a = n * q + r
  BY <1>1, <1>2
<1>4. a = q * n + r
  BY <1>2, <1>3
<1>5. a = (a \div n) * n + (a % n)
  BY <1>1, <1>4, Zenon
<1>6. a \div n \in Nat /\ a % n \in 0..(n - 1)
  OBVIOUS
<1> QED BY <1>5, <1>6

LEMMA Cell ==
  ASSUME NEW i \in Nat \ {0}, NEW n \in Nat \ {0}, NEW j \in 1..n
  PROVE  /\ (i - 1) * n + j \in Nat \ {0}
         /\ ((i - 1) * n + j - 1) \div n = i - 1 /\ ((i - 1) * n + j - 1) % n = j - 1
<1>1. PICK a \in Nat : a = i - 1
  OBVIOUS
<1>2. PICK k \in 0..(n - 1) : k = j - 1
  OBVIOUS
<1>3. (a * n + k) \div n = a /\ (a * n + k) % n = k
  OBVIOUS
<1>4. a * n \in Nat
  OBVIOUS
<1> QED BY <1>1, <1>2, <1>3, <1>4

LEMMA Below ==
  ASSUME NEW i \in Nat, NEW l \in Nat, NEW n \in Nat, i <= l
  PROVE  i * n <= l * n /\ i * n \in Nat /\ l * n \in Nat /\ (i + 1) * n = i * n + n
<1>1. PICK d \in Nat : l = i + d
  OBVIOUS
<1>2. l * n = i * n + d * n /\ d * n \in Nat /\ i * n \in Nat
  BY <1>1
<1> QED BY <1>2

\* A cell of l records belongs to one of them.
LEMMA CellOf ==
  ASSUME NEW l \in Nat, NEW n \in Nat \ {0}, NEW k \in 1..(l * n)
  PROVE  /\ 1 + ((k - 1) \div n) \in 1..l /\ 1 + ((k - 1) % n) \in 1..n
         /\ k = ((k - 1) \div n) * n + 1 + ((k - 1) % n)
<1>1. PICK a \in Nat : a = k - 1
  BY Below
<1>2. PICK q \in Nat, r \in 0..(n - 1) : q = a \div n /\ r = a % n /\ a = q * n + r
  BY Division
<1>3. q < l
  <2>1. CASE l <= q
    <3>1. l * n <= q * n
      BY <2>1, Below
    <3> QED BY <1>1, <1>2, <3>1, Below
  <2> QED BY <2>1
<1> QED BY <1>1, <1>2, <1>3

\* Record i of l has its cells within those of all.
LEMMA CellWithin ==
  ASSUME NEW l \in Nat, NEW n \in Nat \ {0}, NEW i \in 1..l, NEW j \in 1..n
  PROVE  (i - 1) * n + j \in 1..(l * n)
<1>1. PICK a \in Nat : a = i - 1 /\ a + 1 <= l
  OBVIOUS
<1>2. (a + 1) * n <= l * n /\ a * n \in Nat /\ (a + 1) * n = a * n + n /\ l * n \in Nat
  BY <1>1, Below
<1> QED BY <1>1, <1>2

\* Cell k of the file is cell j of record i.
IsCell(k, i, j) == k = (i - 1) * RecLen + j

LEMMA CellNumber ==
  ASSUME NEW k, NEW i \in Nat \ {0}, NEW j \in 1..RecLen, IsCell(k, i, j),
         NEW a \in Nat \ {0}, NEW b \in 1..RecLen, IsCell(k, a, b)
  PROVE  i = a /\ j = b
<1> USE LayoutAssumption
<1>1. ASSUME NEW c \in Nat \ {0}, NEW d \in 1..RecLen, IsCell(k, c, d)
      PROVE  c - 1 = (k - 1) \div RecLen /\ d - 1 = (k - 1) % RecLen
  BY <1>1, Cell DEF IsCell
<1>2. i - 1 = (k - 1) \div RecLen /\ j - 1 = (k - 1) % RecLen
  BY <1>1
<1>3. a - 1 = (k - 1) \div RecLen /\ b - 1 = (k - 1) % RecLen
  BY <1>1
<1>4. i - 1 = a - 1 /\ j - 1 = b - 1
  BY <1>2, <1>3
<1> QED BY <1>4

\* Every cell is one of a record.
LEMMA CellIn ==
  ASSUME NEW l \in Nat, NEW k \in 1..(l * RecLen)
  PROVE  \E i \in 1..l : \E j \in 1..RecLen : IsCell(k, i, j)
<1> USE LayoutAssumption
<1>0. k - 1 \in Nat /\ l * RecLen \in Nat
  BY Below
<1>1. PICK q \in Nat, r \in 0..(RecLen - 1) :
           q = (k - 1) \div RecLen /\ r = (k - 1) % RecLen
  BY <1>0, Division
<1>2. 1 + q \in 1..l /\ 1 + r \in 1..RecLen /\ k = q * RecLen + 1 + r
  BY <1>1, CellOf
<1>3. k = ((1 + q) - 1) * RecLen + (1 + r)
  <2>1. (1 + q) - 1 = q /\ q * RecLen \in Nat
    BY Below
  <2> QED BY <1>2, <2>1
<1> QED BY <1>2, <1>3 DEF IsCell

-----------------------------------------------------------------------------
(* The cells of records, written, appended, changed and read again           *)

LEMMA CellsType ==
  ASSUME NEW S, NEW v \in Seq([1..RecLen -> S])
  PROVE  /\ Len(v) \in Nat /\ Len(v) * RecLen \in Nat
         /\ Cells(v) \in Seq(S) /\ Len(Cells(v)) = Len(v) * RecLen
<1> USE LayoutAssumption
<1>1. Len(v) \in Nat /\ Len(v) * RecLen \in Nat
  BY Below
<1>2. Cells(v) = [k \in 1..(Len(v) * RecLen) |->
                    v[1 + ((k - 1) \div RecLen)][1 + ((k - 1) % RecLen)]]
  BY DEF Cells
<1>3. ASSUME NEW k \in 1..(Len(v) * RecLen)
      PROVE  v[1 + ((k - 1) \div RecLen)][1 + ((k - 1) % RecLen)] \in S
  <2>1. PICK i \in 1..Len(v), j \in 1..RecLen :
             i = 1 + ((k - 1) \div RecLen) /\ j = 1 + ((k - 1) % RecLen)
    BY <1>1, CellOf
  <2>2. v[i] \in [1..RecLen -> S]
    OBVIOUS
  <2>3. v[i][j] \in S
    BY <2>2
  <2> QED BY <2>1, <2>3
<1>4. Cells(v) \in [1..(Len(v) * RecLen) -> S]
  BY <1>2, <1>3
<1>5. Cells(v) \in Seq(S) /\ Len(Cells(v)) = Len(v) * RecLen
  BY <1>1, <1>4
<1> QED BY <1>1, <1>5

LEMMA CellsAre ==
  ASSUME NEW v \in Seq(Recs)
  PROVE  /\ Len(v) \in Nat /\ Len(v) * RecLen \in Nat
         /\ Cells(v) \in Seq(Values) /\ Len(Cells(v)) = Len(v) * RecLen
         /\ Cells(v) = [k \in 1..(Len(v) * RecLen) |->
                          v[1 + ((k - 1) \div RecLen)][1 + ((k - 1) % RecLen)]]
<1>1. v \in Seq([1..RecLen -> Values])
  BY DEF Recs
<1>2. /\ Len(v) \in Nat /\ Len(v) * RecLen \in Nat
      /\ Cells(v) \in Seq(Values) /\ Len(Cells(v)) = Len(v) * RecLen
  BY <1>1, CellsType, Zenon
<1> QED BY <1>2 DEF Cells

LEMMA CellAt ==
  ASSUME NEW v \in Seq(Recs), NEW i \in 1..Len(v), NEW j \in 1..RecLen,
         NEW k, IsCell(k, i, j)
  PROVE  k \in 1..(Len(v) * RecLen) /\ Cells(v)[k] = v[i][j]
<1> USE LayoutAssumption
<1>1. k \in 1..(Len(v) * RecLen)
  <2>1. Len(v) \in Nat
    OBVIOUS
  <2> QED BY <2>1, CellWithin DEF IsCell
<1>2. (k - 1) \div RecLen = i - 1 /\ (k - 1) % RecLen = j - 1
  BY Cell DEF IsCell
<1>3. 1 + ((k - 1) \div RecLen) = i /\ 1 + ((k - 1) % RecLen) = j
  BY <1>2
<1> QED BY <1>1, <1>3, CellsAre

\* A record appended to the file is the record appended to the buffer.
LEMMA CellsAppend ==
  ASSUME NEW v \in Seq(Recs), NEW rec \in Recs
  PROVE  Cells(v) \o rec = Cells(Append(v, rec))
<1> USE LayoutAssumption
<1> DEFINE w == Append(v, rec)
           n == Len(v) * RecLen
<1>1. w \in Seq(Recs) /\ Len(w) = Len(v) + 1 /\ Len(v) \in Nat
  OBVIOUS
<1>2. Len(w) * RecLen = n + RecLen /\ n \in Nat
  BY <1>1, Below
<1>3. rec \in Seq(Values) /\ Len(rec) = RecLen
  BY DEF Recs
<1>4. /\ Cells(v) \in Seq(Values) /\ Len(Cells(v)) = n
      /\ Cells(w) \in Seq(Values) /\ Len(Cells(w)) = n + RecLen
  BY <1>1, <1>2, CellsAre
<1> HIDE DEF n, w
<1>5. Cells(v) \o rec \in Seq(Values) /\ Len(Cells(v) \o rec) = n + RecLen
  BY <1>2, <1>3, <1>4, ConcatProperties
<1>6. ASSUME NEW k \in 1..(n + RecLen) PROVE (Cells(v) \o rec)[k] = Cells(w)[k]
  <2>1. PICK i \in 1..Len(w), j \in 1..RecLen : IsCell(k, i, j)
    <3>1. Len(w) \in Nat /\ k \in 1..(Len(w) * RecLen)
      BY <1>1, <1>2
    <3> QED BY <3>1, CellIn
  <2>2. Cells(w)[k] = w[i][j]
    BY <1>1, <2>1, CellAt
  <2>3. CASE i <= Len(v)
    <3>1. Cells(v)[k] = v[i][j] /\ k \in 1..n
      <4>1. i \in 1..Len(v)
        BY <1>1, <2>3
      <4> QED BY <2>1, <4>1, CellAt DEF n
    <3>2. (Cells(v) \o rec)[k] = Cells(v)[k]
      BY <1>2, <1>3, <1>4, <3>1, ConcatProperties
    <3>3. v[i] = w[i]
      BY <1>1, <2>3 DEF w
    <3> QED BY <2>2, <3>1, <3>2, <3>3
  <2>4. CASE i = Len(v) + 1
    <3>1. k = n + j
      BY <1>1, <2>1, <2>4 DEF n, IsCell
    <3>2. (Cells(v) \o rec)[k] = rec[j]
      <4>1. PICK c : c = Cells(v)
        OBVIOUS
      <4>2. c \in Seq(Values) /\ Len(c) = n /\ j \in 1..Len(rec)
        BY <1>3, <1>4, <4>1
      <4>3. (c \o rec)[Len(c) + j] = rec[j]
        BY <1>3, <4>2, ConcatProperties
      <4> QED BY <3>1, <4>1, <4>2, <4>3
    <3>3. rec = w[i]
      BY <1>1, <2>4 DEF w
    <3> QED BY <2>2, <3>2, <3>3
  <2>5. i <= Len(v) \/ i = Len(v) + 1
    BY <1>1
  <2> QED BY <2>3, <2>4, <2>5
<1> QED BY <1>4, <1>5, <1>6, SeqEqual DEF w

\* The records w are the records v with this status at place i.
MarkedAt(v, i, status, w) ==
  /\ w \in Seq(Recs) /\ Len(w) = Len(v)
  /\ \A a \in 1..Len(v) : a # i => w[a] = v[a]
  /\ w[i][1] = status /\ \A j \in 2..RecLen : w[i][j] = v[i][j]

LEMMA MarkOne ==
  ASSUME NEW v \in Seq(Recs), NEW i \in 1..Len(v), NEW status \in Values
  PROVE  MarkedAt(v, i, status, [v EXCEPT ![i][1] = status])
<1> USE LayoutAssumption
<1>5. PICK w : w = [v EXCEPT ![i][1] = status]
  OBVIOUS
<1>0. PICK rec : rec = [v[i] EXCEPT ![1] = status]
  OBVIOUS
<1>1. w = [v EXCEPT ![i] = rec]
  BY <1>0, <1>5
<1>2. v[i] \in Recs /\ 1 \in 1..RecLen
  OBVIOUS
<1>3. rec \in Recs /\ rec[1] = status /\ \A j \in 2..RecLen : rec[j] = v[i][j]
  BY <1>0, <1>2 DEF Recs
<1>4. /\ w \in Seq(Recs) /\ Len(w) = Len(v)
      /\ w[i] = rec /\ \A a \in 1..Len(v) : a # i => w[a] = v[a]
  BY <1>1, <1>3, ExceptSeq
<1>6. MarkedAt(v, i, status, w)
  BY <1>3, <1>4 DEF MarkedAt
<1> QED BY <1>5, <1>6

\* A status written in place is the mark in the buffer.
LEMMA CellsMark ==
  ASSUME NEW v \in Seq(Recs), NEW i \in 1..Len(v), NEW status, NEW w,
         MarkedAt(v, i, status, w)
  PROVE  WriteAt(Cells(v), DeleteStatusAt(i), <<status>>) = Cells(w)
<1> USE LayoutAssumption
<1>3. w[i][1] = status /\ 1 \in 1..RecLen /\ \A j \in 2..RecLen : w[i][j] = v[i][j]
  BY DEF MarkedAt
<1>4. /\ w \in Seq(Recs) /\ Len(w) = Len(v) /\ Len(v) \in Nat
      /\ \A a \in 1..Len(v) : a # i => w[a] = v[a]
  BY DEF MarkedAt
<1>5. PICK pos : pos = DeleteStatusAt(i)
  OBVIOUS
<1>6. pos = (i - 1) * RecLen + 1 /\ pos \in 1..(Len(v) * RecLen)
  <2>1. pos = (i - 1) * RecLen + 1
    BY <1>5 DEF DeleteStatusAt
  <2>2. IsCell(pos, i, 1)
    BY <2>1 DEF IsCell
  <2> QED BY <1>3, <2>1, <2>2, CellAt
<1>7. PICK n \in Nat : n = Len(v) * RecLen
  BY CellsAre
<1>8. /\ Cells(v) \in Seq(Values) /\ Len(Cells(v)) = n
      /\ Cells(w) \in Seq(Values) /\ Len(Cells(w)) = n
  BY <1>4, <1>7, CellsAre
<1>9. WriteAt(Cells(v), pos, <<status>>) = [k \in 1..n |-> IF k = pos THEN status ELSE Cells(v)[k]]
  <2>1. Len(<<status>>) = 1 /\ pos + 1 - 1 = pos /\ ~(pos > n) /\ pos..pos = {pos}
    BY <1>6, <1>7
  <2>2. \A k \in 1..n : k = pos => <<status>>[k - pos + 1] = status
    BY <1>6, <1>7
  <2>3. WriteAt(Cells(v), pos, <<status>>) =
          [k \in 1..n |-> IF k \in pos..pos THEN <<status>>[k - pos + 1]
                          ELSE IF k <= n THEN Cells(v)[k] ELSE "0"]
    BY <1>7, <1>8, <2>1 DEF WriteAt
  <2> QED BY <2>1, <2>2, <2>3
<1>10. ASSUME NEW k \in 1..n PROVE (IF k = pos THEN status ELSE Cells(v)[k]) = Cells(w)[k]
  <2>1. PICK a \in 1..Len(v), b \in 1..RecLen : IsCell(k, a, b)
    BY <1>4, <1>7, CellIn
  <2>2. Cells(w)[k] = w[a][b] /\ Cells(v)[k] = v[a][b]
    <3>1. a \in 1..Len(w) /\ w \in Seq(Recs)
      BY <1>4
    <3> QED BY <2>1, <3>1, CellAt
  <2>3. k = pos <=> a = i /\ b = 1
    <3>1. IsCell(pos, i, 1) /\ a \in Nat \ {0} /\ i \in Nat \ {0}
      BY <1>4, <1>6 DEF IsCell
    <3>2. k = pos => a = i /\ b = 1
      BY <1>3, <2>1, <3>1, CellNumber
    <3>3. a = i /\ b = 1 => k = pos
      BY <2>1, <3>1 DEF IsCell
    <3> QED BY <3>2, <3>3
  <2>4. CASE a # i
    BY <1>4, <2>2, <2>3, <2>4
  <2>5. CASE a = i
    BY <1>3, <1>4, <2>2, <2>3, <2>5
  <2> QED BY <2>4, <2>5
<1>11. Cells(w) = [k \in 1..n |-> Cells(w)[k]]
  BY <1>8
<1>12. WriteAt(Cells(v), pos, <<status>>) = Cells(w)
  BY <1>9, <1>10, <1>11
<1> QED BY <1>5, <1>12

\* What was written is what is read.
LEMMA ReadBack ==
  ASSUME NEW v \in Seq(Recs), NEW fill
  PROVE  ReadRecords(Cells(v), Len(v), fill) = v
<1> USE LayoutAssumption
<1>1. \A i \in 1..Len(v) : v[i] = [k \in 1..RecLen |-> v[i][k]]
  BY DEF Recs
<1>2. ASSUME NEW i \in 1..Len(v), NEW k \in 1..RecLen
      PROVE  /\ (i - 1) * RecLen + k <= Len(Cells(v))
             /\ Cells(v)[(i - 1) * RecLen + k] = v[i][k]
  <2>1. PICK at : at = (i - 1) * RecLen + k
    OBVIOUS
  <2>2. at \in 1..(Len(v) * RecLen) /\ Cells(v)[at] = v[i][k]
    BY <2>1, CellAt DEF IsCell
  <2> QED BY <2>1, <2>2, CellsAre
<1>3. v = [i \in 1..Len(v) |-> v[i]]
  OBVIOUS
<1>4. ReadRecords(Cells(v), Len(v), fill) = [i \in 1..Len(v) |-> [k \in 1..RecLen |-> v[i][k]]]
  BY <1>2 DEF ReadRecords
<1> QED BY <1>1, <1>3, <1>4

-----------------------------------------------------------------------------
(* InOrder: each number of P once, so that what is counted in P is counted   *)
(* in what was moved together                                                *)

LEMMA InOrderIs ==
  ASSUME NEW P \in SUBSET Nat, IsFiniteSet(P)
  PROVE  /\ Cardinality(P) \in Nat
         /\ InOrder(P) \in [1..Cardinality(P) -> P]
         /\ \A a, b \in 1..Cardinality(P) : InOrder(P)[a] = InOrder(P)[b] => a = b
         /\ \A i \in P : \E a \in 1..Cardinality(P) : InOrder(P)[a] = i
         /\ \A a \in 1..Cardinality(P) :
              Cardinality({j \in P : j <= InOrder(P)[a]}) = a
<1> DEFINE UpTo(i) == {j \in P : j <= i}
           Rank(i) == Cardinality(UpTo(i))
           r == [i \in P |-> Rank(i)]
<1>1. PICK n \in Nat : n = Cardinality(P)
  BY FS_CardinalityType
<1>2. ASSUME NEW i \in P
      PROVE  IsFiniteSet(UpTo(i)) /\ Rank(i) \in 1..n
  <2>1. IsFiniteSet(UpTo(i)) /\ Rank(i) <= n
    BY <1>1, FS_Subset
  <2>2. Rank(i) \in Nat /\ i \in UpTo(i)
    BY <2>1, FS_CardinalityType
  <2>3. Rank(i) # 0
    BY <2>1, <2>2, FS_EmptySet
  <2> HIDE DEF UpTo, Rank
  <2> QED BY <2>1, <2>2, <2>3
<1>3. ASSUME NEW i \in P, NEW j \in P, i < j PROVE Rank(i) # Rank(j)
  <2>1. UpTo(i) \subseteq UpTo(j) /\ j \in UpTo(j) /\ j \notin UpTo(i)
    <3>1. i \in Nat /\ j \in Nat /\ i < j /\ \A k \in P : k \in Nat
      BY <1>3
    <3>2. ASSUME NEW k \in P, k <= i PROVE k <= j
      BY <3>1, <3>2
    <3>3. i <= i /\ j <= j /\ ~(j <= i)
      BY <3>1
    <3> QED BY <3>2, <3>3
  <2>2. IsFiniteSet(UpTo(j))
    BY <1>2
  <2> HIDE DEF UpTo
  <2> QED BY <2>1, <2>2, FS_Subset
<1>4. \A i, j \in P : Rank(i) = Rank(j) => i = j
  <2> HIDE DEF Rank
  <2> QED BY <1>3
<1>5. \A a \in 1..n : \E i \in P : Rank(i) = a
  <2>1. r \in [P -> 1..n]
    BY <1>2
  <2>2. r \in Injection(P, 1..n)
    BY ZenonT(60), <1>4, <2>1, Fun_IsInj
  <2>3. IsFiniteSet(1..n) /\ Cardinality(1..n) = n
    BY FS_Interval
  <2>4. r \in Surjection(P, 1..n)
    BY <1>1, <2>2, <2>3, FS_Injection
  <2>5. \A a \in 1..n : \E i \in P : r[i] = a
    <3> HIDE DEF r
    <3> QED BY <2>4, Fun_SurjectionProperties
  <2> HIDE DEF Rank
  <2> QED BY <2>5
<1>6. InOrder(P) = [a \in 1..n |-> CHOOSE i \in P : Rank(i) = a]
  BY <1>1 DEF InOrder
<1> HIDE DEF Rank, UpTo, r
<1>7. \A a \in 1..n : InOrder(P)[a] \in P /\ Rank(InOrder(P)[a]) = a
  BY <1>5, <1>6
<1>8. InOrder(P) \in [1..n -> P]
  BY <1>6, <1>7
<1>9. \A i \in P : InOrder(P)[Rank(i)] = i
  BY <1>2, <1>4, <1>7
<1>10. \A a \in 1..n : Cardinality({j \in P : j <= InOrder(P)[a]}) = a
  BY <1>7 DEF Rank, UpTo
<1> QED BY <1>1, <1>2, <1>7, <1>8, <1>9, <1>10

LEMMA PlacesAreCounted ==
  ASSUME NEW v \in Seq(Recs), NEW status
  PROVE  /\ IsFiniteSet(PlacesOf(v, status)) /\ PlacesOf(v, status) \in SUBSET Nat
         /\ Cardinality(PlacesOf(v, status)) \in Nat
         /\ Cardinality(PlacesOf(v, status)) <= Len(v)
<1>1. IsFiniteSet(1..Len(v)) /\ Cardinality(1..Len(v)) = Len(v)
  <2>1. Len(v) \in Nat /\ 1 \in Int /\ Len(v) \in Int
    OBVIOUS
  <2> QED BY SMTT(30), <2>1, FS_Interval
<1>2. PlacesOf(v, status) \subseteq 1..Len(v)
  BY DEF PlacesOf
<1>3. IsFiniteSet(PlacesOf(v, status)) /\ Cardinality(PlacesOf(v, status)) <= Len(v)
  BY <1>1, <1>2, FS_Subset
<1> QED BY <1>2, <1>3, FS_CardinalityType

\* A record appended is counted under its mark.
LEMMA CountAppended ==
  ASSUME NEW v \in Seq(Recs), NEW rec \in Recs, NEW status
  PROVE  Cardinality(PlacesOf(Append(v, rec), status)) =
           Cardinality(PlacesOf(v, status)) + (IF rec[1] = status THEN 1 ELSE 0)
<1>1. /\ Len(v) \in Nat /\ Len(Append(v, rec)) = Len(v) + 1
      /\ \A i \in 1..Len(v) : Append(v, rec)[i] = v[i]
      /\ Append(v, rec)[Len(v) + 1] = rec
  BY AppendProperties
<1>2. CASE rec[1] = status
  <2>1. PlacesOf(Append(v, rec), status) = PlacesOf(v, status) \cup {Len(v) + 1}
    BY <1>1, <1>2 DEF PlacesOf
  <2>2. PICK P, n : P = PlacesOf(v, status) /\ n = Len(v) + 1
    OBVIOUS
  <2>3. n \notin P
    BY <1>1, <2>2 DEF PlacesOf
  <2>4. IsFiniteSet(P)
    BY <2>2, PlacesAreCounted
  <2>5. Cardinality(P \cup {n}) = Cardinality(P) + 1
    BY <2>3, <2>4, FS_AddElement
  <2> QED BY <1>2, <2>1, <2>2, <2>5
<1>3. CASE rec[1] # status
  <2>1. PlacesOf(Append(v, rec), status) = PlacesOf(v, status)
    BY <1>1, <1>3 DEF PlacesOf
  <2> QED BY <1>3, <2>1, PlacesAreCounted
<1> QED BY <1>2, <1>3

\* A mark changed is counted where it was and where it is.
LEMMA CountMarked ==
  ASSUME NEW v \in Seq(Recs), NEW i \in 1..Len(v), NEW w \in Seq(Recs), Len(w) = Len(v),
         \A j \in 1..Len(v) : j # i => w[j] = v[j],
         NEW status
  PROVE  Cardinality(PlacesOf(w, status)) =
           IF v[i][1] = w[i][1] THEN Cardinality(PlacesOf(v, status))
           ELSE IF w[i][1] = status THEN Cardinality(PlacesOf(v, status)) + 1
           ELSE IF v[i][1] = status THEN Cardinality(PlacesOf(v, status)) - 1
           ELSE Cardinality(PlacesOf(v, status))
<1>1. CASE v[i][1] = w[i][1] \/ (v[i][1] # status /\ w[i][1] # status)
  <2>1. PlacesOf(w, status) = PlacesOf(v, status)
    BY <1>1 DEF PlacesOf
  <2> QED BY <1>1, <2>1
<1>2. CASE v[i][1] # w[i][1] /\ w[i][1] = status
  <2>1. PlacesOf(w, status) = PlacesOf(v, status) \cup {i} /\ i \notin PlacesOf(v, status)
    BY <1>2 DEF PlacesOf
  <2> QED BY ZenonT(60), <1>2, <2>1, PlacesAreCounted, FS_AddElement
<1>3. CASE v[i][1] # w[i][1] /\ v[i][1] = status
  <2>1. PlacesOf(w, status) = PlacesOf(v, status) \ {i} /\ i \in PlacesOf(v, status)
    BY <1>3 DEF PlacesOf
  <2>2. Cardinality(PlacesOf(w, status)) = Cardinality(PlacesOf(v, status)) - 1
    BY ZenonT(60), <2>1, PlacesAreCounted, FS_RemoveElement
  <2>3. w[i][1] # status /\ v[i][1] # w[i][1] /\ v[i][1] = status
    BY <1>3
  <2> QED BY <2>2, <2>3
<1> QED BY <1>1, <1>2, <1>3

\* The n records kept of v are those at the places that f names.
KeptAs(S, v, n, f) ==
  /\ n \in Nat /\ n <= Len(v) /\ f \in [1..n -> 1..Len(v)]
  /\ Kept(v) = [a \in 1..n |-> v[f[a]]] /\ Kept(v) \in Seq(S)
  /\ \A a, b \in 1..n : f[a] = f[b] => a = b
  /\ \A a \in 1..n : v[f[a]][1] # "D"
  /\ \A i \in 1..Len(v) : v[i][1] # "D" => \E a \in 1..n : f[a] = i

LEMMA KeptFrom ==
  ASSUME NEW S, NEW v \in Seq(S)
  PROVE  \E n, f : KeptAs(S, v, n, f)
<1> DEFINE P == {i \in 1..Len(v) : v[i][1] # "D"}
<1>1. IsFiniteSet(P) /\ Cardinality(P) <= Len(v) /\ P \in SUBSET Nat /\ P \subseteq 1..Len(v)
  <2>1. IsFiniteSet(1..Len(v)) /\ Cardinality(1..Len(v)) = Len(v)
    <3>1. Len(v) \in Nat /\ 1 \in Int /\ Len(v) \in Int
      OBVIOUS
    <3> QED BY SMTT(30), <3>1, FS_Interval
  <2> QED BY <2>1, FS_Subset
<1>2. PICK n \in Nat : n = Cardinality(P)
  BY <1>1, FS_CardinalityType
<1>3. PICK f : f = InOrder(P)
  OBVIOUS
<1>4. /\ f \in [1..n -> P]
      /\ \A a, b \in 1..n : f[a] = f[b] => a = b
      /\ \A i \in P : \E a \in 1..n : f[a] = i
  BY <1>1, <1>2, <1>3, InOrderIs
<1>5. Kept(v) = [a \in 1..n |-> v[f[a]]]
  BY <1>3, <1>4 DEF Kept, Selected
<1>6. \A a \in 1..n : f[a] \in 1..Len(v) /\ v[f[a]][1] # "D" /\ v[f[a]] \in S
  BY <1>4
<1>7. Kept(v) \in Seq(S)
  BY <1>5, <1>6
<1>8. f \in [1..n -> 1..Len(v)]
  BY <1>4, <1>6
<1>9. \A i \in 1..Len(v) : v[i][1] # "D" => \E a \in 1..n : f[a] = i
  BY <1>4
<1>10. \A a, b \in 1..n : f[a] = f[b] => a = b
  BY <1>4
<1>11. n <= Len(v)
  BY <1>1, <1>2
<1>12. KeptAs(S, v, n, f)
  <2> HIDE DEF P
  <2> QED BY <1>5, <1>6, <1>7, <1>8, <1>9, <1>10, <1>11 DEF KeptAs
<1> QED BY <1>12

\* Compression keeps the new records and no deleted one.
LEMMA KeptIs ==
  ASSUME NEW v \in Seq(Recs)
  PROVE  /\ Kept(v) \in Seq(Recs) /\ Len(Kept(v)) <= Len(v)
         /\ \A n \in 1..Len(Kept(v)) : \E i \in 1..Len(v) : Kept(v)[n] = v[i]
         /\ Cardinality(PlacesOf(Kept(v), "N")) = Cardinality(PlacesOf(v, "N"))
         /\ Cardinality(PlacesOf(Kept(v), "D")) = 0
<1>1. PICK n, f : KeptAs(Recs, v, n, f)
  BY KeptFrom
<1>4. /\ n \in Nat /\ f \in [1..n -> 1..Len(v)] /\ n <= Len(v)
      /\ Kept(v) = [a \in 1..n |-> v[f[a]]] /\ Kept(v) \in Seq(Recs)
      /\ \A a, b \in 1..n : f[a] = f[b] => a = b
      /\ \A a \in 1..n : v[f[a]][1] # "D"
      /\ \A i \in 1..Len(v) : v[i][1] # "D" => \E a \in 1..n : f[a] = i
  BY <1>1 DEF KeptAs
<1>5. Kept(v) = [a \in 1..n |-> v[f[a]]]
  BY <1>4
<1>6. \A a \in 1..n : f[a] \in 1..Len(v) /\ v[f[a]][1] # "D" /\ v[f[a]] \in Recs
  BY <1>4
<1>7. Kept(v) \in Seq(Recs) /\ Len(Kept(v)) = n
  BY <1>4
<1>8. PlacesOf(Kept(v), "D") = {}
  BY <1>5, <1>6, <1>7 DEF PlacesOf
<1>9. Cardinality(PlacesOf(Kept(v), "N")) = Cardinality(PlacesOf(v, "N"))
  <2> DEFINE S == PlacesOf(Kept(v), "N")
             T == PlacesOf(v, "N")
             g == [a \in S |-> f[a]]
  <2>1. \A a \in S : a \in 1..n /\ f[a] \in T
    BY <1>5, <1>6, <1>7 DEF PlacesOf
  <2>2. \A i \in T : i \in 1..Len(v) /\ v[i][1] # "D"
    BY DEF PlacesOf
  <2>3. \A i \in T : \E a \in S : f[a] = i
    <3> SUFFICES ASSUME NEW i \in T PROVE \E a \in S : f[a] = i
      OBVIOUS
    <3>1. PICK a \in 1..n : f[a] = i
      BY <1>4, <2>2
    <3>2. v[i][1] = "N"
      BY DEF PlacesOf
    <3>3. a \in S
      BY <1>5, <1>7, <3>1, <3>2 DEF PlacesOf
    <3> QED BY <3>1, <3>3
  <2>4. IsFiniteSet(S)
    BY <1>7, PlacesAreCounted
  <2> HIDE DEF S, T
  <2>5. g \in Bijection(S, T)
    <3>1. g \in [S -> T] /\ \A a, b \in S : g[a] = g[b] => a = b
      BY <1>4, <2>1
    <3>2. \A i \in T : \E a \in S : g[a] = i
      BY <2>3
    <3> QED BY <3>1, <3>2, Fun_IsBij
  <2>6. Cardinality(T) = Cardinality(S)
    BY <2>4, <2>5, FS_Bijection DEF ExistsBijection
  <2> QED BY <2>6 DEF S, T
<1>10. \A a \in 1..n : \E i \in 1..Len(v) : Kept(v)[a] = v[i]
  BY <1>5, <1>6
<1> QED BY <1>4, <1>7, <1>8, <1>9, <1>10, FS_EmptySet

\* Where compression drops nothing, nothing was marked deleted.
LEMMA NoneDeleted ==
  ASSUME NEW v \in Seq(Recs), Len(Kept(v)) = Len(v)
  PROVE  PlacesOf(v, "D") = {}
<1>1. PICK P : P = {i \in 1..Len(v) : v[i][1] # "D"}
  OBVIOUS
<1>2. IsFiniteSet(1..Len(v)) /\ Cardinality(1..Len(v)) = Len(v)
  <2>1. PICK n \in Nat : n = Len(v)
    OBVIOUS
  <2>2. IsFiniteSet(1..n) /\ Cardinality(1..n) = n
    <3>1. 1 \in Int /\ n \in Int
      OBVIOUS
    <3> QED BY <3>1, FS_Interval
  <2> QED BY <2>1, <2>2
<1>3. P \subseteq 1..Len(v) /\ IsFiniteSet(P) /\ P \in SUBSET Nat
  BY <1>1, <1>2, FS_Subset
<1>4. PICK n, f : n = Cardinality(P) /\ n \in Nat /\ f = InOrder(P) /\ f \in [1..n -> P]
  BY <1>3, InOrderIs
<1>5. Kept(v) = [a \in 1..n |-> v[f[a]]]
  BY <1>1, <1>4 DEF Kept, Selected
<1>6. n \in Nat
  BY <1>4
<1>7. Len(Kept(v)) = n
  BY <1>5, <1>6
<1>8. P = 1..Len(v)
  BY <1>2, <1>3, <1>4, <1>7, FS_Subset
<1> QED BY <1>1, <1>8 DEF PlacesOf

-----------------------------------------------------------------------------
(* A call leaves the invariant when it leaves a block in memory that agrees  *)
(* with the header on disk and, unless it was untidy, with the file          *)

LEMMA Settles ==
  ASSUME StoreTypes', block' \in Blocks, block'.cap # 0, block'.loaded,
         block'.hdr = store'.hdr, Len(block'.mem) <= block'.cap,
         Counts(store'.hdr, block'.mem), IdsGiven(block'.mem, used'),
         trust' = "both" => store'.body = Cells(block'.mem)
  PROVE  MsgInv' /\ View' = block'.mem
<1>1. View' = block'.mem
  BY DEF View
<1>2. BlockInv'
  BY DEF BlockInv
<1>3. Counts(store'.hdr, View') /\ IdsGiven(View', used') /\ (trust' = "both" => store'.body = Cells(View'))
  BY <1>1
<1> QED BY <1>1, <1>2, <1>3 DEF MsgInv, Counts, IdsGiven, PlacesOf

\* The header a call works with is the one on disk.
LEMMA HeaderOnDisk ==
  ASSUME MsgInv
  PROVE  /\ WithHeader(block).hdr = store.hdr /\ WithHeader(block).loaded
         /\ WithHeader(block) \in Blocks
         /\ WithHeader(block).mem = block.mem /\ WithHeader(block).cap = block.cap
  BY DEF MsgInv, BlockInv, WithHeader, Opened, Blocks, Counts

\* The records a call works with are those that the last one left, in memory or not.
LEMMA RecordsAreView ==
  ASSUME MsgInv, NEW fill
  PROVE  /\ WithRecords(block, fill) \in Blocks
         /\ WithRecords(block, fill).hdr = store.hdr
         /\ WithRecords(block, fill).loaded
         /\ WithRecords(block, fill).mem = View
         /\ Len(View) <= WithRecords(block, fill).cap
         /\ WithRecords(block, fill).cap = 0 => View = <<>> /\ trust = "both" /\ block.cap = 0
<1>1. CASE block.cap # 0
  BY <1>1 DEF WithRecords, View, MsgInv, BlockInv
<1>2. CASE block.cap = 0
  <2>1. /\ WithHeader(block).hdr = store.hdr /\ WithHeader(block) \in Blocks
        /\ WithHeader(block).loaded
    BY HeaderOnDisk
  <2>2. /\ View \in Seq(Recs) /\ Len(View) = store.hdr.total /\ store.body = Cells(View)
        /\ trust = "both" /\ store.hdr.total \in Nat
    BY <1>2 DEF MsgInv, BlockInv, Counts, Header
  <2>3. ReadRecords(store.body, store.hdr.total, fill) = View
    BY <2>2, ReadBack
  <2>4. WithRecords(block, fill) =
          [Opened(WithHeader(block)) EXCEPT !.mem = View, !.cap = store.hdr.total]
    BY <1>2, <2>1, <2>3 DEF WithRecords, Opened, Blocks
  <2>5. PICK h : h = WithHeader(block)
    OBVIOUS
  <2>6. WithRecords(block, fill) = [h EXCEPT !.open = TRUE, !.mem = View, !.cap = store.hdr.total]
    BY <2>1, <2>4, <2>5 DEF Opened, Blocks
  <2>7. PICK b : b = [h EXCEPT !.open = TRUE, !.mem = View, !.cap = store.hdr.total]
    OBVIOUS
  <2>8. /\ b \in Blocks /\ b.hdr = store.hdr /\ b.loaded /\ b.mem = View
        /\ b.cap = store.hdr.total
    BY <2>1, <2>2, <2>5, <2>7 DEF Blocks
  <2>9. store.hdr.total = 0 => View = <<>>
    BY <2>2
  <2> QED BY <1>2, <2>2, <2>6, <2>7, <2>8, <2>9
<1> QED BY <1>1, <1>2

\* A call that leaves the index alone, a block dropped or its handle closed.
LEMMA LeavesIndex ==
  ASSUME MsgInv, StoreTypes', block' \in Blocks, trust' = trust, used \subseteq used',
         store'.hdr = store.hdr, store'.body = store.body,
         block'.loaded => block'.hdr = store.hdr,
         \/ /\ block'.cap # 0 /\ block'.loaded
            /\ block'.mem = View /\ Len(View) <= block'.cap
         \/ block'.cap = 0 /\ block'.mem = <<>> /\ trust = "both"
  PROVE  MsgInv' /\ View' = View
<1>1. /\ Counts(store.hdr, View) /\ IdsGiven(View, used')
      /\ trust = "both" => store.body = Cells(View)
  BY DEF MsgInv, IdsGiven
<1>2. CASE block'.cap # 0
  <2>1. block'.mem = View
    BY <1>2
  <2> QED BY <1>1, <1>2, <2>1, Settles
<1>3. CASE block'.cap = 0
  <2>1. BlockInv'
    BY <1>3 DEF BlockInv
  <2>2. View' = ReadRecords(store.body, store.hdr.total, CHOOSE r \in Heap : TRUE)
    BY <1>3 DEF View, WithHeader, Opened, Blocks
  <2>3. View' = View
    BY <1>1, <1>3, <2>2, ReadBack DEF Counts
  <2> QED BY <1>1, <2>1, <2>3 DEF MsgInv, Counts, IdsGiven, PlacesOf
<1> QED BY <1>2, <1>3

LEMMA LooksOnly ==
  ASSUME MsgInv, block' \in Blocks, UNCHANGED <<store, trust, used, deleted>>,
         block'.loaded => block'.hdr = store.hdr,
         \/ /\ block'.cap # 0 /\ block'.loaded
            /\ block'.mem = View /\ Len(View) <= block'.cap
         \/ block'.cap = 0 /\ block'.mem = <<>> /\ trust = "both"
  PROVE  MsgInv' /\ View' = View
<1>1. StoreTypes'
  BY DEF MsgInv, StoreTypes
<1> QED BY <1>1, LeavesIndex

-----------------------------------------------------------------------------
(* The parts of a call                                                       *)

LEMMA NoWrap ==
  ASSUME NEW n \in Nat, NEW w \in Nat, n < w
  PROVE  n % w = n /\ (w + n) % w = n
OBVIOUS

\* The counters do not wrap while they count records of the block.
LEMMA CountersMove ==
  ASSUME NEW n \in Nat, n <= MaxCount
  PROVE  (n > 0 => Minus1(n) = n - 1) /\ (n < MaxCount => Plus1(n) = n + 1)
<1> USE MaxCountAssumption
<1>1. ASSUME n > 0 PROVE Minus1(n) = n - 1
  <2>1. PICK m \in Nat : m = n - 1
    BY <1>1
  <2>2. (Wrap + m) % Wrap = m
    BY <2>1, NoWrap
  <2>3. n + Wrap - 1 = Wrap + m
    BY <2>1
  <2> QED BY <2>1, <2>2, <2>3 DEF Minus1
<1>2. ASSUME n < MaxCount PROVE Plus1(n) = n + 1
  <2>1. PICK m \in Nat : m = n + 1
    OBVIOUS
  <2>2. m % Wrap = m
    BY <1>2, <2>1, NoWrap
  <2> QED BY <2>1, <2>2 DEF Plus1
<1> QED BY <1>1, <1>2

\* The loops find a record with the id, or none.
LEMMA IndexIsFound ==
  ASSUME NEW S, NEW v \in Seq(S), NEW id
  PROVE  \/ IndexOf(v, id) = 0 /\ \A i \in 1..Len(v) : ~HasId(v[i], id)
         \/ IndexOf(v, id) \in 1..Len(v) /\ HasId(v[IndexOf(v, id)], id)
<1> DEFINE found == {i \in 1..Len(v) : HasId(v[i], id)}
<1>1. CASE found = {}
  BY <1>1 DEF IndexOf
<1>2. CASE found # {}
  <2>1. PICK i \in found : \A j \in found : ~(<<j, i>> \in OpToRel(<, Nat))
    <3>1. found \in SUBSET Nat
      OBVIOUS
    <3> QED BY <1>2, <3>1, NatLessThanWellFounded, WFMin
  <2>2. ASSUME NEW j \in found PROVE i <= j
    <3>1. i \in Nat /\ j \in Nat
      OBVIOUS
    <3>2. ~(j < i)
      BY <2>1, <3>1 DEF OpToRel
    <3> QED BY <3>1, <3>2
  <2>3. \E k \in found : \A j \in found : k <= j
    BY <2>2
  <2>4. PICK k : k = CHOOSE m \in found : \A j \in found : m <= j
    OBVIOUS
  <2>5. k \in found
    BY <2>3, <2>4
  <2>6. IndexOf(v, id) = k
    BY <1>2, <2>4 DEF IndexOf
  <2> QED BY <2>5, <2>6
<1> QED BY <1>1, <1>2

LEMMA MarkedIs ==
  ASSUME NEW b \in Blocks, NEW i \in 1..Len(b.mem), NEW h \in Header, NEW status \in Values,
         NEW d, d = Marked(b, i, h, status)
  PROVE  /\ d \in Blocks /\ d.hdr = h /\ d.cap = b.cap /\ d.loaded = b.loaded
         /\ MarkedAt(b.mem, i, status, d.mem)
<1>1. b.mem \in Seq(Recs)
  BY DEF Blocks
<1>2. MarkedAt(b.mem, i, status, [b.mem EXCEPT ![i][1] = status])
  BY <1>1, MarkOne
<1>3. PICK w : w = [b.mem EXCEPT ![i][1] = status] /\ MarkedAt(b.mem, i, status, w)
  BY <1>2
<1>4. d = [b EXCEPT !.open = TRUE, !.hdr = h, !.mem = w]
  BY <1>3 DEF Marked, Opened, Blocks
<1>5. d \in Blocks /\ d.hdr = h /\ d.cap = b.cap /\ d.loaded = b.loaded /\ d.mem = w
  BY <1>3, <1>4 DEF Blocks, MarkedAt
<1> QED BY <1>3, <1>5

\* The header after a mark was changed, in ReadMessage and in DeleteMessage.
Recounted(h, old, status, g) ==
  /\ g = [total |-> g.total, new |-> g.new, deleted |-> g.deleted] /\ g.total = h.total
  /\ g.new = IF old = "N" THEN Minus1(h.new) ELSE h.new
  /\ g.deleted = IF status = "D" THEN Plus1(h.deleted) ELSE h.deleted

LEMMA MarkIsCounted ==
  ASSUME NEW h, NEW v, NEW given, Counts(h, v), IdsGiven(v, given),
         NEW i \in 1..Len(v), NEW status \in {"R", "D"}, v[i][1] # "D", v[i][1] # status,
         NEW g, Recounted(h, v[i][1], status, g), NEW w, MarkedAt(v, i, status, w)
  PROVE  Counts(g, w) /\ IdsGiven(w, given)
<1>0. v \in Seq(Recs) /\ h \in Header /\ Len(v) = h.total /\ h.total <= MaxCount
      /\ h.new = Cardinality(PlacesOf(v, "N")) /\ h.deleted = Cardinality(PlacesOf(v, "D"))
  BY DEF Counts
<1>2. /\ w \in Seq(Recs) /\ Len(w) = Len(v) /\ \A j \in 1..Len(v) : j # i => w[j] = v[j]
      /\ \A j \in 2..RecLen : w[i][j] = v[i][j]
  BY DEF MarkedAt
<1>3. w[i][1] = status
  BY DEF MarkedAt
<1>4. Cardinality(PlacesOf(w, "N")) = IF v[i][1] = "N" THEN h.new - 1 ELSE h.new
  <2>1. status # "N"
    OBVIOUS
  <2> QED BY <1>0, <1>2, <1>3, <2>1, CountMarked
<1>5. Cardinality(PlacesOf(w, "D")) = IF status = "D" THEN h.deleted + 1 ELSE h.deleted
  BY <1>0, <1>2, <1>3, CountMarked
<1>6. /\ Cardinality(PlacesOf(w, "N")) \in Nat /\ Cardinality(PlacesOf(w, "N")) <= MaxCount
      /\ Cardinality(PlacesOf(w, "D")) \in Nat /\ Cardinality(PlacesOf(w, "D")) <= MaxCount
      /\ h.new \in Nat /\ h.new <= MaxCount /\ h.deleted \in Nat /\ h.deleted <= MaxCount
      /\ Len(v) \in Nat /\ MaxCount \in Nat
  <2>1. Len(v) \in Nat /\ MaxCount \in Nat /\ Len(v) <= MaxCount
    BY <1>0, MaxCountAssumption
  <2> QED BY <1>0, <1>2, <2>1, PlacesAreCounted
<1>7. g.new = Cardinality(PlacesOf(w, "N")) /\ g.deleted = Cardinality(PlacesOf(w, "D"))
      /\ g.total = h.total
  <2>1. v[i][1] = "N" => Minus1(h.new) = h.new - 1
    BY <1>4, <1>6, CountersMove
  <2>2. status = "D" => Plus1(h.deleted) = h.deleted + 1
    BY <1>5, <1>6, CountersMove
  <2> QED BY <1>0, <1>4, <1>5, <2>1, <2>2 DEF Recounted
<1>8. g \in Header
  <2>1. g = [total |-> g.total, new |-> g.new, deleted |-> g.deleted]
    BY DEF Recounted
  <2>2. g.total \in 0..(Wrap - 1) /\ g.new \in 0..(Wrap - 1) /\ g.deleted \in 0..(Wrap - 1)
    BY <1>0, <1>6, <1>7, MaxCountAssumption
  <2> QED BY <2>1, <2>2 DEF Header
<1>9. Counts(g, w)
  BY <1>0, <1>2, <1>7, <1>8 DEF Counts
<1>10. ASSUME NEW j \in 1..Len(w), NEW id \in Ids, HasId(w[j], id) PROVE id \in given
  <2>1. HasId(v[j], id) /\ j \in 1..Len(v)
    BY <1>2, <1>10 DEF HasId
  <2> QED BY <2>1 DEF IdsGiven
<1> QED BY <1>9, <1>10 DEF IdsGiven

\* Compression leaves a block that counts its records.
LEMMA CompressedIs ==
  ASSUME NEW b \in Blocks, NEW given, Counts(b.hdr, b.mem), IdsGiven(b.mem, given),
         b.loaded, b.cap # 0, Len(b.mem) <= b.cap
  PROVE  /\ Compressed(b) \in Blocks /\ Compressed(b).loaded /\ Compressed(b).cap = b.cap
         /\ Len(Compressed(b).mem) <= b.cap
         /\ Counts(Compressed(b).hdr, Compressed(b).mem) /\ IdsGiven(Compressed(b).mem, given)
<1>1. CASE Compressed(b) = b
  BY <1>1
<1>2. CASE Compressed(b) # b
  <2>1. PICK v, kept, h : v = b.mem /\ kept = Kept(v) /\ h = HeaderAfterCompress(b.hdr, Len(kept))
    OBVIOUS
  <2>2. v \in Seq(Recs) /\ b.hdr \in Header /\ b.cap \in Nat /\ Len(v) <= MaxCount /\ Len(v) <= b.cap
        /\ b.hdr.new = Cardinality(PlacesOf(v, "N"))
    BY <2>1 DEF Counts, Blocks
  <2>3. /\ kept \in Seq(Recs) /\ Len(kept) <= Len(v)
        /\ \A n \in 1..Len(kept) : \E i \in 1..Len(v) : kept[n] = v[i]
        /\ Cardinality(PlacesOf(kept, "N")) = Cardinality(PlacesOf(v, "N"))
        /\ Cardinality(PlacesOf(kept, "D")) = 0
    <3>1. v \in Seq(Recs) /\ kept = Kept(v)
      BY <2>1, <2>2
    <3> QED BY <3>1, KeptIs, Zenon
  <2>4. Compressed(b) = [b EXCEPT !.mem = kept, !.hdr = h]
    BY <1>2, <2>1 DEF Compressed
  <2>5. h = [b.hdr EXCEPT !.total = Len(kept), !.deleted = 0]
    BY <2>1 DEF HeaderAfterCompress
  <2>6. Len(kept) \in Nat /\ Len(kept) <= MaxCount /\ Len(kept) <= b.cap
    BY <2>2, <2>3, MaxCountAssumption
  <2>7. h \in Header /\ h.total = Len(kept) /\ h.deleted = 0 /\ h.new = b.hdr.new
    <3>1. Len(kept) \in 0..(Wrap - 1) /\ 0 \in 0..(Wrap - 1)
      BY <2>6, MaxCountAssumption
    <3> QED BY <2>2, <2>5, <3>1 DEF Header
  <2>8. Counts(h, kept)
    BY <2>2, <2>3, <2>6, <2>7 DEF Counts
  <2>9. IdsGiven(kept, given)
    BY <2>1, <2>3 DEF IdsGiven
  <2>10. /\ Compressed(b) \in Blocks /\ Compressed(b).loaded /\ Compressed(b).cap = b.cap
         /\ Compressed(b).mem = kept /\ Compressed(b).hdr = h
    BY <2>3, <2>4, <2>7 DEF Blocks
  <2> QED BY <2>6, <2>8, <2>9, <2>10
<1> QED BY <1>1, <1>2

\* What a call leaves is the last of its writes.
LEMMA LastOfThese ==
  ASSUME NEW s, NEW x, NEW y, NEW z
  PROVE  /\ LastOf(s, <<>>) = s
         /\ LastOf(s, <<x, y>>) = y
         /\ LastOf(s, <<x, y, z>>) = z
  BY DEF LastOf

LEMMA LastOfAll ==
  ASSUME NEW s, NEW S, NEW w \in Seq(S), NEW z \in Seq(S)
  PROVE  LastOf(s, w \o z) = IF z = <<>> THEN LastOf(s, w) ELSE LastOf(s, z)
<1>1. /\ w \o z \in Seq(S) /\ Len(w \o z) = Len(w) + Len(z)
      /\ \A k \in 1..Len(z) : (w \o z)[Len(w) + k] = z[k]
      /\ Len(w) \in Nat /\ Len(z) \in Nat
  BY ConcatProperties
<1>2. CASE z = <<>>
  <2>1. w \o z = w
    BY <1>2
  <2> QED BY <1>2, <2>1
<1>3. CASE z # <<>>
  <2>1. Len(z) \in 1..Len(z)
    BY <1>1, <1>3
  <2>2. w \o z # <<>>
    BY <1>1, <2>1
  <2> QED BY <1>1, <1>3, <2>1, <2>2 DEF LastOf
<1> QED BY <1>2, <1>3

LEMMA CompressedStore ==
  ASSUME NEW s, s = [hdr |-> s.hdr, body |-> s.body, texts |-> s.texts], NEW b, NEW c,
         NEW t, t = LastOf(s, CompressWrites(s, b, c))
  PROVE  /\ t = [hdr |-> t.hdr, body |-> t.body, texts |-> t.texts] /\ t.texts = s.texts
         /\ b = c => t = s
         /\ b # c => t.hdr = c.hdr
         /\ \E S : s \in S /\ t \in S /\ CompressWrites(s, b, c) \in Seq(S)
<1>1. CASE b = c
  <2>1. CompressWrites(s, b, c) = <<>>
    BY <1>1 DEF CompressWrites
  <2>2. t = s
    BY <2>1 DEF LastOf
  <2>3. CompressWrites(s, b, c) \in Seq({s})
    BY <2>1
  <2> QED BY <1>1, <2>2, <2>3
<1>2. CASE b # c
  <2>1. PICK p, q : /\ p = StoreHeader(s, c.hdr)
                    /\ q = [p EXCEPT !.body = WriteAt(@, 1, Cells(c.mem))]
    OBVIOUS
  <2>2. CompressWrites(s, b, c) = <<p, q>>
    BY <1>2, <2>1 DEF CompressWrites
  <2>3. t = q
    BY <2>2, Len(<<p, q>>) = 2 DEF LastOf
  <2>4. q = [hdr |-> q.hdr, body |-> q.body, texts |-> q.texts] /\ q.texts = s.texts /\ q.hdr = c.hdr
    BY <2>1 DEF StoreHeader
  <2>5. <<p, q>> \in Seq({s, p, q})
    OBVIOUS
  <2> QED BY <1>2, <2>2, <2>3, <2>4, <2>5
<1> QED BY <1>1, <1>2

-----------------------------------------------------------------------------
(* The calls: each keeps the invariant, and what it does to the records that *)
(* a caller sees                                                             *)

\* What is in memory stays there.
StaysAtHand == block.cap # 0 => block'.cap # 0

ReadLeaves(id, i) ==
  /\ used' = used /\ deleted' = deleted /\ store'.texts = store.texts /\ StaysAtHand
  /\ i # 0 => i \in 1..Len(View) /\ HasId(View[i], id)
  /\ \/ /\ i = 0 \/ View[i][1] = "D" \/ id \notin store.texts
        /\ View' = View /\ ret' = <<"read", id, "error">> /\ trust' = trust
     \/ /\ i # 0 /\ View[i][1] = "N"
        /\ MarkedAt(View, i, "R", View') /\ ret' = <<"read", id, "N">> /\ trust' = "buffer"
     \/ /\ i # 0 /\ View[i][1] \notin {"N", "D"}
        /\ View' = View /\ ret' = <<"read", id, View[i][1]>> /\ trust' = trust

LEMMA ReadKeeps ==
  ASSUME MsgInv, trust' # "neither", NEW id \in Ids, ReadMessage(id)
  PROVE  MsgInv' /\ ReadLeaves(id, IndexOf(View, id))
<1>1. PICK fill \in Fills :
        LET b == WithRecords(block, fill)
            i == IndexOf(b.mem, id)
            h == [b.hdr EXCEPT !.new = Minus1(@)]
            s1 == StoreHeader(store, h)
            s2 == [s1 EXCEPT !.body = WriteAt(@, ReadStatusAt(i), <<StatusAfterRead>>)]
        IN  \/ /\ block' = b /\ store' = LastOf(store, <<>>) /\ trust' = trust
               /\ \/ /\ i = 0 \/ b.mem[i][1] = "D" \/ id \notin store.texts
                     /\ ret' = <<"read", id, "error">>
                  \/ /\ i # 0 /\ b.mem[i][1] \notin {"N", "D"}
                     /\ ret' = <<"read", id, b.mem[i][1]>>
            \/ /\ i # 0 /\ b.mem[i][1] = "N"
               /\ block' = Marked(b, i, h, StatusAfterRead)
               /\ store' = LastOf(store, <<s1, s2>>) /\ trust' = "buffer"
               /\ ret' = <<"read", id, "N">>
  BY LeastIs DEF ReadMessage, Finish, MsgInv, StoreTypes
<1>2. UNCHANGED <<used, deleted>>
  BY DEF ReadMessage
<1>3. PICK b : b = WithRecords(block, fill)
  OBVIOUS
<1>4. /\ b \in Blocks /\ b.hdr = store.hdr /\ b.loaded /\ b.mem = View /\ Len(View) <= b.cap
      /\ b.cap = 0 => View = <<>> /\ trust = "both" /\ block.cap = 0
  BY <1>3, RecordsAreView
<1>0. /\ IndexOf(View, id) = IndexOf(b.mem, id)
      /\ IndexOf(View, id) # 0 =>
           IndexOf(View, id) \in 1..Len(View) /\ HasId(View[IndexOf(View, id)], id)
  <2>1. View \in Seq(Recs)
    BY DEF MsgInv, Counts
  <2> QED BY <1>4, <2>1, IndexIsFound
<1>5. CASE /\ block' = b /\ store' = LastOf(store, <<>>) /\ trust' = trust
           /\ ret' # <<"read", id, "N">>
  <2>1. store' = store
    BY <1>5, LastOfThese
  <2>2. MsgInv' /\ View' = View
    BY <1>2, <1>4, <1>5, <2>1, LooksOnly
  <2>3. PICK i : i = IndexOf(View, id)
    OBVIOUS
  <2>4. \/ (i = 0 \/ View[i][1] = "D" \/ id \notin store.texts) /\ ret' = <<"read", id, "error">>
        \/ i # 0 /\ View[i][1] \notin {"N", "D"} /\ ret' = <<"read", id, View[i][1]>>
    BY <1>0, <1>1, <1>3, <1>4, <1>5, <2>3
  <2>5. StaysAtHand
    BY <1>3, <1>4, <1>5 DEF StaysAtHand
  <2> QED BY <1>0, <1>2, <1>5, <2>1, <2>2, <2>3, <2>4, <2>5 DEF ReadLeaves
<1>6. CASE ~(/\ block' = b /\ store' = LastOf(store, <<>>) /\ trust' = trust
             /\ ret' # <<"read", id, "N">>)
  <2>1. PICK i, h, s1, s2 :
          /\ i = IndexOf(b.mem, id) /\ h = [b.hdr EXCEPT !.new = Minus1(@)]
          /\ s1 = StoreHeader(store, h)
          /\ s2 = [s1 EXCEPT !.body = WriteAt(@, ReadStatusAt(i), <<StatusAfterRead>>)]
    OBVIOUS
  <2>2. /\ i # 0 /\ b.mem[i][1] = "N" /\ block' = Marked(b, i, h, StatusAfterRead)
        /\ store' = LastOf(store, <<s1, s2>>) /\ trust' = "buffer"
        /\ ret' = <<"read", id, "N">>
    BY <1>1, <1>3, <1>6, <2>1
  <2>3. Counts(store.hdr, b.mem) /\ IdsGiven(b.mem, used) /\ StoreTypes
    BY <1>4 DEF MsgInv
  <2>4. i \in 1..Len(b.mem) /\ b.mem \in Seq(Recs) /\ h \in Header
    <3>1. b.mem \in Seq(Recs)
      BY <2>3 DEF Counts
    <3>2. i \in 1..Len(b.mem)
      BY <2>1, <2>2, <3>1, IndexIsFound
    <3>3. b.hdr \in Header /\ Minus1(b.hdr.new) \in 0..(Wrap - 1)
      <4>1. b.hdr \in Header
        BY <1>4, <2>3 DEF Counts
      <4>2. PICK n \in 0..(Wrap - 1) : n = b.hdr.new
        BY <4>1 DEF Header
      <4>3. Minus1(n) \in 0..(Wrap - 1)
        BY MaxCountAssumption DEF Minus1
      <4> QED BY <4>1, <4>2, <4>3
    <3> QED BY <2>1, <3>1, <3>2, <3>3 DEF Header
  <2>5. PICK d : d = Marked(b, i, h, "R")
    OBVIOUS
  <2>6. /\ d \in Blocks /\ d.hdr = h /\ d.cap = b.cap /\ d.loaded /\ block' = d
        /\ MarkedAt(b.mem, i, "R", d.mem)
    <3>1. "R" \in Values
      BY DEF Values
    <3>2. block' = d
      BY <2>2, <2>5 DEF StatusAfterRead
    <3> QED BY <1>4, <2>4, <2>5, <3>1, <3>2, MarkedIs
  <2>7. Counts(h, d.mem) /\ IdsGiven(d.mem, used)
    <3>1. Recounted(store.hdr, b.mem[i][1], "R", h)
      BY <1>4, <2>1, <2>2, <2>3 DEF Counts, Header, Recounted
    <3>2. "R" \in {"R", "D"} /\ b.mem[i][1] # "D" /\ b.mem[i][1] # "R"
      BY <2>2
    <3> QED BY <2>3, <2>4, <2>6, <3>1, <3>2, MarkIsCounted
  <2>8. store' = s2 /\ s2.hdr = h /\ s2.texts = store.texts
        /\ s2 = [hdr |-> s2.hdr, body |-> s2.body, texts |-> s2.texts]
    <3>1. store' = s2
      BY <2>2 DEF LastOf
    <3> QED BY <2>1, <2>3, <3>1 DEF StoreTypes, StoreHeader
  <2>9. StoreTypes'
    BY <1>2, <2>2, <2>3, <2>8 DEF StoreTypes
  <2>10. b.cap # 0
    BY <1>4, <2>4
  <2>11. /\ block' \in Blocks /\ block'.cap # 0 /\ block'.loaded /\ block'.hdr = store'.hdr
         /\ Len(block'.mem) <= block'.cap
    BY <1>4, <2>6, <2>8, <2>10 DEF MarkedAt
  <2>12. Counts(store'.hdr, block'.mem) /\ IdsGiven(block'.mem, used')
    BY <1>2, <2>6, <2>7, <2>8
  <2>13. MsgInv' /\ View' = block'.mem
    BY <2>2, <2>9, <2>11, <2>12, Settles
  <2>14. MarkedAt(View, i, "R", View') /\ i = IndexOf(View, id)
    <3>1. PICK u : u = View'
      OBVIOUS
    <3>2. u = d.mem
      BY <2>6, <2>13, <3>1
    <3> QED BY <1>0, <1>4, <2>1, <2>6, <3>1, <3>2
  <2>15. StaysAtHand
    BY <2>11 DEF StaysAtHand
  <2> QED BY <1>0, <1>2, <1>4, <2>2, <2>8, <2>13, <2>14, <2>15 DEF ReadLeaves
<1> QED BY <1>5, <1>6

ListLeaves(onlyNew) ==
  /\ UNCHANGED <<used, deleted, store, View, trust>> /\ StaysAtHand
  /\ ret' = <<"list", onlyNew,
              IF onlyNew /\ store.hdr.new = 0 THEN <<>> ELSE Rows(View, onlyNew)>>

LEMMA ListKeeps ==
  ASSUME MsgInv, trust' # "neither", NEW onlyNew \in BOOLEAN, GetIds(onlyNew)
  PROVE  MsgInv' /\ ListLeaves(onlyNew)
<1>1. PICK fill \in Fills :
        LET b == WithRecords(block, fill)
        IN  /\ block' = b /\ store' = LastOf(store, <<>>)
            /\ ret' = <<"list", onlyNew,
                        IF onlyNew /\ b.hdr.new = 0 THEN <<>> ELSE Rows(b.mem, onlyNew)>>
  BY DEF GetIds, Finish
<1>2. UNCHANGED <<used, deleted, trust>>
  BY LeastIs DEF GetIds, Finish, MsgInv, StoreTypes
<1>3. PICK b : b = WithRecords(block, fill)
  OBVIOUS
<1>4. /\ b \in Blocks /\ b.hdr = store.hdr /\ b.loaded /\ b.mem = View /\ Len(View) <= b.cap
      /\ b.cap = 0 => View = <<>> /\ trust = "both" /\ block.cap = 0
  BY <1>3, RecordsAreView
<1>5. store' = store /\ block' = b
  BY <1>1, <1>3, LastOfThese
<1>6. MsgInv' /\ View' = View
  BY <1>2, <1>4, <1>5, LooksOnly
<1>7. ret' = <<"list", onlyNew,
               IF onlyNew /\ store.hdr.new = 0 THEN <<>> ELSE Rows(View, onlyNew)>>
  BY <1>1, <1>3, <1>4
<1>8. StaysAtHand
  BY <1>4, <1>5 DEF StaysAtHand
<1> QED BY <1>2, <1>5, <1>6, <1>7, <1>8 DEF ListLeaves

CountLeaves ==
  /\ UNCHANGED <<used, deleted, store, View, trust>> /\ StaysAtHand
  /\ ret' = <<"count", store.hdr.total, store.hdr.new>>

LEMMA CountKeeps ==
  ASSUME MsgInv, trust' # "neither", GetCount
  PROVE  MsgInv' /\ CountLeaves
<1>1. PICK b : b = WithHeader(block)
  OBVIOUS
<1>2. b.hdr = store.hdr /\ b.loaded /\ b \in Blocks /\ b.mem = block.mem /\ b.cap = block.cap
  BY <1>1, HeaderOnDisk
<1>3. block' = [b EXCEPT !.open = TRUE] /\ store' = LastOf(store, <<>>)
  BY <1>1 DEF GetCount, Finish, Opened
<1>8. ret' = <<"count", store.hdr.total, store.hdr.new>>
  <2>1. Opened(b).hdr = store.hdr
    BY <1>2 DEF Opened, Blocks
  <2>2. ret' = <<"count", Opened(b).hdr.total, Opened(b).hdr.new>>
    BY <1>1 DEF GetCount, Finish
  <2> QED BY <2>1, <2>2
<1>4. UNCHANGED <<used, deleted, trust>>
  BY LeastIs DEF GetCount, Finish, MsgInv, StoreTypes
<1>5. store' = store
  BY <1>3, LastOfThese
<1>6. block' \in Blocks /\ block'.hdr = store.hdr /\ block'.loaded /\ block'.mem = block.mem
      /\ block'.cap = block.cap
  BY <1>2, <1>3 DEF Blocks
<1>7. /\ block.cap # 0 => block.mem = View /\ Len(View) <= block.cap
      /\ block.cap = 0 => block.mem = <<>> /\ trust = "both"
  BY DEF MsgInv, BlockInv, View
<1>9. MsgInv' /\ View' = View
  BY <1>4, <1>5, <1>6, <1>7, LooksOnly
<1>10. StaysAtHand
  BY <1>6 DEF StaysAtHand
<1> QED BY <1>4, <1>5, <1>8, <1>9, <1>10 DEF CountLeaves

\* What the cache of blocks does to a block between two calls.
NothingSeen == UNCHANGED <<View, ret, store, used, deleted, trust>>

LEMMA CloseKeeps ==
  ASSUME MsgInv, CloseHandler
  PROVE  MsgInv' /\ NothingSeen /\ block'.cap = block.cap
<1>1. block' = [block EXCEPT !.open = FALSE] /\ UNCHANGED <<store, ret, used, deleted, trust>>
  BY DEF CloseHandler
<1>2. BlockInv
  BY DEF MsgInv
<1>3. /\ block' \in Blocks /\ block'.hdr = block.hdr /\ block'.loaded = block.loaded
      /\ block'.mem = block.mem /\ block'.cap = block.cap
  BY <1>1, <1>2 DEF BlockInv, Blocks
<1>4. /\ block.cap # 0 => block.mem = View /\ Len(View) <= block.cap /\ block.loaded
      /\ block.cap = 0 => block.mem = <<>> /\ trust = "both"
      /\ block.loaded => block.hdr = store.hdr
  BY <1>2 DEF BlockInv, View
<1>5. MsgInv' /\ View' = View
  BY <1>1, <1>3, <1>4, LooksOnly
<1> QED BY <1>1, <1>3, <1>5 DEF NothingSeen

LEMMA DropKeeps ==
  ASSUME MsgInv, trust' # "neither", Drop
  PROVE  MsgInv' /\ NothingSeen /\ block'.cap = 0 /\ trust = "both"
<1>1. block' = Fresh /\ UNCHANGED <<store, ret, used, deleted, trust>> /\ trust = "both"
  BY DEF Drop
<1>2. Fresh \in Blocks /\ ~Fresh.loaded /\ Fresh.cap = 0 /\ Fresh.mem = <<>>
  BY MaxCountAssumption DEF Fresh, Blocks, Header, NoHeader
<1>3. MsgInv' /\ View' = View
  BY <1>1, <1>2, LooksOnly
<1> QED BY <1>1, <1>2, <1>3 DEF NothingSeen

\* Compression at the end of a call: the block left is settled either way.
DeleteLeaves(id, i) ==
  /\ used' = used /\ StaysAtHand
  /\ i # 0 => i \in 1..Len(View) /\ HasId(View[i], id)
  /\ \/ /\ i = 0 /\ UNCHANGED <<View, trust, deleted>> /\ store'.texts = store.texts
        /\ ret' = <<"delete", id, "error">>
     \/ /\ i # 0 /\ View[i][1] = "D" /\ UNCHANGED <<View, trust, deleted>>
        /\ store'.texts = store.texts
        /\ ret' = <<"delete", id, "already deleted">>
     \/ /\ i # 0 /\ View[i][1] # "D" /\ store'.texts \in {store.texts, store.texts \ {id}}
        /\ deleted' = deleted \cup {id} /\ trust' \in {trust, "buffer"}
        /\ \E w : MarkedAt(View, i, "D", w) /\ View' \in {w, Kept(w)}
        /\ ret' = <<"delete", id, "deleted">>

\* What DeleteMessage does with this much of fresh memory, its text purged or not.
DeleteSteps(id, fill, purged) ==
  LET b == Opened(WithRecords(block, fill))
      i == IndexOf(b.mem, id)
      h == [b.hdr EXCEPT !.deleted = Plus1(@),
                         !.new = IF b.mem[i][1] = "N" THEN Minus1(@) ELSE @]
      d == Marked(b, i, h, "D")
      c == IF IsCompress(h) THEN Compressed(d) ELSE d
      s1 == [store EXCEPT !.texts = IF purged THEN TextsAfterDelete(@, id) ELSE @]
      s2 == StoreHeader(s1, h)
      s3 == [s2 EXCEPT !.body = WriteAt(@, DeleteStatusAt(i), <<"D">>)]
  IN  \/ /\ i = 0
         /\ Finish(b, <<>>, <<"delete", id, "error">>, "both")
         /\ UNCHANGED <<deleted, unpurged>>
      \/ /\ i # 0 /\ b.mem[i][1] = "D"
         /\ Finish(b, <<>>, <<"delete", id, "already deleted">>, "both")
         /\ UNCHANGED <<deleted, unpurged>>
      \/ /\ i # 0 /\ b.mem[i][1] # "D"
         /\ Finish(c, <<s1, s2, s3>> \o CompressWrites(s3, d, c),
                   <<"delete", id, "deleted">>, After(d, c))
         /\ deleted' = deleted \cup {id}
         /\ unpurged' = IF purged THEN unpurged \ {id} ELSE unpurged \cup {id}

LEMMA DeleteDoes ==
  ASSUME NEW id, DeleteMessage(id)
  PROVE  used' = used /\ \E fill \in Fills, purged \in BOOLEAN : DeleteSteps(id, fill, purged)
  BY Zenon DEF DeleteMessage, DeleteSteps

\* A call that leaves the records somewhere has come to its end.
LEMMA CallEnds ==
  ASSUME trust' # "neither", NEW b, NEW w, NEW r, NEW right, Finish(b, w, r, right)
  PROVE  /\ block' = b /\ store' = LastOf(store, w) /\ ret' = r
         /\ trust' = Least(trust, right) /\ right # "neither"
  BY LeastIs DEF Finish

LEMMA DeleteKeeps ==
  ASSUME MsgInv, trust' # "neither", NEW id \in Ids, DeleteMessage(id)
  PROVE  MsgInv' /\ DeleteLeaves(id, IndexOf(View, id))
<1>1. PICK fill \in Fills, purged \in BOOLEAN : DeleteSteps(id, fill, purged)
  BY DeleteDoes
<1>2. used' = used
  BY DeleteDoes
<1>3. PICK b : b = Opened(WithRecords(block, fill))
  OBVIOUS
<1>4. /\ b \in Blocks /\ b.hdr = store.hdr /\ b.loaded /\ b.mem = View /\ Len(View) <= b.cap
      /\ b.cap = 0 => View = <<>> /\ trust = "both" /\ block.cap = 0
  BY <1>3, RecordsAreView DEF Opened, Blocks
<1>0. /\ IndexOf(View, id) = IndexOf(b.mem, id)
      /\ IndexOf(View, id) # 0 =>
           IndexOf(View, id) \in 1..Len(View) /\ HasId(View[IndexOf(View, id)], id)
  <2>1. View \in Seq(Recs)
    BY DEF MsgInv, Counts
  <2> QED BY <1>4, <2>1, IndexIsFound
<1>7. PICK i, h : /\ i = IndexOf(b.mem, id)
                  /\ h = [b.hdr EXCEPT !.deleted = Plus1(@),
                                       !.new = IF b.mem[i][1] = "N" THEN Minus1(@) ELSE @]
  OBVIOUS
<1>8. PICK d, c : d = Marked(b, i, h, "D") /\ c = IF IsCompress(h) THEN Compressed(d) ELSE d
  OBVIOUS
<1>9. PICK s1, s2, s3 :
        /\ s1 = [store EXCEPT !.texts = IF purged THEN TextsAfterDelete(@, id) ELSE @]
        /\ s2 = StoreHeader(s1, h)
        /\ s3 = [s2 EXCEPT !.body = WriteAt(@, DeleteStatusAt(i), <<"D">>)]
  OBVIOUS
<1>10. PICK r0, r1, r2 : /\ r0 = <<"delete", id, "error">>
                         /\ r1 = <<"delete", id, "already deleted">>
                         /\ r2 = <<"delete", id, "deleted">>
  OBVIOUS
<1>11. \/ i = 0 /\ Finish(b, <<>>, r0, "both") /\ deleted' = deleted
       \/ i # 0 /\ b.mem[i][1] = "D" /\ Finish(b, <<>>, r1, "both") /\ deleted' = deleted
       \/ /\ i # 0 /\ b.mem[i][1] # "D" /\ deleted' = deleted \cup {id}
          /\ Finish(c, <<s1, s2, s3>> \o CompressWrites(s3, d, c), r2, After(d, c))
  BY ZenonT(60), <1>1, <1>3, <1>7, <1>8, <1>9, <1>10 DEF DeleteSteps
<1>5. CASE \/ i = 0 /\ Finish(b, <<>>, r0, "both") /\ deleted' = deleted
           \/ i # 0 /\ b.mem[i][1] = "D" /\ Finish(b, <<>>, r1, "both") /\ deleted' = deleted
  <2>1. /\ block' = b /\ store' = LastOf(store, <<>>) /\ trust' = Least(trust, "both")
        /\ deleted' = deleted
        /\ (i = 0 /\ ret' = r0) \/ (i # 0 /\ b.mem[i][1] = "D" /\ ret' = r1)
    BY <1>5, CallEnds
  <2>2. store' = store /\ trust' = trust
    BY <2>1, LastOfThese, LeastIs DEF MsgInv, StoreTypes
  <2>3. MsgInv' /\ View' = View
    BY <1>2, <1>4, <2>1, <2>2, LooksOnly
  <2>4. StaysAtHand
    BY <1>3, <1>4, <2>1 DEF StaysAtHand
  <2> QED BY <1>0, <1>2, <1>4, <1>7, <1>10, <2>1, <2>2, <2>3, <2>4 DEF DeleteLeaves
<1>6. CASE /\ i # 0 /\ b.mem[i][1] # "D" /\ deleted' = deleted \cup {id}
           /\ Finish(c, <<s1, s2, s3>> \o CompressWrites(s3, d, c), r2, After(d, c))
  <2>4. /\ i # 0 /\ b.mem[i][1] # "D" /\ block' = c
        /\ store' = LastOf(store, <<s1, s2, s3>> \o CompressWrites(s3, d, c))
        /\ trust' = Least(trust, After(d, c)) /\ deleted' = deleted \cup {id}
        /\ ret' = <<"delete", id, "deleted">>
    <3>1. PICK w, right : w = <<s1, s2, s3>> \o CompressWrites(s3, d, c) /\ right = After(d, c)
      OBVIOUS
    <3>2. Finish(c, w, r2, right)
      BY <1>6, <3>1
    <3> QED BY <1>6, <1>10, <3>1, <3>2, CallEnds
  <2>5. Counts(store.hdr, b.mem) /\ IdsGiven(b.mem, used) /\ StoreTypes
        /\ (trust = "both" => store.body = Cells(b.mem))
    BY <1>4 DEF MsgInv
  <2>6. i \in 1..Len(b.mem) /\ b.mem \in Seq(Recs) /\ h \in Header /\ HasId(b.mem[i], id)
    <3>1. b.mem \in Seq(Recs)
      BY <2>5 DEF Counts
    <3>2. i \in 1..Len(b.mem) /\ HasId(b.mem[i], id)
      BY <1>7, <2>4, <3>1, IndexIsFound
    <3>3. b.hdr \in Header /\ Minus1(b.hdr.new) \in 0..(Wrap - 1)
          /\ Plus1(b.hdr.deleted) \in 0..(Wrap - 1)
      <4>1. b.hdr \in Header
        BY <1>4, <2>5 DEF Counts
      <4>2. PICK n, m : n = b.hdr.new /\ m = b.hdr.deleted
        OBVIOUS
      <4>3. n \in 0..(Wrap - 1) /\ m \in 0..(Wrap - 1)
        BY <4>1, <4>2 DEF Header
      <4>4. Minus1(n) \in 0..(Wrap - 1) /\ Plus1(m) \in 0..(Wrap - 1)
        BY <4>3, MaxCountAssumption DEF Minus1, Plus1
      <4> QED BY <4>1, <4>2, <4>4
    <3> QED BY <1>7, <3>1, <3>2, <3>3 DEF Header
  <2>7. /\ d \in Blocks /\ d.hdr = h /\ d.cap = b.cap /\ d.loaded
        /\ MarkedAt(b.mem, i, "D", d.mem)
    <3>1. "D" \in Values
      BY DEF Values
    <3> QED BY <1>4, <1>8, <2>6, <3>1, MarkedIs
  <2>8. Counts(h, d.mem) /\ IdsGiven(d.mem, used)
    <3>1. Recounted(store.hdr, b.mem[i][1], "D", h)
      BY <1>4, <1>7, <2>5 DEF Counts, Header, Recounted
    <3>2. "D" \in {"R", "D"} /\ b.mem[i][1] # "D"
      BY <2>4
    <3> QED BY <2>5, <2>6, <2>7, <3>1, <3>2, MarkIsCounted
  <2>9. b.cap # 0 /\ Len(d.mem) <= d.cap
    BY <1>4, <2>6, <2>7 DEF MarkedAt
  <2>10. /\ c \in Blocks /\ c.loaded /\ c.cap = b.cap /\ Len(c.mem) <= c.cap
         /\ Counts(c.hdr, c.mem) /\ IdsGiven(c.mem, used)
    <3>1. CASE c = d
      BY <2>7, <2>8, <2>9, <3>1
    <3>2. CASE c # d
      <4>1. c = Compressed(d)
        BY <1>8, <3>2
      <4>2. Counts(d.hdr, d.mem) /\ d.cap # 0
        BY <2>7, <2>8, <2>9
      <4> QED BY <2>7, <2>8, <2>9, <4>1, <4>2, CompressedIs
    <3> QED BY <3>1, <3>2
  <2>11. /\ s3 = [hdr |-> s3.hdr, body |-> s3.body, texts |-> s3.texts] /\ s3.hdr = h
         /\ s3.texts \in {store.texts, store.texts \ {id}}
         /\ s3.body = WriteAt(store.body, DeleteStatusAt(i), <<"D">>)
    BY <1>9, <2>5 DEF StoreTypes, StoreHeader, TextsAfterDelete
  <2>12. PICK t : t = LastOf(s3, CompressWrites(s3, d, c))
    OBVIOUS
  <2>13. /\ t = [hdr |-> t.hdr, body |-> t.body, texts |-> t.texts] /\ t.texts = s3.texts
         /\ d = c => t = s3
         /\ d # c => t.hdr = c.hdr
    BY <2>11, <2>12, CompressedStore
  <2>14. store' = t
    <3>1. PICK S : s3 \in S /\ CompressWrites(s3, d, c) \in Seq(S)
      BY <2>11, CompressedStore
    <3>2. PICK z : z = CompressWrites(s3, d, c)
      OBVIOUS
    <3>3. PICK w : w = <<s1, s2, s3>>
      OBVIOUS
    <3>4. LastOf(store, w) = s3 /\ w \in Seq(S \cup {s1, s2}) /\ z \in Seq(S \cup {s1, s2})
      BY <3>1, <3>2, <3>3 DEF LastOf
    <3>5. LastOf(store, w \o z) = IF z = <<>> THEN s3 ELSE LastOf(store, z)
      BY <3>4, LastOfAll
    <3>6. LastOf(s3, z) = IF z = <<>> THEN s3 ELSE LastOf(store, z)
      BY DEF LastOf
    <3> QED BY <2>4, <2>12, <3>2, <3>3, <3>5, <3>6
  <2>23. trust \in {"both", "buffer"} /\ trust' \in {trust, "buffer"}
         /\ (trust' = "both" => trust = "both" /\ c = d)
    <3>1. trust \in {"both", "buffer"}
      BY <2>5 DEF StoreTypes
    <3> QED BY <2>4, <3>1, LeastIs DEF After
  <2>15. StoreTypes'
    <3>1. id \in used
      BY <2>5, <2>6 DEF IdsGiven
    <3> QED BY <1>2, <2>4, <2>5, <2>11, <2>13, <2>14, <2>23, <3>1 DEF StoreTypes
  <2>16. trust' = "both" => store'.body = Cells(block'.mem)
    <3> SUFFICES ASSUME trust' = "both" PROVE store'.body = Cells(block'.mem)
      OBVIOUS
    <3>1. trust = "both" /\ c = d
      BY <2>23
    <3>2. store' = s3 /\ block' = d /\ store.body = Cells(b.mem)
      BY <2>4, <2>5, <2>13, <2>14, <3>1
    <3>3. WriteAt(Cells(b.mem), DeleteStatusAt(i), <<"D">>) = Cells(d.mem)
      BY <2>6, <2>7, CellsMark
    <3> QED BY <2>11, <3>2, <3>3
  <2>17. /\ block' \in Blocks /\ block'.cap # 0 /\ block'.loaded /\ block'.hdr = store'.hdr
         /\ Len(block'.mem) <= block'.cap
    BY <2>4, <2>7, <2>9, <2>10, <2>11, <2>13, <2>14
  <2>18. Counts(store'.hdr, block'.mem) /\ IdsGiven(block'.mem, used')
    BY <1>2, <2>4, <2>10, <2>17
  <2>19. MsgInv' /\ View' = block'.mem
    BY <2>15, <2>16, <2>17, <2>18, Settles
  <2>20. c.mem \in {d.mem, Kept(d.mem)}
    BY <1>8 DEF Compressed
  <2>21. PICK w : w = d.mem /\ MarkedAt(View, i, "D", w) /\ View' \in {w, Kept(w)}
    <3>1. View' = c.mem
      BY <2>4, <2>19
    <3> QED BY <1>4, <2>7, <2>20, <3>1
  <2>22. store'.texts \in {store.texts, store.texts \ {id}} /\ View[i][1] # "D" /\ i = IndexOf(View, id)
    BY <1>0, <1>4, <1>7, <2>4, <2>11, <2>13, <2>14
  <2>24. StaysAtHand
    BY <2>17 DEF StaysAtHand
  <2> QED BY <1>0, <1>2, <2>4, <2>19, <2>21, <2>22, <2>23, <2>24 DEF DeleteLeaves
<1> QED BY <1>5, <1>6, <1>11

\* The record that Add appends, with its header.
LEMMA RecordIs ==
  ASSUME NEW id \in Ids
  PROVE  /\ Record(id, "N") \in Recs /\ Record(id, "N")[1] = "N"
         /\ \A k \in 2..RecLen : Record(id, "N")[k] = id
<1>1. \A k \in 1..RecLen : (IF k = 1 THEN "N" ELSE id) \in Values
  BY DEF Values
<1>2. Record(id, "N") \in Recs
  BY <1>1 DEF Record, Recs
<1> QED BY <1>2, LayoutAssumption DEF Record

Extended(h, g) ==
  g = [total |-> Plus1(h.total), new |-> NewAfterAdd(h), deleted |-> h.deleted]

LEMMA AddedIsCounted ==
  ASSUME NEW h, NEW v, NEW given, Counts(h, v), IdsGiven(v, given), h.total < MaxCount,
         NEW id \in Ids, NEW g, Extended(h, g)
  PROVE  /\ Counts(g, Append(v, Record(id, "N"))) /\ g.total = h.total + 1
         /\ IdsGiven(Append(v, Record(id, "N")), given \cup {id})
<1>0. v \in Seq(Recs) /\ h \in Header /\ Len(v) = h.total /\ h.total < MaxCount
      /\ h.new = Cardinality(PlacesOf(v, "N")) /\ h.deleted = Cardinality(PlacesOf(v, "D"))
      /\ Len(v) \in Nat /\ MaxCount \in Nat /\ Wrap \in Nat /\ MaxCount < Wrap
  BY MaxCountAssumption DEF Counts
<1>1. PICK rec : rec = Record(id, "N")
  OBVIOUS
<1>2. rec \in Recs /\ rec[1] = "N" /\ \A k \in 2..RecLen : rec[k] = id
  BY <1>1, RecordIs
<1>3. PICK w : w = Append(v, rec)
  OBVIOUS
<1>4. /\ w \in Seq(Recs) /\ Len(w) = Len(v) + 1
      /\ \A j \in 1..Len(v) : w[j] = v[j]
      /\ w[Len(v) + 1] = rec
  BY <1>0, <1>2, <1>3, AppendProperties
<1>5. h.new \in Nat /\ h.new <= Len(v)
  BY <1>0, PlacesAreCounted
<1>6. Plus1(h.total) = h.total + 1 /\ Plus1(h.new) = h.new + 1
  BY <1>0, <1>5, CountersMove
<1>7. /\ Cardinality(PlacesOf(w, "N")) = h.new + 1
      /\ Cardinality(PlacesOf(w, "D")) = h.deleted
  <2>1. Cardinality(PlacesOf(w, "N")) = Cardinality(PlacesOf(v, "N")) + 1
    BY <1>0, <1>2, <1>3, CountAppended
  <2>2. Cardinality(PlacesOf(w, "D")) = Cardinality(PlacesOf(v, "D"))
    <3>1. Cardinality(PlacesOf(w, "D")) = Cardinality(PlacesOf(v, "D")) + 0
      BY <1>0, <1>2, <1>3, CountAppended
    <3>2. Cardinality(PlacesOf(v, "D")) \in Nat
      BY <1>0, PlacesAreCounted
    <3> QED BY <3>1, <3>2
  <2> QED BY <1>0, <2>1, <2>2
<1>8. /\ g = [total |-> h.total + 1, new |-> h.new + 1, deleted |-> h.deleted]
  BY <1>0, <1>6 DEF NewAfterAdd, Extended
<1>9. g \in Header
  <2>1. /\ h.total + 1 \in 0..(Wrap - 1) /\ h.new + 1 \in 0..(Wrap - 1)
        /\ h.deleted \in 0..(Wrap - 1)
    BY <1>0, <1>5 DEF Header
  <2> QED BY <1>8, <2>1 DEF Header
<1>10. Counts(g, w)
  <2>1. g.total = h.total + 1 /\ g.new = h.new + 1 /\ g.deleted = h.deleted
    BY <1>8
  <2>2. Len(w) = g.total /\ g.total <= MaxCount
    BY <1>0, <1>4, <2>1
  <2>3. g.new = Cardinality(PlacesOf(w, "N")) /\ g.deleted = Cardinality(PlacesOf(w, "D"))
    BY <1>7, <2>1
  <2> QED BY <1>4, <1>9, <2>2, <2>3 DEF Counts
<1>11. ASSUME NEW j \in 1..Len(w), NEW other \in Ids, HasId(w[j], other)
       PROVE  other \in given \cup {id}
  <2>1. CASE j \in 1..Len(v)
    BY <1>4, <1>11, <2>1 DEF IdsGiven
  <2>2. CASE j = Len(v) + 1
    <3>1. 2 \in 2..RecLen
      BY LayoutAssumption
    <3>2. rec[2] = other
      BY <1>4, <1>11, <2>2, <3>1 DEF HasId
    <3> QED BY <1>2, <3>1, <3>2
  <2> QED BY <1>0, <1>4, <2>1, <2>2
<1>12. IdsGiven(w, given \cup {id})
  BY <1>11 DEF IdsGiven
<1>13. g.total = h.total + 1
  BY <1>8
<1> QED BY <1>1, <1>3, <1>10, <1>12, <1>13

LEMMA GivenGrows ==
  ASSUME NEW v, NEW given, NEW more, IdsGiven(v, given), given \subseteq more
  PROVE  IdsGiven(v, more)
  BY DEF IdsGiven

AddLeaves(id) ==
  /\ used' = used \cup {id} /\ id \notin used /\ deleted' = deleted /\ StaysAtHand
  /\ \/ /\ block.cap # 0 => Len(View) = MaxCount /\ PlacesOf(View, "D") = {}
        /\ View' = View /\ store'.texts \in {store.texts, store.texts \cup {id}}
        /\ ret' = <<"add", id, "no space">> /\ trust' = trust
     \/ /\ store'.texts = store.texts \cup {id} /\ trust' \in {trust, "buffer"}
        /\ \E v \in {View, Kept(View)} :
             v \in Seq(Recs) /\ Len(v) < MaxCount /\ View' = Append(v, Record(id, "N"))
        /\ ret' = <<"add", id, "ok">>

\* What Add does with this much of fresh memory, its text purged or not.
AddBody(id, fill, purged) ==
  LET b == Opened(WithHeader(block))
      c == IF b.hdr.total >= MaxCount THEN Compressed(b) ELSE b
      saved == [store EXCEPT !.texts = @ \cup {id}]
      squeezed == CompressWrites(saved, b, c)
      old == IF c.cap = 0 THEN [i \in 1..c.hdr.total |-> fill] ELSE c.mem
      rec == Record(id, "N")
      h == [c.hdr EXCEPT !.total = Plus1(@), !.new = NewAfterAdd(c.hdr)]
      s1 == StoreHeader(LastOf(saved, squeezed), h)
      s2 == [s1 EXCEPT !.body = @ \o rec]
  IN  \/ /\ c.hdr.total >= MaxCount
         /\ Finish(c, <<saved>> \o squeezed \o
                        <<[LastOf(saved, squeezed) EXCEPT !.texts =
                             IF purged THEN @ \ {id} ELSE @]>>,
                   <<"add", id, "no space">>, After(b, c))
      \/ /\ c.hdr.total < MaxCount
         /\ Finish([c EXCEPT !.hdr = h, !.mem = Append(old, rec), !.cap = RoomForNext(c)],
                   <<saved>> \o squeezed \o <<s1, s2>>,
                   <<"add", id, "ok">>,
                   IF c.cap = 0 /\ c.hdr.total # 0 THEN "neither" ELSE After(b, c))

LEMMA AddDoes ==
  ASSUME NEW id, Add(id)
  PROVE  /\ id \notin used /\ used' = used \cup {id} /\ UNCHANGED <<deleted, unpurged>>
         /\ \E fill \in Fills, purged \in BOOLEAN : AddBody(id, fill, purged)
  BY Zenon DEF Add, AddBody

\* What Add does when it ends with the records not lost.
AddSteps(id, fill, purged) ==
  LET b == Opened(WithHeader(block))
      c == IF b.hdr.total >= MaxCount THEN Compressed(b) ELSE b
      saved == [store EXCEPT !.texts = @ \cup {id}]
      squeezed == CompressWrites(saved, b, c)
      old == IF c.cap = 0 THEN [i \in 1..c.hdr.total |-> fill] ELSE c.mem
      rec == Record(id, "N")
      h == [c.hdr EXCEPT !.total = Plus1(@), !.new = NewAfterAdd(c.hdr)]
      s1 == StoreHeader(LastOf(saved, squeezed), h)
      s2 == [s1 EXCEPT !.body = @ \o rec]
  IN  \/ /\ c.hdr.total >= MaxCount
         /\ block' = c
         /\ store' = LastOf(store, <<saved>> \o squeezed \o
                        <<[LastOf(saved, squeezed) EXCEPT !.texts =
                             IF purged THEN @ \ {id} ELSE @]>>)
         /\ trust' = Least(trust, After(b, c))
         /\ ret' = <<"add", id, "no space">>
      \/ /\ c.hdr.total < MaxCount
         /\ c.cap # 0 \/ c.hdr.total = 0
         /\ block' = [c EXCEPT !.hdr = h, !.mem = Append(old, rec), !.cap = RoomForNext(c)]
         /\ store' = LastOf(store, <<saved>> \o squeezed \o <<s1, s2>>)
         /\ trust' = Least(trust, After(b, c))
         /\ ret' = <<"add", id, "ok">>

LEMMA AddEnds ==
  ASSUME trust' # "neither", NEW id \in Ids, Add(id)
  PROVE  \E fill \in Fills, purged \in BOOLEAN : AddSteps(id, fill, purged)
  BY ZenonT(60), LeastIs DEF Add, Finish, AddSteps

\* Records that are not in memory are not compressed, and none is put to them.
LEMMA AddRefused ==
  ASSUME MsgInv, NEW id \in Ids, Add(id), NEW fill, NEW purged \in BOOLEAN,
         AddSteps(id, fill, purged), block.cap = 0, WithHeader(block).hdr.total # 0
  PROVE  MsgInv' /\ AddLeaves(id)
<1>1. used' = used \cup {id} /\ deleted' = deleted /\ id \notin used
  BY DEF Add
<1>2. PICK b : b = Opened(WithHeader(block))
  OBVIOUS
<1>3. /\ b \in Blocks /\ b.hdr = store.hdr /\ b.loaded /\ b.mem = <<>> /\ b.cap = 0
      /\ b.hdr.total # 0 /\ trust = "both" /\ StoreTypes
  BY <1>2, HeaderOnDisk DEF Opened, Blocks, MsgInv, BlockInv
<1>4. Compressed(b) = b
  BY <1>3 DEF Compressed
<1>5. PICK saved, c : /\ saved = [store EXCEPT !.texts = @ \cup {id}]
                      /\ c = IF b.hdr.total >= MaxCount THEN Compressed(b) ELSE b
  OBVIOUS
<1>6. PICK z, t, s0 : /\ z = CompressWrites(saved, b, c) /\ t = LastOf(saved, z)
                      /\ s0 = [t EXCEPT !.texts = IF purged THEN @ \ {id} ELSE @]
  OBVIOUS
<1>7. c = b /\ z = <<>> /\ t = saved
  BY <1>4, <1>5, <1>6 DEF CompressWrites, LastOf
<1>8. PICK w : w = <<saved>> \o z
  OBVIOUS
<1>9. /\ block' = c /\ store' = LastOf(store, w \o <<s0>>)
      /\ trust' = Least(trust, After(b, c)) /\ ret' = <<"add", id, "no space">>
  <2>1. c.cap = 0 /\ c.hdr.total # 0
    BY <1>3, <1>7
  <2> QED BY <1>2, <1>5, <1>6, <1>8, <2>1 DEF AddSteps
<1>10. store' = s0
  <2>1. PICK T, x : T = {saved, s0} /\ x = <<s0>>
    OBVIOUS
  <2>2. w \in Seq(T) /\ x \in Seq(T) /\ x # <<>>
    BY <1>7, <1>8, <2>1, ConcatProperties
  <2>3. LastOf(store, w \o x) = IF x = <<>> THEN LastOf(store, w) ELSE LastOf(store, x)
    BY ZenonT(60), <2>2, LastOfAll
  <2>4. LastOf(store, <<s0>>) = s0
    BY DEF LastOf
  <2> QED BY <1>9, <2>1, <2>2, <2>3, <2>4
<1>11. /\ s0 = [hdr |-> s0.hdr, body |-> s0.body, texts |-> s0.texts]
       /\ s0.hdr = store.hdr /\ s0.body = store.body
       /\ s0.texts \in {store.texts, store.texts \cup {id}}
  BY <1>1, <1>3, <1>5, <1>6, <1>7 DEF StoreTypes
<1>12. trust' = trust
  BY <1>3, <1>7, <1>9, LeastIs DEF After
<1>13. StoreTypes'
  BY <1>1, <1>3, <1>10, <1>11, <1>12 DEF StoreTypes
<1>14. MsgInv' /\ View' = View
  BY <1>1, <1>3, <1>7, <1>9, <1>10, <1>11, <1>12, <1>13, LeavesIndex
<1> QED BY <1>1, <1>9, <1>10, <1>11, <1>12, <1>14 DEF AddLeaves, StaysAtHand

LEMMA AddToRecords ==
  ASSUME MsgInv, NEW id \in Ids, Add(id), NEW fill, NEW purged \in BOOLEAN,
         AddSteps(id, fill, purged), block.cap # 0 \/ WithHeader(block).hdr.total = 0
  PROVE  MsgInv' /\ AddLeaves(id)
<1>2. used' = used \cup {id} /\ deleted' = deleted /\ id \notin used
  BY DEF Add
<1>3. PICK b : b = Opened(WithHeader(block))
  OBVIOUS
<1>4. /\ b \in Blocks /\ b.hdr = store.hdr /\ b.loaded /\ b.mem = block.mem /\ b.cap = block.cap
      /\ b.cap # 0 \/ b.hdr.total = 0
  BY <1>3, HeaderOnDisk DEF Opened, Blocks
<1>5. /\ Counts(store.hdr, View) /\ IdsGiven(View, used) /\ StoreTypes
      /\ trust \in {"both", "buffer"} /\ (trust = "both" => store.body = Cells(View))
      /\ b.cap # 0 => View = b.mem /\ Len(b.mem) <= b.cap
      /\ b.cap = 0 => b.mem = <<>>
  BY <1>4 DEF MsgInv, BlockInv, StoreTypes, View
<1>6. PICK total \in Nat : total = b.hdr.total
  BY <1>4, <1>5 DEF Counts, Header
<1>7. b.cap = 0 => View = <<>> /\ total = 0
  BY <1>4, <1>5, <1>6 DEF Counts
<1>8. b.mem = View /\ b.cap \in Nat /\ Len(b.mem) <= b.cap
  BY <1>4, <1>5, <1>7 DEF Blocks
<1>9. Counts(b.hdr, b.mem) /\ IdsGiven(b.mem, used)
  BY <1>4, <1>5, <1>8
<1>10. PICK c : c = IF b.hdr.total >= MaxCount THEN Compressed(b) ELSE b
  OBVIOUS
<1>11. /\ c \in Blocks /\ c.loaded /\ c.cap = b.cap /\ Len(c.mem) <= c.cap
       /\ Counts(c.hdr, c.mem) /\ IdsGiven(c.mem, used)
       /\ c.cap = 0 => c = b /\ c.hdr.total = 0
  <2>1. CASE c = b
    BY <1>4, <1>6, <1>7, <1>8, <1>9, <2>1
  <2>2. CASE c # b
    <3>1. c = Compressed(b) /\ b.cap # 0
      BY <1>6, <1>7, <1>10, <2>2, MaxCountAssumption
    <3> QED BY <1>4, <1>8, <1>9, <3>1, CompressedIs
  <2> QED BY <2>1, <2>2
<1>12. PICK saved : saved = [store EXCEPT !.texts = @ \cup {id}]
  OBVIOUS
<1>13. /\ saved = [hdr |-> saved.hdr, body |-> saved.body, texts |-> saved.texts]
       /\ saved.hdr = store.hdr /\ saved.body = store.body /\ saved.texts = store.texts \cup {id}
  BY <1>5, <1>12 DEF StoreTypes
<1>14. PICK z, t : z = CompressWrites(saved, b, c) /\ t = LastOf(saved, z)
  OBVIOUS
<1>15. /\ t = [hdr |-> t.hdr, body |-> t.body, texts |-> t.texts] /\ t.texts = store.texts \cup {id}
       /\ b = c => t.body = store.body
       /\ t.hdr = c.hdr
  BY <1>4, <1>13, <1>14, CompressedStore
<1>16. PICK S : saved \in S /\ t \in S /\ z \in Seq(S)
  BY <1>13, <1>14, CompressedStore
<1>19. c.mem \in {View, Kept(View)}
  BY <1>8, <1>10 DEF Compressed
<1>20. Least(trust, After(b, c)) = IF b = c THEN trust ELSE "buffer"
  BY <1>5, LeastIs DEF After
<1>17. CASE c.hdr.total >= MaxCount
  <2>1. PICK s1 : s1 = [t EXCEPT !.texts = IF purged THEN @ \ {id} ELSE @]
    OBVIOUS
  <2>2. /\ block' = c /\ store' = LastOf(store, <<saved>> \o z \o <<s1>>)
        /\ trust' = Least(trust, After(b, c)) /\ ret' = <<"add", id, "no space">>
    <3>1. ~(c.hdr.total < MaxCount)
      BY <1>11, <1>17, MaxCountAssumption DEF Counts, Header
    <3> QED BY <1>3, <1>10, <1>12, <1>14, <2>1, <3>1 DEF AddSteps
  <2>3. store' = s1
    <3>1. PICK w : w = <<saved>> \o z
      OBVIOUS
    <3>2. PICK T, x : T = S \cup {s1} /\ x = <<s1>>
      OBVIOUS
    <3>3. LastOf(store, w \o x) = LastOf(store, x)
      <4>1. w \in Seq(T) /\ x \in Seq(T) /\ x # <<>>
        BY <1>16, <3>1, <3>2, ConcatProperties
      <4>2. LastOf(store, w \o x) = IF x = <<>> THEN LastOf(store, w) ELSE LastOf(store, x)
        BY ZenonT(60), <4>1, LastOfAll
      <4> QED BY <4>1, <4>2
    <3>4. LastOf(store, <<s1>>) = s1
      BY DEF LastOf
    <3> QED BY <2>2, <3>1, <3>2, <3>3, <3>4
  <2>4. s1 = [hdr |-> s1.hdr, body |-> s1.body, texts |-> s1.texts]
        /\ s1.texts \in {store.texts, store.texts \cup {id}}
        /\ s1.hdr = t.hdr /\ s1.body = t.body
    BY <1>2, <1>5, <1>15, <2>1 DEF StoreTypes
  <2>5. StoreTypes'
    BY <1>2, <1>5, <1>20, <2>2, <2>3, <2>4 DEF StoreTypes
  <2>6. c.cap # 0
    BY <1>11, <1>17, MaxCountAssumption
  <2>7. trust' = "both" => store'.body = Cells(block'.mem)
    BY <1>5, <1>8, <1>15, <1>20, <2>2, <2>3, <2>4
  <2>8. /\ block' \in Blocks /\ block'.cap # 0 /\ block'.loaded /\ block'.hdr = store'.hdr
        /\ Len(block'.mem) <= block'.cap
    BY <1>11, <1>15, <2>2, <2>3, <2>4, <2>6
  <2>9. Counts(store'.hdr, block'.mem) /\ IdsGiven(block'.mem, used')
    BY ZenonT(60), <1>2, <1>11, <2>2, <2>8, GivenGrows
  <2>10. MsgInv' /\ View' = block'.mem
    BY <2>5, <2>7, <2>8, <2>9, Settles
  <2>11. c = b /\ Len(View) = MaxCount /\ PlacesOf(View, "D") = {}
    <3>1. c.hdr.total = MaxCount /\ Len(c.mem) = MaxCount /\ b.hdr.total >= MaxCount
      BY <1>10, <1>11, <1>17, MaxCountAssumption DEF Counts, Header
    <3>2. b.hdr.total = MaxCount /\ Len(b.mem) = MaxCount
          /\ b.hdr.deleted = Cardinality(PlacesOf(b.mem, "D")) /\ b.mem \in Seq(Recs)
      BY <1>9, <3>1, MaxCountAssumption DEF Counts, Header
    <3>3. PICK kept : kept = Kept(b.mem)
      OBVIOUS
    <3>4. c = Compressed(b) /\ b.cap # 0
      BY <1>10, <1>11, <2>6, <3>1
    <3>5. CASE b.hdr.deleted = 0 \/ Len(kept) = Len(b.mem)
      <4>1. c = b
        BY <3>3, <3>4, <3>5 DEF Compressed
      <4>2. PlacesOf(b.mem, "D") = {}
        <5>1. CASE b.hdr.deleted = 0
          BY <3>2, <5>1, PlacesAreCounted, FS_EmptySet
        <5>2. CASE Len(kept) = Len(b.mem)
          BY <3>2, <3>3, <5>2, NoneDeleted
        <5> QED BY <3>5, <5>1, <5>2
      <4> QED BY <1>8, <3>2, <4>1, <4>2
    <3>6. CASE ~(b.hdr.deleted = 0 \/ Len(kept) = Len(b.mem))
      <4>1. c = [b EXCEPT !.mem = kept, !.hdr = HeaderAfterCompress(@, Len(kept))]
        BY <3>3, <3>4, <3>6 DEF Compressed
      <4>2. c.mem = kept
        BY <1>4, <4>1 DEF Blocks
      <4> QED BY <3>1, <3>2, <3>6, <4>2
    <3> QED BY <3>5, <3>6
  <2>12. /\ View' = View /\ store'.texts \in {store.texts, store.texts \cup {id}}
         /\ trust' = trust
    BY <1>8, <1>20, <2>2, <2>3, <2>4, <2>10, <2>11
  <2>13. StaysAtHand
    BY <2>8 DEF StaysAtHand
  <2> QED BY <1>2, <2>2, <2>10, <2>11, <2>12, <2>13 DEF AddLeaves
<1>18. CASE ~(c.hdr.total >= MaxCount)
  <2>1. PICK h : h = [c.hdr EXCEPT !.total = Plus1(@), !.new = NewAfterAdd(c.hdr)]
    OBVIOUS
  <2>2. PICK rec, mem : rec = Record(id, "N") /\ mem = Append(c.mem, rec)
    OBVIOUS
  <2>3. PICK s1, s2 : s1 = StoreHeader(t, h) /\ s2 = [s1 EXCEPT !.body = @ \o rec]
    OBVIOUS
  <2>4. (IF c.cap = 0 THEN [i \in 1..c.hdr.total |-> fill] ELSE c.mem) = c.mem
    <3>1. CASE c.cap = 0
      <4>1. c.mem = <<>> /\ c.hdr.total = 0
        BY <1>5, <1>11, <3>1
      <4>2. [i \in 1..0 |-> fill] = <<>>
        OBVIOUS
      <4> QED BY <4>1, <4>2
    <3> QED BY <3>1
  <2>5. /\ block' = [c EXCEPT !.hdr = h, !.mem = mem, !.cap = RoomForNext(c)]
        /\ store' = LastOf(store, <<saved>> \o z \o <<s1, s2>>)
        /\ trust' = Least(trust, After(b, c))
        /\ ret' = <<"add", id, "ok">>
    BY <1>3, <1>10, <1>12, <1>14, <1>18, <2>1, <2>2, <2>3, <2>4 DEF AddSteps
  <2>6. store' = s2
    <3>1. PICK w : w = <<saved>> \o z
      OBVIOUS
    <3>2. PICK T, x : T = S \cup {s1, s2} /\ x = <<s1, s2>>
      OBVIOUS
    <3>3. LastOf(store, w \o x) = LastOf(store, x)
      <4>1. w \in Seq(T) /\ x \in Seq(T) /\ x # <<>>
        BY <1>16, <3>1, <3>2, ConcatProperties
      <4>2. LastOf(store, w \o x) = IF x = <<>> THEN LastOf(store, w) ELSE LastOf(store, x)
        BY ZenonT(60), <4>1, LastOfAll
      <4> QED BY <4>1, <4>2
    <3>4. LastOf(store, <<s1, s2>>) = s2
      BY DEF LastOf
    <3> QED BY <2>5, <3>1, <3>2, <3>3, <3>4
  <2>7. s2 = [hdr |-> s2.hdr, body |-> s2.body, texts |-> s2.texts]
        /\ s2.texts = store.texts \cup {id} /\ s2.hdr = h /\ s2.body = t.body \o rec
    BY <1>15, <2>3 DEF StoreHeader
  <2>8. StoreTypes'
    BY <1>2, <1>5, <1>20, <2>5, <2>6, <2>7 DEF StoreTypes
  <2>9. Counts(h, mem) /\ h.total = c.hdr.total + 1 /\ IdsGiven(mem, used')
    <3>1. c.hdr.total < MaxCount
      BY <1>11, <1>18, MaxCountAssumption DEF Counts, Header
    <3>2. Extended(c.hdr, h)
      BY <1>11, <2>1 DEF Extended, Counts, Header
    <3> QED BY <1>2, <1>11, <2>2, <3>1, <3>2, AddedIsCounted
  <2>10. RoomForNext(c) \in Nat \ {0} /\ Len(mem) <= RoomForNext(c)
    <3>1. Len(mem) = c.hdr.total + 1 /\ c.hdr.total \in Nat /\ c.cap \in Nat /\ Len(c.mem) = c.hdr.total
      BY <1>11, <2>9 DEF Counts, Header, Blocks
    <3>2. c.hdr.total <= c.cap
      BY <1>11, <3>1
    <3> QED BY <3>1, <3>2, LayoutAssumption DEF RoomForNext
  <2>11. block' \in Blocks /\ block'.cap = RoomForNext(c) /\ block'.mem = mem /\ block'.hdr = h
         /\ block'.loaded
    <3>1. mem \in Seq(Recs) /\ h \in Header
      BY <2>9 DEF Counts
    <3> QED BY <1>11, <2>5, <2>10, <3>1 DEF Blocks
  <2>12. trust' = "both" => store'.body = Cells(block'.mem)
    <3> SUFFICES ASSUME trust' = "both" PROVE store'.body = Cells(block'.mem)
      OBVIOUS
    <3>1. trust = "both" /\ b = c
      BY <1>20, <2>5
    <3>2. t.body = Cells(b.mem) /\ c.mem = b.mem
      BY <1>5, <1>8, <1>15, <3>1
    <3>3. rec \in Recs /\ b.mem \in Seq(Recs)
      BY <1>9, <2>2, RecordIs DEF Counts
    <3>4. Cells(b.mem) \o rec = Cells(Append(b.mem, rec))
      BY <3>3, CellsAppend
    <3> QED BY <2>2, <2>6, <2>7, <2>11, <3>2, <3>4
  <2>13. /\ block'.cap # 0 /\ block'.hdr = store'.hdr /\ Len(block'.mem) <= block'.cap
    BY <2>6, <2>7, <2>10, <2>11
  <2>14. Counts(store'.hdr, block'.mem) /\ IdsGiven(block'.mem, used')
    BY <2>6, <2>7, <2>9, <2>11
  <2>15. MsgInv' /\ View' = block'.mem
    BY <2>8, <2>11, <2>12, <2>13, <2>14, Settles
  <2>16. PICK v : v = c.mem /\ v \in {View, Kept(View)} /\ v \in Seq(Recs) /\ Len(v) < MaxCount
    BY <1>11, <1>18, <1>19, MaxCountAssumption DEF Counts, Header
  <2>17. View' = Append(v, Record(id, "N")) /\ store'.texts = store.texts \cup {id}
    BY <2>2, <2>6, <2>7, <2>11, <2>15, <2>16
  <2>18. StaysAtHand /\ trust' \in {trust, "buffer"}
    BY <1>20, <2>5, <2>13 DEF StaysAtHand
  <2> QED BY <1>2, <2>5, <2>15, <2>16, <2>17, <2>18 DEF AddLeaves
<1> QED BY <1>17, <1>18

LEMMA AddKeeps ==
  ASSUME MsgInv, trust' # "neither", NEW id \in Ids, Add(id)
  PROVE  MsgInv' /\ AddLeaves(id)
<1>1. PICK fill \in Fills, purged \in BOOLEAN : AddSteps(id, fill, purged)
  BY AddEnds
<1> QED BY <1>1, AddRefused, AddToRecords

-----------------------------------------------------------------------------
(* The first block, and what the invariant says of the properties            *)

LEMMA MsgInit ==
  ASSUME Init
  PROVE  MsgInv
<1> USE MaxCountAssumption
<1>1. NoHeader \in Header /\ NoHeader.total = 0 /\ NoHeader.new = 0 /\ NoHeader.deleted = 0
  BY DEF NoHeader, Header
<1>2. /\ block \in Blocks /\ ~block.loaded /\ block.cap = 0 /\ block.mem = <<>>
      /\ store = [hdr |-> NoHeader, body |-> <<>>, texts |-> {}]
      /\ used = {} /\ deleted = {} /\ trust = "both"
  BY <1>1 DEF Init, Fresh, Blocks
<1>3. View = <<>>
  BY <1>1, <1>2 DEF View, WithHeader, Opened, Blocks, ReadRecords
<1>4. Counts(NoHeader, <<>>) /\ IdsGiven(<<>>, {})
  <2>1. PlacesOf(<<>>, "N") = {} /\ PlacesOf(<<>>, "D") = {}
    BY DEF PlacesOf
  <2>2. Cardinality({}) = 0 /\ <<>> \in Seq(Recs) /\ Len(<<>>) = 0 /\ 0 <= MaxCount
    BY FS_EmptySet
  <2>3. Counts(NoHeader, <<>>)
    BY <1>1, <2>1, <2>2 DEF Counts
  <2>4. IdsGiven(<<>>, {})
    BY DEF IdsGiven
  <2> QED BY <2>3, <2>4
<1>5. Cells(<<>>) = <<>>
  <2>1. Len(<<>>) * RecLen = 0
    BY LayoutAssumption
  <2> QED BY <2>1 DEF Cells
<1>6. StoreTypes /\ BlockInv
  BY <1>2 DEF StoreTypes, BlockInv
<1> QED BY <1>2, <1>3, <1>4, <1>5, <1>6 DEF MsgInv

LEMMA MsgSafe ==
  ASSUME MsgInv
  PROVE  CountersExact /\ FileAgrees
<1>1. WithHeader(block).hdr = store.hdr /\ Counts(store.hdr, View)
  BY HeaderOnDisk DEF MsgInv
<1>2. CountersExact
  BY <1>1 DEF CountersExact, Counts, Marks, PlacesOf
<1>3. FileAgrees
  BY DEF MsgInv, FileAgrees
<1> QED BY <1>2, <1>3

-----------------------------------------------------------------------------
(* What holds of every block, its records right or lost, wherever the        *)
(* process may stop.  A text that could be purged was purged by the first    *)
(* write of its call, and an id is given to one message only.  No cell, in   *)
(* memory or on disk, holds an id that was not given out, so that what can   *)
(* be found can have been deleted.                                           *)

Known(given) == (({"0", "N", "R", "D"} \cup HeapCells) \ Ids) \cup given
KnownRecs(given) == [1..RecLen -> Known(given)]

GoodStore(s, given, gone) ==
  /\ s = [hdr |-> s.hdr, body |-> s.body, texts |-> s.texts]
  /\ s.hdr \in Header /\ s.body \in Seq(Known(given))
  /\ s.texts \subseteq given /\ s.texts \cap gone = {}

GoodBlock(b, given) ==
  /\ b = [hdr |-> b.hdr, loaded |-> b.loaded, open |-> b.open, mem |-> b.mem, cap |-> b.cap]
  /\ b.hdr \in Header /\ b.loaded \in BOOLEAN /\ b.open \in BOOLEAN /\ b.cap \in Nat
  /\ b.mem \in Seq(KnownRecs(given))
  /\ b.cap = 0 => b.mem = <<>>
  /\ b.cap # 0 => b.loaded /\ Len(b.mem) = b.hdr.total

\* A block whose buffer has room for its records.
FitBlock(b, given) == GoodBlock(b, given) /\ Len(b.mem) <= b.cap

GoodWrites(w, given, gone) == \E S : w \in Seq(S) /\ \A s \in S : GoodStore(s, given, gone)

BaseInv ==
  /\ GoodStore(store, used, deleted \ unpurged) /\ GoodBlock(block, used)
  /\ Overrun => block.cap = Step /\ trust = "neither"
  /\ deleted \subseteq used /\ unpurged \subseteq deleted /\ used \subseteq Ids
  /\ trust \in Trusts
  /\ ret[1] = "read" => (ret[3] # "error" => ret[2] \notin deleted \ unpurged)

LEMMA KnownIs ==
  ASSUME NEW given \in SUBSET Ids
  PROVE  /\ {"0", "N", "R", "D"} \subseteq Known(given) /\ given \subseteq Known(given)
         /\ \A id \in Known(given) : id \in Ids => id \in given
         /\ \A more \in SUBSET Ids : given \subseteq more => Known(given) \subseteq Known(more)
  BY IdsAssumption DEF Known

LEMMA FillIs ==
  ASSUME NEW fill \in Fills
  PROVE  fill \in KnownRecs(used)
<1>1. fill = [k \in 1..RecLen |-> fill[k]] /\ \A k \in 1..RecLen : fill[k] \in Ids => fill[k] \in used
  BY HeapAssumption DEF Fills
<1>2. \A k \in 1..RecLen : fill[k] \in HeapCells
  BY DEF Fills, HeapCells
<1>3. \A k \in 1..RecLen : fill[k] \in Known(used)
  BY <1>1, <1>2 DEF Known
<1> QED BY <1>1, <1>3 DEF KnownRecs

LEMMA GoodGrows ==
  ASSUME NEW given \in SUBSET Ids, NEW more \in SUBSET Ids, given \subseteq more, NEW gone,
         gone \subseteq given
  PROVE  /\ \A b : FitBlock(b, given) => FitBlock(b, more)
         /\ \A s : GoodStore(s, given, gone) => GoodStore(s, more, gone)
<1>1. Known(given) \subseteq Known(more)
  BY KnownIs
<1>2. \A body : body \in Seq(Known(given)) => body \in Seq(Known(more))
  BY <1>1
<1>3. KnownRecs(given) \subseteq KnownRecs(more)
  BY <1>1 DEF KnownRecs
<1>4. \A mem : mem \in Seq(KnownRecs(given)) => mem \in Seq(KnownRecs(more))
  BY <1>3
<1>5. \A b : FitBlock(b, given) => FitBlock(b, more)
  BY <1>4 DEF FitBlock, GoodBlock
<1>6. \A s : GoodStore(s, given, gone) => GoodStore(s, more, gone)
  BY <1>2 DEF GoodStore
<1> QED BY <1>5, <1>6

-----------------------------------------------------------------------------
(* The blocks that a call works with                                         *)

LEMMA WriteIsGood ==
  ASSUME NEW S, "0" \in S, NEW body \in Seq(S), NEW cells \in Seq(S), NEW pos \in Nat \ {0}
  PROVE  WriteAt(body, pos, cells) \in Seq(S)
<1>1. PICK m, n, l : m = Len(body) /\ n = Len(cells) /\ l = pos + n - 1
  OBVIOUS
<1>2. m \in Nat /\ n \in Nat /\ l \in Nat
  BY <1>1
<1>3. PICK k \in Nat : k = IF l > m THEN l ELSE m
  BY <1>2
<1>4. ASSUME NEW a \in 1..k
      PROVE  (IF a \in pos..l THEN cells[a - pos + 1] ELSE IF a <= m THEN body[a] ELSE "0") \in S
  <2>1. a \in pos..l => a - pos + 1 \in 1..n
    BY <1>1, <1>2
  <2>2. a <= m => body[a] \in S
    BY <1>1
  <2> QED BY <1>1, <2>1, <2>2
<1>5. WriteAt(body, pos, cells) =
        [a \in 1..k |-> IF a \in pos..l THEN cells[a - pos + 1]
                        ELSE IF a <= m THEN body[a] ELSE "0"]
  BY <1>1, <1>3 DEF WriteAt
<1> QED BY <1>4, <1>5

LEMMA HeaderIsGood ==
  ASSUME BaseInv, ~Overrun
  PROVE  /\ FitBlock(WithHeader(block), used) /\ WithHeader(block).loaded
         /\ WithHeader(block).mem = block.mem /\ WithHeader(block).cap = block.cap
<1>1. PICK b : b = block
  OBVIOUS
<1>2. FitBlock(b, used) /\ store.hdr \in Header
  <2>1. b.cap \in Nat /\ Len(b.mem) \in Nat
    BY <1>1 DEF BaseInv, GoodBlock
  <2>2. Len(b.mem) <= b.cap
    BY <1>1, <2>1 DEF Overrun
  <2> QED BY <1>1, <2>2 DEF BaseInv, FitBlock, GoodStore
<1>3. CASE b.loaded
  BY <1>1, <1>2, <1>3 DEF WithHeader
<1>4. CASE ~b.loaded
  <2>1. PICK h : h = [b EXCEPT !.open = TRUE, !.loaded = TRUE, !.hdr = store.hdr]
    OBVIOUS
  <2>2. WithHeader(b) = h
    BY <1>2, <1>4, <2>1 DEF WithHeader, Opened, FitBlock, GoodBlock
  <2>3. b.cap = 0
    BY <1>2, <1>4 DEF FitBlock, GoodBlock
  <2> QED BY <1>1, <1>2, <2>1, <2>2, <2>3 DEF FitBlock, GoodBlock
<1> QED BY <1>3, <1>4

LEMMA RecordsAreGood ==
  ASSUME BaseInv, ~Overrun, NEW fill \in Fills
  PROVE  /\ FitBlock(WithRecords(block, fill), used)
         /\ block.cap # 0 => WithRecords(block, fill) = block
<1>1. PICK S : S = Known(used)
  OBVIOUS
<1>2. PICK h : h = WithHeader(block)
  OBVIOUS
<1>3. FitBlock(h, used) /\ h.loaded /\ h.cap = block.cap /\ GoodStore(store, used, deleted \ unpurged)
  BY <1>2, HeaderIsGood DEF BaseInv
<1>4. PICK body, n : body = store.body /\ n = h.hdr.total
  OBVIOUS
<1>5. body \in Seq(S) /\ n \in Nat /\ fill \in [1..RecLen -> S]
  BY <1>1, <1>3, <1>4, FillIs, MaxCountAssumption DEF FitBlock, GoodBlock, GoodStore, Header, KnownRecs
<1>6. PICK mem : mem = ReadRecords(body, n, fill)
  OBVIOUS
<1>7. mem \in Seq([1..RecLen -> S]) /\ Len(mem) = n
  <2>1. ASSUME NEW i \in 1..n, NEW k \in 1..RecLen
        PROVE  (IF (i - 1) * RecLen + k <= Len(body) THEN body[(i - 1) * RecLen + k] ELSE fill[k]) \in S
    <3>1. PICK at : at = (i - 1) * RecLen + k
      OBVIOUS
    <3>2. at \in Nat \ {0}
      BY <3>1, Cell, LayoutAssumption
    <3>3. at <= Len(body) => body[at] \in S
      BY <1>5, <3>2
    <3>4. fill[k] \in S
      BY <1>5
    <3> QED BY <3>1, <3>3, <3>4
  <2>2. mem = [i \in 1..n |-> [k \in 1..RecLen |->
                 IF (i - 1) * RecLen + k <= Len(body) THEN body[(i - 1) * RecLen + k] ELSE fill[k]]]
    BY <1>6 DEF ReadRecords
  <2>3. mem \in [1..n -> [1..RecLen -> S]]
    BY <2>1, <2>2
  <2> QED BY <1>5, <2>3
<1>8. CASE block.cap # 0
  <2>1. WithRecords(block, fill) = block /\ h = block
    BY <1>2, <1>8 DEF WithRecords, WithHeader, BaseInv, GoodBlock
  <2> QED BY <1>3, <2>1
<1>9. CASE block.cap = 0
  <2>1. WithRecords(block, fill) = [h EXCEPT !.open = TRUE, !.mem = mem, !.cap = n]
    <3>1. /\ Opened(h) = [h EXCEPT !.open = TRUE] /\ Opened(h).hdr = h.hdr
      BY <1>3 DEF Opened, FitBlock, GoodBlock
    <3>2. WithRecords(block, fill) = [Opened(h) EXCEPT !.mem = mem, !.cap = n]
      BY <1>2, <1>4, <1>6, <1>9, <3>1 DEF WithRecords
    <3> QED BY <1>3, <3>1, <3>2 DEF FitBlock, GoodBlock
  <2>2. PICK b : b = [h EXCEPT !.open = TRUE, !.mem = mem, !.cap = n]
    OBVIOUS
  <2>3. mem \in Seq(KnownRecs(used)) /\ Len(mem) <= n /\ (n = 0 => mem = <<>>)
    BY <1>1, <1>5, <1>7 DEF KnownRecs
  <2>4. FitBlock(b, used)
    BY <1>3, <1>4, <1>5, <1>7, <2>2, <2>3 DEF FitBlock, GoodBlock
  <2> QED BY <1>9, <2>1, <2>2, <2>4
<1> QED BY <1>8, <1>9

LEMMA OpenedIsGood ==
  ASSUME NEW given, NEW b, FitBlock(b, given)
  PROVE  /\ FitBlock(Opened(b), given) /\ Opened(b).mem = b.mem /\ Opened(b).cap = b.cap
         /\ Opened(b).hdr = b.hdr /\ Opened(b).loaded = b.loaded
<1>1. PICK o : o = [b EXCEPT !.open = TRUE]
  OBVIOUS
<1>2. /\ o = [hdr |-> o.hdr, loaded |-> o.loaded, open |-> o.open, mem |-> o.mem, cap |-> o.cap]
      /\ o.hdr = b.hdr /\ o.mem = b.mem /\ o.cap = b.cap /\ o.loaded = b.loaded /\ o.open = TRUE
  BY <1>1 DEF FitBlock, GoodBlock
<1>3. FitBlock(o, given)
  BY <1>2 DEF FitBlock, GoodBlock
<1> QED BY <1>1, <1>2, <1>3 DEF Opened

LEMMA MarkedIsGood ==
  ASSUME NEW given \in SUBSET Ids, NEW b, FitBlock(b, given), NEW i \in 1..Len(b.mem),
         NEW status \in {"R", "D"}, NEW h \in Header, h.total = b.hdr.total
  PROVE  /\ FitBlock(Marked(b, i, h, status), given)
         /\ Marked(b, i, h, status).cap = b.cap /\ b.cap # 0
<1>1. PICK S, mem : S = Known(given) /\ mem = b.mem
  OBVIOUS
<1>2. status \in S /\ mem \in Seq([1..RecLen -> S]) /\ i \in 1..Len(mem)
  BY <1>1, KnownIs DEF FitBlock, GoodBlock, KnownRecs
<1>3. PICK rec : rec = [mem[i] EXCEPT ![1] = status]
  OBVIOUS
<1>4. rec \in [1..RecLen -> S]
  <2>1. mem[i] \in [1..RecLen -> S] /\ status \in S
    BY <1>2
  <2> QED BY <1>3, <2>1
<1>5. PICK w : w = [mem EXCEPT ![i] = rec]
  OBVIOUS
<1>6. w \in Seq([1..RecLen -> S]) /\ Len(w) = Len(mem)
  BY <1>2, <1>4, <1>5, ExceptSeq
<1>7. PICK d : d = [b EXCEPT !.open = TRUE, !.hdr = h, !.mem = w]
  OBVIOUS
<1>8. Marked(b, i, h, status) = d
  BY <1>1, <1>3, <1>5, <1>7 DEF Marked, Opened, FitBlock, GoodBlock
<1>9. b.cap # 0
  BY <1>1, <1>2 DEF FitBlock, GoodBlock
<1>10. FitBlock(d, given) /\ d.cap = b.cap
  <2>1. w \in Seq(KnownRecs(given))
    BY <1>1, <1>6 DEF KnownRecs
  <2> QED BY <1>1, <1>6, <1>7, <1>9, <2>1 DEF FitBlock, GoodBlock
<1> QED BY <1>8, <1>9, <1>10

LEMMA CompressedIsGood ==
  ASSUME NEW given, NEW b, FitBlock(b, given)
  PROVE  /\ FitBlock(Compressed(b), given) /\ Compressed(b).cap = b.cap
         /\ Compressed(b).loaded = b.loaded /\ (b.cap = 0 => Compressed(b) = b)
<1>1. CASE Compressed(b) = b
  BY <1>1
<1>2. CASE Compressed(b) # b
  <2>1. PICK mem, kept, h : mem = b.mem /\ kept = Kept(mem) /\ h = HeaderAfterCompress(b.hdr, Len(kept))
    OBVIOUS
  <2>2. PICK S : S = KnownRecs(given)
    OBVIOUS
  <2>3. mem \in Seq(S) /\ b.cap # 0 /\ Len(mem) = b.hdr.total /\ b.hdr \in Header /\ Len(mem) <= b.cap
    BY <1>2, <2>1, <2>2 DEF FitBlock, GoodBlock, Compressed
  <2>4. kept \in Seq(S) /\ Len(kept) \in Nat /\ Len(kept) <= Len(mem)
    BY <2>1, <2>3, KeptFrom DEF KeptAs
  <2>5. Compressed(b) = [b EXCEPT !.mem = kept, !.hdr = h]
    BY <1>2, <2>1 DEF Compressed
  <2>6. h \in Header /\ h.total = Len(kept)
    <3>1. Len(kept) \in 0..(Wrap - 1) /\ 0 \in 0..(Wrap - 1)
      BY <2>3, <2>4, MaxCountAssumption DEF Header
    <3>2. h = [b.hdr EXCEPT !.total = Len(kept), !.deleted = 0]
      BY <2>1 DEF HeaderAfterCompress
    <3> QED BY <2>3, <3>1, <3>2 DEF Header
  <2>7. PICK c : c = [b EXCEPT !.mem = kept, !.hdr = h]
    OBVIOUS
  <2>8. FitBlock(c, given) /\ c.cap = b.cap /\ c.loaded = b.loaded
    <3>1. /\ c = [hdr |-> c.hdr, loaded |-> c.loaded, open |-> c.open, mem |-> c.mem, cap |-> c.cap]
          /\ c.hdr = h /\ c.loaded = b.loaded /\ c.open = b.open /\ c.mem = kept /\ c.cap = b.cap
      BY <2>7 DEF FitBlock, GoodBlock
    <3>2. b.cap \in Nat /\ b.loaded \in BOOLEAN /\ b.open \in BOOLEAN /\ b.loaded
      BY <2>3 DEF FitBlock, GoodBlock
    <3>3. Len(kept) <= b.cap
      BY <2>3, <2>4, <3>2
    <3> QED BY <2>2, <2>3, <2>4, <2>6, <3>1, <3>2, <3>3 DEF FitBlock, GoodBlock
  <2> QED BY <2>3, <2>5, <2>7, <2>8
<1> QED BY <1>1, <1>2

-----------------------------------------------------------------------------
(* The writes of a call                                                      *)

LEMMA WritesJoin ==
  ASSUME NEW given, NEW gone, NEW w, NEW z, GoodWrites(w, given, gone), GoodWrites(z, given, gone)
  PROVE  GoodWrites(w \o z, given, gone)
<1>1. PICK S : w \in Seq(S) /\ \A s \in S : GoodStore(s, given, gone)
  BY DEF GoodWrites
<1>2. PICK T : z \in Seq(T) /\ \A s \in T : GoodStore(s, given, gone)
  BY DEF GoodWrites
<1>3. w \in Seq(S \cup T) /\ z \in Seq(S \cup T)
  BY <1>1, <1>2
<1>4. w \o z \in Seq(S \cup T)
  BY <1>3, ConcatProperties
<1>5. \A s \in S \cup T : GoodStore(s, given, gone)
  BY <1>1, <1>2
<1> QED BY <1>4, <1>5 DEF GoodWrites

LEMMA FewWrites ==
  ASSUME NEW given, NEW gone, NEW x, NEW y, NEW z,
         GoodStore(x, given, gone), GoodStore(y, given, gone), GoodStore(z, given, gone)
  PROVE  /\ GoodWrites(<<>>, given, gone) /\ GoodWrites(<<x>>, given, gone)
         /\ GoodWrites(<<x, y>>, given, gone) /\ GoodWrites(<<x, y, z>>, given, gone)
<1>1. PICK S : S = {x, y, z}
  OBVIOUS
<1>2. <<>> \in Seq(S) /\ <<x>> \in Seq(S) /\ <<x, y>> \in Seq(S) /\ <<x, y, z>> \in Seq(S)
  BY <1>1
<1>3. \A s \in S : GoodStore(s, given, gone)
  BY <1>1
<1> QED BY <1>2, <1>3 DEF GoodWrites

LEMMA CompressIsGood ==
  ASSUME NEW given \in SUBSET Ids, NEW gone, NEW s, GoodStore(s, given, gone),
         NEW b, NEW c, GoodBlock(c, given), NEW z, z = CompressWrites(s, b, c)
  PROVE  GoodWrites(z, given, gone) /\ GoodStore(LastOf(s, z), given, gone)
<1>1. CASE b = c
  <2>1. z = <<>>
    BY <1>1 DEF CompressWrites
  <2>2. LastOf(s, z) = s
    BY <2>1 DEF LastOf
  <2> QED BY <2>1, <2>2, FewWrites
<1>2. CASE b # c
  <2>1. PICK p, q, cells : /\ cells = Cells(c.mem) /\ p = StoreHeader(s, c.hdr)
                           /\ q = [p EXCEPT !.body = WriteAt(@, 1, cells)]
    OBVIOUS
  <2>2. z = <<p, q>>
    BY <1>2, <2>1 DEF CompressWrites
  <2>3. GoodStore(p, given, gone) /\ p.body = s.body
    BY <2>1 DEF GoodStore, StoreHeader, GoodBlock
  <2>4. GoodStore(q, given, gone)
    <3>1. PICK S : S = Known(given)
      OBVIOUS
    <3>2. c.mem \in Seq([1..RecLen -> S]) /\ p.body \in Seq(S) /\ "0" \in S
      BY <2>3, <3>1, KnownIs DEF GoodBlock, GoodStore, KnownRecs
    <3>3. cells \in Seq(S)
      BY <2>1, <3>2, CellsType
    <3>4. WriteAt(p.body, 1, cells) \in Seq(S)
      BY <3>2, <3>3, WriteIsGood
    <3> QED BY <2>1, <2>3, <3>1, <3>4 DEF GoodStore
  <2>5. LastOf(s, z) = q
    BY <2>2 DEF LastOf
  <2> QED BY <2>2, <2>3, <2>4, <2>5, FewWrites
<1> QED BY <1>1, <1>2

LEMMA FreshIsGood ==
  ASSUME NEW given
  PROVE  GoodBlock(Fresh, given) /\ ~(Len(Fresh.mem) > Fresh.cap)
<1>1. NoHeader \in Header
  BY MaxCountAssumption DEF NoHeader, Header
<1>2. <<>> \in Seq(KnownRecs(given)) /\ Len(<<>>) = 0
  OBVIOUS
<1> QED BY <1>1, <1>2 DEF GoodBlock, Fresh

\* However far a call comes, what it leaves is good; records are written outside
\* the buffer only where the call says so.
LEMMA FinishIsGood ==
  ASSUME NEW given \in SUBSET Ids, NEW gone, NEW b, GoodBlock(b, given),
         NEW w, GoodWrites(w, given, gone), GoodStore(store, given, gone) \/ Len(w) # 0,
         NEW r, NEW right \in Trusts, trust \in Trusts, Finish(b, w, r, right),
         Len(b.mem) <= b.cap \/ (b.cap = Step /\ right = "neither")
  PROVE  /\ GoodStore(store', given, gone) /\ GoodBlock(block', given)
         /\ Overrun' => block'.cap = Step /\ trust' = "neither"
         /\ ret' = r \/ ret' = <<"none">>
         /\ trust' \in Trusts /\ (trust = "neither" => trust' = "neither")
<1>1. PICK S : w \in Seq(S) /\ \A s \in S : GoodStore(s, given, gone)
  BY DEF GoodWrites
<1>2. CASE store' = LastOf(store, w) /\ ret' = r /\ block' = b /\ trust' = Least(trust, right)
  <2>1. w = <<>> \/ w[Len(w)] \in S
    BY <1>1
  <2>2. GoodStore(store', given, gone)
    BY <1>1, <1>2, <2>1 DEF LastOf
  <2>3. trust' \in Trusts /\ ("neither" \in {trust, right} => trust' = "neither")
    BY <1>2 DEF Least, Trusts
  <2>4. Overrun' => ~(Len(b.mem) <= b.cap)
    <3>1. b.cap \in Nat /\ Len(b.mem) \in Nat
      BY DEF GoodBlock
    <3>2. Overrun' <=> Len(b.mem) > b.cap
      BY <1>2 DEF Overrun
    <3> QED BY <3>1, <3>2
  <2> QED BY <1>2, <2>2, <2>3, <2>4
<1>3. CASE /\ \E k \in 1..(Len(w) - 1) : store' = w[k]
           /\ ret' = <<"none">> /\ block' = Fresh /\ trust' = "neither"
  <2>1. store' \in S
    BY <1>1, <1>3
  <2>2. GoodBlock(Fresh, given) /\ ~(Len(Fresh.mem) > Fresh.cap)
    BY FreshIsGood
  <2>3. ~Overrun'
    BY <1>3, <2>2 DEF Overrun
  <2> QED BY <1>1, <1>3, <2>1, <2>2, <2>3 DEF Trusts
<1> QED BY <1>2, <1>3 DEF Finish

LEMMA QuietIsGood ==
  ASSUME BaseInv, UNCHANGED <<used, deleted, unpurged>>,
         NEW b, FitBlock(b, used), NEW r, r[1] # "read", Finish(b, <<>>, r, "both")
  PROVE  BaseInv'
<1>1. PICK given, gone : given = used /\ gone = deleted \ unpurged
  OBVIOUS
<1>2. /\ GoodStore(store, given, gone) /\ given \in SUBSET Ids /\ GoodBlock(b, given)
      /\ Len(b.mem) <= b.cap /\ trust \in Trusts /\ "both" \in Trusts
  BY <1>1 DEF BaseInv, FitBlock, Trusts
<1>3. GoodWrites(<<>>, given, gone)
  BY <1>2, FewWrites
<1>4. /\ GoodStore(store', given, gone) /\ GoodBlock(block', given)
      /\ Overrun' => block'.cap = Step /\ trust' = "neither"
      /\ ret' = r \/ ret' = <<"none">>
      /\ trust' \in Trusts
  BY <1>2, <1>3, FinishIsGood
<1>5. ret'[1] # "read"
  <2>1. <<"none">>[1] # "read"
    OBVIOUS
  <2> QED BY <1>4, <2>1
<1>6. /\ GoodStore(store', used', deleted' \ unpurged') /\ GoodBlock(block', used')
      /\ deleted' \subseteq used' /\ unpurged' \subseteq deleted' /\ used' \subseteq Ids
  BY <1>1, <1>4 DEF BaseInv
<1> QED BY <1>4, <1>5, <1>6 DEF BaseInv

\* The counters of a header stay unsigned int.
LEMMA CountersStay ==
  ASSUME NEW n \in 0..(Wrap - 1)
  PROVE  Plus1(n) \in 0..(Wrap - 1) /\ Minus1(n) \in 0..(Wrap - 1)
  BY MaxCountAssumption DEF Plus1, Minus1

\* A call asks what the block is trusted with after it, and no call restores it.
LEMMA TrustIsNotRegained ==
  ASSUME [Next]_vars, trust = "neither"
  PROVE  trust' = "neither"
<1>1. \A right : Least(trust, right) = "neither"
  BY LeastIs
<1>2. ASSUME NEW b, NEW w, NEW r, NEW right, Finish(b, w, r, right)
      PROVE  trust' = "neither"
  BY <1>1, <1>2 DEF Finish
<1>3. ASSUME NEW id \in Ids, Add(id) PROVE trust' = "neither"
  <2>1. PICK fill, purged : AddBody(id, fill, purged)
    BY <1>3, AddDoes
  <2> QED BY ZenonT(60), <1>2, <2>1 DEF AddBody
<1>4. ASSUME NEW id \in Ids, ReadMessage(id) PROVE trust' = "neither"
  BY ZenonT(60), <1>2, <1>4 DEF ReadMessage
<1>5. ASSUME NEW id \in Ids, DeleteMessage(id) PROVE trust' = "neither"
  <2>1. PICK fill, purged : DeleteSteps(id, fill, purged)
    BY <1>5, DeleteDoes
  <2> QED BY ZenonT(60), <1>2, <2>1 DEF DeleteSteps
<1>6. ASSUME NEW onlyNew \in BOOLEAN, GetIds(onlyNew) PROVE trust' = "neither"
  BY <1>2, <1>6 DEF GetIds
<1>7. GetCount => trust' = "neither"
  BY <1>2 DEF GetCount
<1>8. CloseHandler \/ Drop \/ UNCHANGED vars => trust' = "neither"
  BY DEF CloseHandler, Drop, vars
<1> QED BY <1>3, <1>4, <1>5, <1>6, <1>7, <1>8 DEF Next, Calls

\* Room for one record more, when the records are loaded; else the buffer has one
\* step of room, whatever the header counts.
Grows(c, old, rec, h, e) ==
  /\ h = [c.hdr EXCEPT !.total = Plus1(@), !.new = NewAfterAdd(c.hdr)]
  /\ e = [c EXCEPT !.hdr = h, !.mem = Append(old, rec), !.cap = RoomForNext(c)]

LEMMA RoomIsMade ==
  ASSUME NEW given, NEW c, FitBlock(c, given), c.loaded, c.hdr.total < MaxCount,
         NEW old \in Seq(KnownRecs(given)), Len(old) = c.hdr.total,
         NEW rec \in KnownRecs(given), NEW h, NEW e, Grows(c, old, rec, h, e)
  PROVE  /\ GoodBlock(e, given) /\ h \in Header
         /\ e.mem = Append(old, rec) /\ e.cap # 0
         /\ Len(e.mem) <= e.cap \/ (c.cap = 0 /\ c.hdr.total # 0 /\ e.cap = Step)
<1>1. PICK n : n = c.hdr.total
  OBVIOUS
<1>2. n \in Nat /\ n < MaxCount /\ c.hdr \in Header /\ c.cap \in Nat /\ Plus1(n) = n + 1
      /\ n + 1 \in 0..(Wrap - 1)
  <2>1. c.hdr \in Header /\ c.cap \in Nat
    BY DEF FitBlock, GoodBlock
  <2>2. n \in Nat /\ n + 1 < Wrap
    BY <1>1, <2>1, MaxCountAssumption DEF Header
  <2>3. Plus1(n) = n + 1
    BY <1>1, <2>2, CountersMove, MaxCountAssumption
  <2> QED BY <1>1, <2>1, <2>2, <2>3, MaxCountAssumption
<1>3. h \in Header /\ h.total = n + 1
  <2>1. c.hdr.new \in 0..(Wrap - 1)
    BY <1>2 DEF Header
  <2>2. NewAfterAdd(c.hdr) \in 0..(Wrap - 1)
    BY <2>1, CountersStay DEF NewAfterAdd
  <2>3. h = [c.hdr EXCEPT !.total = n + 1, !.new = NewAfterAdd(c.hdr)]
    BY <1>1, <1>2 DEF Grows
  <2> QED BY <1>2, <2>2, <2>3 DEF Header
<1>4. PICK mem : mem = Append(old, rec)
  OBVIOUS
<1>5. mem \in Seq(KnownRecs(given)) /\ Len(mem) = n + 1
  BY <1>1, <1>4, AppendProperties
<1>6. PICK room : room = RoomForNext(c)
  OBVIOUS
<1>7. room = IF n + 1 > c.cap THEN c.cap + Step ELSE c.cap
  BY <1>1, <1>6 DEF RoomForNext
<1>8. room \in Nat \ {0}
  BY <1>2, <1>7, LayoutAssumption
<1>9. e = [c EXCEPT !.hdr = h, !.mem = mem, !.cap = room]
  BY <1>4, <1>6 DEF Grows
<1>10. GoodBlock(e, given) /\ e.mem = mem /\ e.cap = room
  BY <1>3, <1>5, <1>8, <1>9 DEF FitBlock, GoodBlock
<1>11. n + 1 <= room \/ (c.cap = 0 /\ n # 0 /\ room = Step)
  <2>1. CASE c.cap = 0
    BY <1>2, <1>7, <2>1, LayoutAssumption
  <2>2. CASE c.cap # 0
    <3>1. n <= c.cap
      BY <1>1, <2>2 DEF FitBlock, GoodBlock
    <3> QED BY <1>2, <1>7, <3>1, LayoutAssumption
  <2> QED BY <2>1, <2>2
<1> QED BY <1>1, <1>3, <1>4, <1>5, <1>8, <1>10, <1>11

LEMMA NewRecord ==
  ASSUME NEW given \in SUBSET Ids, NEW id \in given
  PROVE  Record(id, "N") \in KnownRecs(given) /\ Record(id, "N") \in Seq(Known(given))
<1>1. id \in Known(given) /\ "N" \in Known(given)
  BY KnownIs
<1>2. Record(id, "N") \in [1..RecLen -> Known(given)]
  BY <1>1 DEF Record
<1> QED BY <1>2, LayoutAssumption DEF KnownRecs

LEMMA OldRecords ==
  ASSUME NEW given \in SUBSET Ids, used \in SUBSET Ids, used \subseteq given,
         NEW c, FitBlock(c, given), NEW fill \in Fills,
         NEW old, old = IF c.cap = 0 THEN [i \in 1..c.hdr.total |-> fill] ELSE c.mem
  PROVE  old \in Seq(KnownRecs(given)) /\ Len(old) = c.hdr.total
<1>1. fill \in KnownRecs(given)
  <2>1. Known(used) \subseteq Known(given)
    BY KnownIs
  <2> QED BY <2>1, FillIs DEF KnownRecs
<1>2. /\ c.hdr.total \in Nat /\ (c.cap # 0 => Len(c.mem) = c.hdr.total)
      /\ c.mem \in Seq(KnownRecs(given))
  BY MaxCountAssumption DEF Header, FitBlock, GoodBlock
<1>3. CASE c.cap = 0
  BY <1>1, <1>2, <1>3
<1>4. CASE c.cap # 0
  BY <1>2, <1>4
<1> QED BY <1>3, <1>4

LEMMA AddIsGood ==
  ASSUME BaseInv, ~Overrun, NEW id \in Ids, Add(id)
  PROVE  BaseInv'
<1>1. PICK fill \in Fills, purged \in BOOLEAN : AddBody(id, fill, purged)
  BY AddDoes
<1>2. used' = used \cup {id} /\ deleted' = deleted /\ unpurged' = unpurged /\ id \notin used
  BY DEF Add
<1>3. PICK b : b = Opened(WithHeader(block))
  OBVIOUS
<1>4. PICK c : c = IF b.hdr.total >= MaxCount THEN Compressed(b) ELSE b
  OBVIOUS
<1>5. PICK saved : saved = [store EXCEPT !.texts = @ \cup {id}]
  OBVIOUS
<1>6. PICK z, t : z = CompressWrites(saved, b, c) /\ t = LastOf(saved, z)
  OBVIOUS
<1>7. PICK h : h = [c.hdr EXCEPT !.total = Plus1(@), !.new = NewAfterAdd(c.hdr)]
  OBVIOUS
<1>8. PICK s0, s1, s2 : /\ s0 = [t EXCEPT !.texts = IF purged THEN @ \ {id} ELSE @]
                        /\ s1 = StoreHeader(t, h)
                        /\ s2 = [s1 EXCEPT !.body = @ \o Record(id, "N")]
  OBVIOUS
<1>9. PICK given, gone : given = used \cup {id} /\ gone = deleted \ unpurged
  OBVIOUS
<1>10. /\ given \in SUBSET Ids /\ GoodStore(store, given, gone) /\ FitBlock(b, given)
       /\ used \in SUBSET Ids /\ used \subseteq given /\ gone \subseteq used /\ b.loaded
  <2>1. FitBlock(b, used) /\ b.loaded
    BY <1>3, HeaderIsGood, OpenedIsGood
  <2>2. /\ given \in SUBSET Ids /\ used \in SUBSET Ids /\ used \subseteq given
        /\ gone \subseteq used /\ GoodStore(store, used, gone)
    BY <1>9 DEF BaseInv
  <2> QED BY <2>1, <2>2, GoodGrows
<1>11. FitBlock(c, given) /\ c.loaded
  BY <1>4, <1>10, CompressedIsGood
<1>12. GoodBlock(c, given) /\ c.cap \in Nat /\ Len(c.mem) <= c.cap /\ c.hdr \in Header
       /\ c.mem \in Seq(KnownRecs(given))
  BY <1>11 DEF FitBlock, GoodBlock
<1>13. GoodStore(saved, given, gone)
  BY <1>2, <1>5, <1>9, <1>10 DEF GoodStore
<1>14. GoodWrites(z, given, gone) /\ GoodStore(t, given, gone)
  BY <1>6, <1>10, <1>12, <1>13, CompressIsGood
<1>15. GoodStore(s0, given, gone)
  BY <1>8, <1>14 DEF GoodStore
<1>16. PICK w : w = <<saved>> \o z
  OBVIOUS
<1>17. GoodWrites(w, given, gone) /\ GoodWrites(w \o <<s0>>, given, gone)
  <2>1. GoodWrites(<<saved>>, given, gone) /\ GoodWrites(<<s0>>, given, gone)
    BY <1>13, <1>15, FewWrites
  <2>2. GoodWrites(w, given, gone)
    BY <1>14, <1>16, <2>1, WritesJoin
  <2> QED BY <2>1, <2>2, WritesJoin
<1>18. PICK rec, old : /\ rec = Record(id, "N")
                       /\ old = IF c.cap = 0 THEN [i \in 1..c.hdr.total |-> fill] ELSE c.mem
  OBVIOUS
<1>19. PICK e : e = [c EXCEPT !.hdr = h, !.mem = Append(old, rec), !.cap = RoomForNext(c)]
  OBVIOUS
<1>20. PICK r1, r2 : r1 = <<"add", id, "no space">> /\ r2 = <<"add", id, "ok">>
  OBVIOUS
<1>21. PICK right : right = IF c.cap = 0 /\ c.hdr.total # 0 THEN "neither" ELSE After(b, c)
  OBVIOUS
<1>22. \/ Finish(c, w \o <<s0>>, r1, After(b, c))
       \/ c.hdr.total < MaxCount /\ Finish(e, w \o <<s1, s2>>, r2, right)
  BY ZenonT(60), <1>1, <1>3, <1>4, <1>5, <1>6, <1>7, <1>8, <1>16, <1>18, <1>19, <1>20, <1>21 DEF AddBody
<1>23. right \in Trusts /\ After(b, c) \in Trusts /\ trust \in Trusts
  BY <1>21 DEF After, Trusts, BaseInv
<1>24. /\ GoodStore(store', given, gone) /\ GoodBlock(block', given)
       /\ Overrun' => block'.cap = Step /\ trust' = "neither"
       /\ ret' = r1 \/ ret' = r2 \/ ret' = <<"none">>
       /\ trust' \in Trusts
  <2>1. CASE Finish(c, w \o <<s0>>, r1, After(b, c))
    BY <1>10, <1>12, <1>17, <1>23, <2>1, FinishIsGood
  <2>2. CASE c.hdr.total < MaxCount /\ Finish(e, w \o <<s1, s2>>, r2, right)
    <3>1. rec \in KnownRecs(given) /\ rec \in Seq(Known(given))
      BY <1>9, <1>10, <1>18, NewRecord
    <3>3. old \in Seq(KnownRecs(given)) /\ Len(old) = c.hdr.total
      BY <1>10, <1>11, <1>18, OldRecords
    <3>4. /\ GoodBlock(e, given) /\ h \in Header
          /\ Len(e.mem) <= e.cap \/ (c.cap = 0 /\ c.hdr.total # 0 /\ e.cap = Step)
      <4>1. c.hdr.total < MaxCount
        BY <2>2
      <4>2. Grows(c, old, rec, h, e)
        BY <1>7, <1>19 DEF Grows
      <4> QED BY <1>11, <3>1, <3>3, <4>1, <4>2, RoomIsMade
    <3>5. Len(e.mem) <= e.cap \/ (e.cap = Step /\ right = "neither")
      BY <1>21, <3>4
    <3>6. GoodStore(s1, given, gone)
      BY <1>8, <1>14, <3>4 DEF GoodStore, StoreHeader
    <3>7. GoodStore(s2, given, gone)
      <4>1. s1.body \o rec \in Seq(Known(given))
        BY <3>1, <3>6, ConcatProperties DEF GoodStore
      <4>2. s2 = [s1 EXCEPT !.body = @ \o rec]
        BY <1>8, <1>18
      <4> QED BY <3>6, <4>1, <4>2 DEF GoodStore
    <3>8. GoodWrites(w \o <<s1, s2>>, given, gone)
      <4>1. GoodWrites(<<s1, s2>>, given, gone)
        BY <3>6, <3>7, FewWrites
      <4> QED BY <1>17, <4>1, WritesJoin
    <3> QED BY <1>10, <1>23, <2>2, <3>4, <3>5, <3>8, FinishIsGood
  <2> QED BY <1>22, <2>1, <2>2
<1>25. ret'[1] # "read"
  <2>1. r1[1] = "add" /\ r2[1] = "add" /\ <<"none">>[1] = "none"
    BY <1>20
  <2> QED BY <1>24, <2>1
<1>26. used' = given /\ deleted' \ unpurged' = gone
  BY <1>2, <1>9
<1>27. deleted' \subseteq used' /\ unpurged' \subseteq deleted' /\ used' \subseteq Ids
  BY <1>2, <1>9, <1>10 DEF BaseInv
<1> QED BY <1>24, <1>25, <1>26, <1>27 DEF BaseInv

LEMMA ReadIsGood ==
  ASSUME BaseInv, ~Overrun, NEW id \in Ids, ReadMessage(id)
  PROVE  BaseInv'
<1>1. UNCHANGED <<used, deleted, unpurged>>
  BY DEF ReadMessage
<1>2. PICK fill \in Fills :
        LET b == WithRecords(block, fill)
            i == IndexOf(b.mem, id)
            h == [b.hdr EXCEPT !.new = Minus1(@)]
            s1 == StoreHeader(store, h)
            s2 == [s1 EXCEPT !.body = WriteAt(@, ReadStatusAt(i), <<StatusAfterRead>>)]
        IN  \/ Finish(b, <<>>, <<"read", id, "error">>, "both")
            \/ /\ i # 0 /\ id \in store.texts
               /\ Finish(Marked(b, i, h, StatusAfterRead), <<s1, s2>>, <<"read", id, "N">>, "buffer")
            \/ /\ id \in store.texts
               /\ Finish(b, <<>>, <<"read", id, b.mem[i][1]>>, "both")
  BY DEF ReadMessage
<1>3. PICK given, gone : given = used /\ gone = deleted \ unpurged
  OBVIOUS
<1>4. PICK b : b = WithRecords(block, fill)
  OBVIOUS
<1>5. /\ FitBlock(b, given) /\ GoodStore(store, given, gone) /\ given \in SUBSET Ids
      /\ trust \in Trusts /\ "both" \in Trusts /\ "buffer" \in Trusts
  BY <1>3, <1>4, RecordsAreGood DEF BaseInv, Trusts
<1>6. PICK i : i = IndexOf(b.mem, id)
  OBVIOUS
<1>7. GoodBlock(b, given) /\ Len(b.mem) <= b.cap /\ b.hdr \in Header
      /\ b.mem \in Seq(KnownRecs(given))
  BY <1>5 DEF FitBlock, GoodBlock
<1>8. i = 0 \/ i \in 1..Len(b.mem)
  BY <1>6, <1>7, IndexIsFound DEF KnownRecs
<1>9. PICK h, s1, s2, d :
        /\ h = [b.hdr EXCEPT !.new = Minus1(@)] /\ s1 = StoreHeader(store, h)
        /\ s2 = [s1 EXCEPT !.body = WriteAt(@, ReadStatusAt(i), <<StatusAfterRead>>)]
        /\ d = Marked(b, i, h, StatusAfterRead)
  OBVIOUS
<1>10. h \in Header /\ h.total = b.hdr.total
  <2>1. Minus1(b.hdr.new) \in 0..(Wrap - 1)
    BY <1>7, CountersStay DEF Header
  <2> QED BY <1>7, <1>9, <2>1 DEF Header
<1>11. i # 0 => FitBlock(d, given) /\ GoodWrites(<<s1, s2>>, given, gone)
  <2> SUFFICES ASSUME i # 0 PROVE FitBlock(d, given) /\ GoodWrites(<<s1, s2>>, given, gone)
    OBVIOUS
  <2>1. i \in 1..Len(b.mem) /\ "R" \in {"R", "D"}
    BY <1>8
  <2>2. FitBlock(d, given)
    BY <1>5, <1>9, <1>10, <2>1, MarkedIsGood DEF StatusAfterRead
  <2>3. GoodStore(s1, given, gone)
    BY <1>5, <1>9, <1>10 DEF GoodStore, StoreHeader
  <2>4. GoodStore(s2, given, gone)
    <3>1. PICK S, pos : S = Known(given) /\ pos = ReadStatusAt(i)
      OBVIOUS
    <3>2. pos \in Nat \ {0}
      <4>1. i * RecLen \in Nat
        BY <2>1, Below, LayoutAssumption
      <4> QED BY <3>1, <4>1 DEF ReadStatusAt
    <3>3. s1.body \in Seq(S) /\ "0" \in S /\ <<"R">> \in Seq(S)
      BY <1>5, <2>3, <3>1, KnownIs DEF GoodStore
    <3>4. WriteAt(s1.body, pos, <<"R">>) \in Seq(S)
      BY <3>2, <3>3, WriteIsGood
    <3>5. s2 = [s1 EXCEPT !.body = WriteAt(@, pos, <<"R">>)]
      BY <1>9, <3>1 DEF StatusAfterRead
    <3> QED BY <2>3, <3>1, <3>4, <3>5 DEF GoodStore
  <2> QED BY <2>2, <2>3, <2>4, FewWrites
<1>12. GoodWrites(<<>>, given, gone)
  BY <1>5, FewWrites
<1>13. PICK r0, r1, r2 : /\ r0 = <<"read", id, "error">> /\ r1 = <<"read", id, "N">>
                         /\ r2 = <<"read", id, b.mem[i][1]>>
  OBVIOUS
<1>14. \/ Finish(b, <<>>, r0, "both")
       \/ i # 0 /\ id \in store.texts /\ Finish(d, <<s1, s2>>, r1, "buffer")
       \/ id \in store.texts /\ Finish(b, <<>>, r2, "both")
  BY <1>2, <1>4, <1>6, <1>9, <1>13
<1>15. /\ GoodStore(store', given, gone) /\ GoodBlock(block', given)
       /\ Overrun' => block'.cap = Step /\ trust' = "neither"
       /\ trust' \in Trusts
       /\ ret' = r0 \/ ret' = <<"none">> \/ (id \in store.texts /\ ret' \in {r1, r2})
  <2>1. CASE Finish(b, <<>>, r0, "both")
    BY <1>5, <1>7, <1>12, <2>1, FinishIsGood
  <2>2. CASE i # 0 /\ id \in store.texts /\ Finish(d, <<s1, s2>>, r1, "buffer")
    <3>1. GoodBlock(d, given) /\ Len(d.mem) <= d.cap /\ GoodWrites(<<s1, s2>>, given, gone)
      BY <1>11, <2>2 DEF FitBlock
    <3> QED BY <1>5, <2>2, <3>1, FinishIsGood
  <2>3. CASE id \in store.texts /\ Finish(b, <<>>, r2, "both")
    BY <1>5, <1>7, <1>12, <2>3, FinishIsGood
  <2> QED BY <1>14, <2>1, <2>2, <2>3
<1>16. ret'[1] = "read" => (ret'[3] # "error" => ret'[2] \notin gone)
  <2>1. r0[3] = "error" /\ r1[2] = id /\ r2[2] = id /\ <<"none">>[1] = "none"
    BY <1>13
  <2>2. id \in store.texts => id \notin gone
    BY <1>5 DEF GoodStore
  <2> QED BY <1>15, <2>1, <2>2
<1>17. deleted \subseteq used /\ unpurged \subseteq deleted /\ used \subseteq Ids
  BY DEF BaseInv
<1> QED BY <1>1, <1>3, <1>15, <1>16, <1>17 DEF BaseInv

LEMMA DeleteIsGood ==
  ASSUME BaseInv, ~Overrun, NEW id \in Ids, DeleteMessage(id)
  PROVE  BaseInv'
<1>1. used' = used /\ used \subseteq Ids /\ deleted \subseteq used /\ unpurged \subseteq deleted
      /\ trust \in Trusts /\ GoodStore(store, used, deleted \ unpurged)
  BY DEF DeleteMessage, BaseInv
<1>2. PICK fill \in Fills, purged \in BOOLEAN : DeleteSteps(id, fill, purged)
  BY DeleteDoes
<1>3. PICK b : b = Opened(WithRecords(block, fill))
  OBVIOUS
<1>4. FitBlock(b, used)
  BY <1>3, RecordsAreGood, OpenedIsGood
<1>5. PICK i, h : /\ i = IndexOf(b.mem, id)
                  /\ h = [b.hdr EXCEPT !.deleted = Plus1(@),
                                       !.new = IF b.mem[i][1] = "N" THEN Minus1(@) ELSE @]
  OBVIOUS
<1>6. PICK d, c : d = Marked(b, i, h, "D") /\ c = IF IsCompress(h) THEN Compressed(d) ELSE d
  OBVIOUS
<1>7. PICK s1, s2, s3, z :
        /\ s1 = [store EXCEPT !.texts = IF purged THEN TextsAfterDelete(@, id) ELSE @]
        /\ s2 = StoreHeader(s1, h)
        /\ s3 = [s2 EXCEPT !.body = WriteAt(@, DeleteStatusAt(i), <<"D">>)]
        /\ z = CompressWrites(s3, d, c)
  OBVIOUS
<1>8. PICK r0, r1, r2 : /\ r0 = <<"delete", id, "error">> /\ r1 = <<"delete", id, "already deleted">>
                        /\ r2 = <<"delete", id, "deleted">>
  OBVIOUS
<1>9. r0[1] # "read" /\ r1[1] # "read" /\ r2[1] = "delete" /\ <<"none">>[1] = "none"
  BY <1>8
<1>10. \/ Finish(b, <<>>, r0, "both") /\ UNCHANGED <<deleted, unpurged>>
       \/ Finish(b, <<>>, r1, "both") /\ UNCHANGED <<deleted, unpurged>>
       \/ /\ i # 0 /\ Finish(c, <<s1, s2, s3>> \o z, r2, After(d, c))
          /\ deleted' = deleted \cup {id}
          /\ unpurged' = IF purged THEN unpurged \ {id} ELSE unpurged \cup {id}
  BY ZenonT(60), <1>2, <1>3, <1>5, <1>6, <1>7, <1>8 DEF DeleteSteps
<1>11. CASE Finish(b, <<>>, r0, "both") /\ UNCHANGED <<deleted, unpurged>>
  BY <1>1, <1>4, <1>9, <1>11, QuietIsGood
<1>12. CASE Finish(b, <<>>, r1, "both") /\ UNCHANGED <<deleted, unpurged>>
  BY <1>1, <1>4, <1>9, <1>12, QuietIsGood
<1>13. CASE /\ i # 0 /\ Finish(c, <<s1, s2, s3>> \o z, r2, After(d, c))
            /\ deleted' = deleted \cup {id}
            /\ unpurged' = IF purged THEN unpurged \ {id} ELSE unpurged \cup {id}
  <2>1. PICK given, gone, S : given = used /\ gone = deleted' \ unpurged' /\ S = Known(given)
    OBVIOUS
  <2>2. i \in 1..Len(b.mem) /\ HasId(b.mem[i], id) /\ b.mem \in Seq([1..RecLen -> S])
    <3>1. b.mem \in Seq([1..RecLen -> S])
      BY <1>4, <2>1 DEF FitBlock, GoodBlock, KnownRecs
    <3> QED BY <1>5, <1>13, <3>1, IndexIsFound
  <2>3. given \in SUBSET Ids /\ id \in given
    <3>1. 2 \in 2..RecLen /\ 2 \in 1..RecLen
      BY LayoutAssumption
    <3>2. b.mem[i] \in [1..RecLen -> S]
      BY <2>2
    <3>3. b.mem[i][2] = id
      BY <2>2, <3>1 DEF HasId
    <3>4. id \in S
      BY <3>1, <3>2, <3>3
    <3> QED BY <1>1, <2>1, <3>4, KnownIs
  <2>4. h \in Header /\ h.total = b.hdr.total /\ FitBlock(b, given)
    <3>1. b.hdr \in Header
      BY <1>4 DEF FitBlock, GoodBlock
    <3>2. Plus1(b.hdr.deleted) \in 0..(Wrap - 1) /\ Minus1(b.hdr.new) \in 0..(Wrap - 1)
      BY <3>1, CountersStay DEF Header
    <3> QED BY <1>4, <1>5, <2>1, <3>1, <3>2 DEF Header
  <2>5. FitBlock(d, given)
    <3>1. "D" \in {"R", "D"}
      OBVIOUS
    <3> QED BY <1>6, <2>2, <2>3, <2>4, <3>1, MarkedIsGood
  <2>6. FitBlock(c, given)
    BY <1>6, <2>5, CompressedIsGood
  <2>7. GoodStore(s1, given, gone)
    <3>1. s1.texts \cap gone = {}
      <4>1. store.texts \cap (deleted \ unpurged) = {}
        BY <1>1 DEF GoodStore
      <4>2. CASE purged
        <5>1. s1.texts = store.texts \ {id}
          BY <1>1, <1>7, <4>2 DEF GoodStore, TextsAfterDelete
        <5>2. gone \subseteq (deleted \ unpurged) \cup {id}
          BY <1>13, <2>1, <4>2
        <5> QED BY <4>1, <5>1, <5>2
      <4>3. CASE ~purged
        <5>1. s1.texts = store.texts
          BY <1>1, <1>7, <4>3 DEF GoodStore
        <5>2. gone \subseteq deleted \ unpurged
          BY <1>13, <2>1, <4>3
        <5> QED BY <4>1, <5>1, <5>2
      <4> QED BY <4>2, <4>3
    <3>2. /\ s1 = [hdr |-> s1.hdr, body |-> s1.body, texts |-> s1.texts]
          /\ s1.hdr = store.hdr /\ s1.body = store.body /\ s1.texts \subseteq store.texts
      BY <1>1, <1>7 DEF GoodStore, TextsAfterDelete
    <3> QED BY <1>1, <2>1, <3>1, <3>2 DEF GoodStore
  <2>8. GoodStore(s2, given, gone)
    BY <1>7, <2>4, <2>7 DEF GoodStore, StoreHeader
  <2>9. GoodStore(s3, given, gone)
    <3>1. PICK pos : pos = DeleteStatusAt(i)
      OBVIOUS
    <3>2. pos \in Nat \ {0}
      <4>1. PICK n \in Nat : n = i - 1
        BY <2>2
      <4>2. n * RecLen \in Nat
        BY Below, LayoutAssumption
      <4> QED BY <3>1, <4>1, <4>2 DEF DeleteStatusAt
    <3>3. s2.body \in Seq(S) /\ "0" \in S /\ <<"D">> \in Seq(S)
      BY <2>1, <2>3, <2>8, KnownIs DEF GoodStore
    <3>4. WriteAt(s2.body, pos, <<"D">>) \in Seq(S)
      BY <3>2, <3>3, WriteIsGood
    <3>5. s3 = [s2 EXCEPT !.body = WriteAt(@, pos, <<"D">>)]
      BY <1>7, <3>1
    <3> QED BY <2>1, <2>8, <3>4, <3>5 DEF GoodStore
  <2>10. GoodWrites(z, given, gone) /\ GoodWrites(<<s1, s2, s3>>, given, gone)
    <3>1. GoodBlock(c, given)
      BY <2>6 DEF FitBlock
    <3> QED BY <1>7, <2>3, <2>7, <2>8, <2>9, <3>1, CompressIsGood, FewWrites
  <2>11. PICK w : w = <<s1, s2, s3>> \o z
    OBVIOUS
  <2>12. GoodWrites(w, given, gone)
    BY <2>10, <2>11, WritesJoin
  <2>13. Len(w) # 0
    <3>1. PICK T : z \in Seq(T)
      BY <2>10 DEF GoodWrites
    <3>2. PICK v : v = <<s1, s2, s3>>
      OBVIOUS
    <3>3. v \in Seq({s1, s2, s3} \cup T) /\ Len(v) = 3 /\ z \in Seq({s1, s2, s3} \cup T)
      BY <3>1, <3>2
    <3>4. Len(w) = 3 + Len(z) /\ Len(z) \in Nat
      BY <2>11, <3>2, <3>3, ConcatProperties
    <3> QED BY <3>4
  <2>14. /\ GoodStore(store', given, gone) /\ GoodBlock(block', given)
         /\ Overrun' => block'.cap = Step /\ trust' = "neither"
         /\ trust' \in Trusts
         /\ ret' = r2 \/ ret' = <<"none">>
    <3>1. PICK right : right = After(d, c)
      OBVIOUS
    <3>2. right \in Trusts
      BY <3>1 DEF After, Trusts
    <3>3. Finish(c, w, r2, right)
      BY <1>13, <2>11, <3>1
    <3>4. GoodBlock(c, given) /\ Len(c.mem) <= c.cap
      BY <2>6 DEF FitBlock
    <3> QED BY <1>1, <2>3, <2>12, <2>13, <3>2, <3>3, <3>4, FinishIsGood
  <2>15. ret'[1] # "read"
    BY <1>9, <2>14
  <2>16. deleted' \subseteq used' /\ unpurged' \subseteq deleted' /\ used' \subseteq Ids
    BY <1>1, <1>13, <2>1, <2>3
  <2> QED BY <1>1, <2>1, <2>14, <2>15, <2>16 DEF BaseInv
<1> QED BY <1>10, <1>11, <1>12, <1>13

LEMMA BaseNext ==
  ASSUME BaseInv, [Next]_vars
  PROVE  BaseInv'
<1>1. ASSUME ~Overrun, NEW id \in Ids, Add(id) \/ ReadMessage(id) \/ DeleteMessage(id)
      PROVE  BaseInv'
  BY <1>1, AddIsGood, ReadIsGood, DeleteIsGood
<1>2. ASSUME ~Overrun, NEW onlyNew \in BOOLEAN, GetIds(onlyNew) PROVE BaseInv'
  <2>1. PICK b, rows : Finish(b, <<>>, <<"list", onlyNew, rows>>, "both") /\ FitBlock(b, used)
    BY <1>2, RecordsAreGood DEF GetIds
  <2>2. UNCHANGED <<used, deleted, unpurged>>
    BY <1>2 DEF GetIds
  <2>3. PICK r : r = <<"list", onlyNew, rows>>
    OBVIOUS
  <2>4. r[1] # "read"
    BY <2>3
  <2> QED BY <2>1, <2>2, <2>3, <2>4, QuietIsGood
<1>3. CASE ~Overrun /\ GetCount
  <2>1. PICK b, total, new : Finish(b, <<>>, <<"count", total, new>>, "both") /\ FitBlock(b, used)
    <3>1. FitBlock(Opened(WithHeader(block)), used)
      BY <1>3, HeaderIsGood, OpenedIsGood
    <3> QED BY <1>3, <3>1 DEF GetCount
  <2>2. UNCHANGED <<used, deleted, unpurged>>
    BY <1>3 DEF GetCount
  <2>3. PICK r : r = <<"count", total, new>>
    OBVIOUS
  <2>4. r[1] # "read"
    BY <2>3
  <2> QED BY <2>1, <2>2, <2>3, <2>4, QuietIsGood
<1>4. CASE ~Overrun /\ CloseHandler
  <2>1. GoodBlock(block', used) /\ ~Overrun'
    <3>1. block' = [block EXCEPT !.open = FALSE]
      BY <1>4 DEF CloseHandler
    <3>2. GoodBlock(block', used) /\ block'.mem = block.mem /\ block'.cap = block.cap
      BY <3>1 DEF BaseInv, GoodBlock
    <3> QED BY <1>4, <3>2 DEF Overrun
  <2>2. UNCHANGED <<store, ret, used, deleted, unpurged, trust>>
    BY <1>4 DEF CloseHandler
  <2> QED BY <2>1, <2>2 DEF BaseInv
<1>5. CASE Drop
  <2>1. GoodBlock(block', used) /\ ~Overrun'
    BY <1>5, FreshIsGood DEF Drop, Overrun
  <2>2. UNCHANGED <<store, ret, used, deleted, unpurged>> /\ trust' \in Trusts
    BY <1>5 DEF Drop, Trusts
  <2> QED BY <2>1, <2>2 DEF BaseInv
<1>6. CASE UNCHANGED vars
  <2>1. Overrun' <=> Overrun
    BY <1>6 DEF vars, Overrun
  <2> QED BY <1>6, <2>1 DEF BaseInv, vars
<1> QED BY <1>1, <1>2, <1>3, <1>4, <1>5, <1>6 DEF Next, Calls

LEMMA BaseInit ==
  ASSUME Init
  PROVE  BaseInv
<1>1. GoodBlock(block, {}) /\ ~Overrun
  BY FreshIsGood DEF Init, Overrun
<1>2. NoHeader \in Header
  BY MaxCountAssumption DEF NoHeader, Header
<1>3. GoodStore(store, {}, {})
  BY <1>2 DEF GoodStore, Init
<1>4. ret[1] # "read"
  <2>1. <<"none">>[1] # "read"
    OBVIOUS
  <2> QED BY <2>1 DEF Init
<1>5. used = {} /\ deleted = {} /\ unpurged = {} /\ trust \in Trusts
  BY DEF Init, Trusts
<1> QED BY <1>1, <1>3, <1>4, <1>5 DEF BaseInv

-----------------------------------------------------------------------------
(* What is selected of a sequence: a set of numbers has one ascending order, *)
(* and InOrder is it                                                         *)

\* The m numbers of P, each one at its place in f.
Orders(f, m, P) ==
  /\ m \in Nat /\ f \in [1..m -> P]
  /\ \A a, b \in 1..m : a < b => f[a] < f[b]
  /\ \A i \in P : \E a \in 1..m : f[a] = i

NotAbove(P, i) == {j \in P : j <= i}

\* An order of P without repetition is a bijection that keeps the numbers up to each place.
LEMMA OrdersCount ==
  ASSUME NEW P \in SUBSET Nat, NEW m, NEW f, Orders(f, m, P)
  PROVE  /\ IsFiniteSet(P) /\ Cardinality(P) = m
         /\ \A a, b \in 1..m : f[a] = f[b] => a = b
         /\ \A a \in 1..m : Cardinality(NotAbove(P, f[a])) = a
<1>1. /\ m \in Nat /\ f \in [1..m -> P] /\ \A a, b \in 1..m : a < b => f[a] < f[b]
      /\ \A i \in P : \E a \in 1..m : f[a] = i
  BY DEF Orders
<1>2. ASSUME NEW a \in 1..m, NEW b \in 1..m, f[a] <= f[b] PROVE a <= b
  <2>1. f[a] \in Nat /\ f[b] \in Nat
    BY <1>1
  <2> QED BY <1>1, <1>2, <2>1
<1>3. ASSUME NEW a \in 1..m, NEW b \in 1..m, f[a] = f[b] PROVE a = b
  <2>1. f[a] \in Nat /\ f[b] \in Nat
    BY <1>1
  <2>2. a <= b /\ b <= a
    BY <1>2, <1>3, <2>1
  <2> QED BY <1>1, <2>2
<1>4. ASSUME NEW S, NEW n \in 0..m, S \subseteq P, \A a \in 1..m : f[a] \in S <=> a <= n
      PROVE  IsFiniteSet(S) /\ Cardinality(S) = n
  <2> DEFINE g == [a \in 1..n |-> f[a]]
  <2>1. \A a \in 1..n : a \in 1..m
    BY <1>1
  <2>2. g \in [1..n -> S] /\ \A a, b \in 1..n : g[a] = g[b] => a = b
    BY <1>1, <1>3, <1>4, <2>1
  <2>3. \A i \in S : \E a \in 1..n : g[a] = i
    BY <1>1, <1>4
  <2> HIDE DEF g
  <2>4. g \in Bijection(1..n, S)
    BY <2>2, <2>3, Fun_IsBij
  <2>5. IsFiniteSet(1..n) /\ Cardinality(1..n) = n
    <3>1. n \in Nat /\ 1 \in Int /\ n \in Int
      OBVIOUS
    <3> QED BY <3>1, FS_Interval
  <2> QED BY <2>4, <2>5, FS_Bijection DEF ExistsBijection
<1>5. IsFiniteSet(P) /\ Cardinality(P) = m
  BY <1>1, <1>4
<1>6. ASSUME NEW a \in 1..m PROVE Cardinality(NotAbove(P, f[a])) = a
  <2>1. ASSUME NEW b \in 1..m PROVE f[b] \in NotAbove(P, f[a]) <=> b <= a
    <3>1. f[a] \in Nat /\ f[b] \in P /\ f[b] \in Nat
      BY <1>1
    <3>2. b <= a => f[b] <= f[a]
      BY <1>1, <3>1
    <3> QED BY <1>2, <3>1, <3>2 DEF NotAbove
  <2>2. NotAbove(P, f[a]) \subseteq P /\ a \in 0..m
    BY <1>1 DEF NotAbove
  <2> QED BY <1>4, <2>1, <2>2
<1> QED BY <1>3, <1>5, <1>6

\* InOrder is the order of P, and P has no other.
LEMMA InOrderOrders ==
  ASSUME NEW P \in SUBSET Nat, IsFiniteSet(P)
  PROVE  Orders(InOrder(P), Cardinality(P), P)
<1>1. PICK n, f : n = Cardinality(P) /\ f = InOrder(P)
  OBVIOUS
<1>2. /\ n \in Nat /\ f \in [1..n -> P]
      /\ \A a, b \in 1..n : f[a] = f[b] => a = b
      /\ \A i \in P : \E a \in 1..n : f[a] = i
      /\ \A a \in 1..n : Cardinality(NotAbove(P, f[a])) = a
  BY <1>1, InOrderIs DEF NotAbove
<1>3. ASSUME NEW a \in 1..n, NEW b \in 1..n, a < b PROVE f[a] < f[b]
  <2>1. f[a] \in P /\ f[b] \in P /\ f[a] \in Nat /\ f[b] \in Nat /\ f[a] # f[b]
    <3>1. f[a] \in P /\ f[b] \in P
      BY <1>2
    <3>2. f[a] # f[b]
      <4>1. a \in Nat /\ b \in Nat /\ a # b
        BY <1>2, <1>3
      <4> QED BY <1>2, <4>1
    <3> QED BY <3>1, <3>2
  <2>2. CASE f[b] <= f[a]
    <3>1. NotAbove(P, f[b]) \subseteq NotAbove(P, f[a])
      <4>1. ASSUME NEW j \in P, j <= f[b] PROVE j <= f[a]
        BY <2>1, <2>2, <4>1
      <4> QED BY <4>1 DEF NotAbove
    <3>2. IsFiniteSet(NotAbove(P, f[a]))
      BY FS_Subset DEF NotAbove
    <3>3. b <= a
      BY <1>2, <3>1, <3>2, FS_Subset
    <3> QED BY <1>2, <1>3, <3>3
  <2> QED BY <2>1, <2>2
<1> QED BY <1>1, <1>2, <1>3 DEF Orders

LEMMA OnlyInOrder ==
  ASSUME NEW P \in SUBSET Nat, NEW m, NEW f, Orders(f, m, P)
  PROVE  InOrder(P) = f
<1>1. IsFiniteSet(P) /\ Cardinality(P) = m /\ \A a \in 1..m : Cardinality(NotAbove(P, f[a])) = a
  BY OrdersCount
<1>2. PICK g : g = InOrder(P)
  OBVIOUS
<1>3. Orders(g, m, P)
  BY <1>1, <1>2, InOrderOrders
<1>4. \A a \in 1..m : Cardinality(NotAbove(P, g[a])) = a
  BY <1>3, OrdersCount
<1>5. ASSUME NEW a \in 1..m PROVE g[a] = f[a]
  <2>1. g[a] \in P
    BY <1>3 DEF Orders
  <2>2. PICK b \in 1..m : f[b] = g[a]
    BY <2>1 DEF Orders
  <2>3. a = b
    BY <1>1, <1>4, <2>2
  <2> QED BY <2>2, <2>3
<1>6. f \in [1..m -> P] /\ g \in [1..m -> P]
  BY <1>3 DEF Orders
<1>7. f = [a \in 1..m |-> f[a]] /\ g = [a \in 1..m |-> g[a]]
  BY <1>6
<1>8. f = g
  BY <1>5, <1>7
<1> QED BY <1>2, <1>8

\* What is selected, given the order of the places.
LEMMA SelectedAre ==
  ASSUME NEW P \in SUBSET Nat, NEW m, NEW f, Orders(f, m, P), NEW seq
  PROVE  Selected(seq, P) = [a \in 1..m |-> seq[f[a]]]
<1>1. InOrder(P) = f
  BY OnlyInOrder
<1>2. DOMAIN f = 1..m
  BY DEF Orders
<1> QED BY <1>1, <1>2 DEF Selected

-----------------------------------------------------------------------------
(* Rows: what a caller sees of the records, as an inbox                      *)

RowOf(rec) == <<rec[2], rec[1]>>
RowSet == Values \X Values

\* The m rows of v are its records at the places that f names.
RowsFrom(v, onlyNew, m, f) ==
  /\ Orders(f, m, Listed(v, onlyNew)) /\ m <= Len(v)
  /\ Rows(v, onlyNew) = [a \in 1..m |-> RowOf(v[f[a]])]
  /\ Rows(v, onlyNew) \in Seq(RowSet) /\ Len(Rows(v, onlyNew)) = m

LEMMA ListedIs ==
  ASSUME NEW S, NEW v \in Seq(S), NEW onlyNew
  PROVE  /\ Listed(v, onlyNew) \in SUBSET Nat /\ Listed(v, onlyNew) \subseteq 1..Len(v)
         /\ IsFiniteSet(Listed(v, onlyNew)) /\ Cardinality(Listed(v, onlyNew)) <= Len(v)
<1>1. IsFiniteSet(1..Len(v)) /\ Cardinality(1..Len(v)) = Len(v)
  <2>1. Len(v) \in Nat /\ 1 \in Int /\ Len(v) \in Int
    OBVIOUS
  <2> QED BY SMTT(30), <2>1, FS_Interval
<1>2. Listed(v, onlyNew) \subseteq 1..Len(v)
  BY DEF Listed
<1>3. Listed(v, onlyNew) \in SUBSET Nat
  BY <1>2
<1> QED BY <1>1, <1>2, <1>3, FS_Subset

LEMMA RowsAre ==
  ASSUME NEW v \in Seq(Recs), NEW onlyNew \in BOOLEAN, NEW m, NEW f,
         Orders(f, m, Listed(v, onlyNew))
  PROVE  RowsFrom(v, onlyNew, m, f)
<1>1. /\ m \in Nat /\ m <= Len(v) /\ f \in [1..m -> Listed(v, onlyNew)]
      /\ Listed(v, onlyNew) \subseteq 1..Len(v)
  <2>1. Cardinality(Listed(v, onlyNew)) = m
    BY ListedIs, OrdersCount
  <2> QED BY <2>1, ListedIs DEF Orders
<1>2. PICK listed : listed = Selected(v, Listed(v, onlyNew))
  OBVIOUS
<1>3. listed = [a \in 1..m |-> v[f[a]]]
  BY <1>2, ListedIs, SelectedAre
<1>4. Rows(v, onlyNew) = [a \in 1..m |-> RowOf(v[f[a]])]
  <2>1. Rows(v, onlyNew) = [a \in DOMAIN listed |-> <<listed[a][2], listed[a][1]>>]
    BY <1>2 DEF Rows
  <2> QED BY <1>3, <2>1 DEF RowOf
<1>5. ASSUME NEW a \in 1..m PROVE RowOf(v[f[a]]) \in RowSet
  <2>1. f[a] \in 1..Len(v)
    BY <1>1
  <2>2. v[f[a]] \in Recs
    BY <2>1
  <2>3. 1 \in 1..RecLen /\ 2 \in 1..RecLen
    BY LayoutAssumption
  <2> QED BY <2>2, <2>3 DEF RowOf, RowSet, Recs
<1>6. Rows(v, onlyNew) \in Seq(RowSet) /\ Len(Rows(v, onlyNew)) = m
  BY <1>1, <1>4, <1>5
<1> QED BY <1>1, <1>4, <1>6 DEF RowsFrom

LEMMA RowsOrder ==
  ASSUME NEW v \in Seq(Recs), NEW onlyNew \in BOOLEAN
  PROVE  \E m, f : RowsFrom(v, onlyNew, m, f)
<1>1. Orders(InOrder(Listed(v, onlyNew)), Cardinality(Listed(v, onlyNew)), Listed(v, onlyNew))
  BY ListedIs, InOrderOrders
<1> QED BY <1>1, RowsAre

\* A new record appended is a row appended.
LEMMA RowsAppended ==
  ASSUME NEW v \in Seq(Recs), NEW rec \in Recs, rec[1] = "N"
  PROVE  Rows(Append(v, rec), FALSE) = Append(Rows(v, FALSE), RowOf(rec))
<1>1. PICK m, f : RowsFrom(v, FALSE, m, f)
  BY RowsOrder
<1>2. PICK w, L, M : w = Append(v, rec) /\ L = Listed(v, FALSE) /\ M = Listed(w, FALSE)
  OBVIOUS
<1>3. /\ w \in Seq(Recs) /\ Len(w) = Len(v) + 1 /\ Len(v) \in Nat
      /\ \A i \in 1..Len(v) : w[i] = v[i]
      /\ w[Len(v) + 1] = rec
  BY <1>2, AppendProperties
<1>4. /\ m \in Nat /\ m <= Len(v) /\ f \in [1..m -> L]
      /\ \A a, b \in 1..m : a < b => f[a] < f[b]
      /\ \A i \in L : \E a \in 1..m : f[a] = i
      /\ Rows(v, FALSE) = [a \in 1..m |-> RowOf(v[f[a]])]
      /\ Rows(v, FALSE) \in Seq(RowSet) /\ Len(Rows(v, FALSE)) = m
  BY <1>1, <1>2 DEF RowsFrom, Orders
<1>5. PICK n : n = Len(v) + 1 /\ n \in Nat
  BY <1>3
<1>6. M = L \cup {n}
  <2>1. \A i \in 1..n : i \in 1..Len(v) \/ i = n
    BY <1>3, <1>5
  <2> QED BY <1>2, <1>3, <1>5, <2>1 DEF Listed
<1>7. \A i \in L : i \in 1..Len(v) /\ i < n
  BY <1>2, <1>3, <1>5 DEF Listed
<1>8. PICK g : g = [a \in 1..(m + 1) |-> IF a <= m THEN f[a] ELSE n]
  OBVIOUS
<1>9. Orders(g, m + 1, M)
  <2>1. g \in [1..(m + 1) -> M]
    BY <1>4, <1>6, <1>8
  <2>2. ASSUME NEW a \in 1..(m + 1), NEW b \in 1..(m + 1), a < b PROVE g[a] < g[b]
    <3>1. a \in 1..m /\ g[a] = f[a] /\ f[a] \in L
      BY <1>4, <1>8, <2>2
    <3>2. CASE b <= m
      BY <1>4, <1>8, <2>2, <3>1, <3>2
    <3>3. CASE ~(b <= m)
      BY <1>7, <1>8, <3>1, <3>3
    <3> QED BY <3>2, <3>3
  <2>3. ASSUME NEW i \in M PROVE \E a \in 1..(m + 1) : g[a] = i
    <3>1. CASE i = n
      <4>1. m + 1 \in 1..(m + 1) /\ g[m + 1] = n
        BY <1>4, <1>8
      <4> QED BY <3>1, <4>1
    <3>2. CASE i # n
      <4>1. PICK a \in 1..m : f[a] = i
        BY <1>4, <1>6, <3>2
      <4> QED BY <1>4, <1>8, <4>1
    <3> QED BY <3>1, <3>2
  <2> QED BY <1>4, <2>1, <2>2, <2>3 DEF Orders
<1>10. Rows(w, FALSE) = [a \in 1..(m + 1) |-> RowOf(w[g[a]])]
       /\ Rows(w, FALSE) \in Seq(RowSet) /\ Len(Rows(w, FALSE)) = m + 1
  <2>1. Orders(g, m + 1, Listed(w, FALSE)) /\ FALSE \in BOOLEAN
    BY <1>2, <1>9
  <2>2. RowsFrom(w, FALSE, m + 1, g)
    BY <1>3, <2>1, RowsAre
  <2> QED BY <2>2 DEF RowsFrom
<1>11. ASSUME NEW a \in 1..m PROVE Rows(w, FALSE)[a] = Rows(v, FALSE)[a]
  <2>1. a \in 1..(m + 1) /\ g[a] = f[a] /\ f[a] \in 1..Len(v)
    BY <1>4, <1>7, <1>8
  <2>2. RowOf(w[f[a]]) = RowOf(v[f[a]])
    BY <1>3, <2>1
  <2>3. Rows(w, FALSE)[a] = RowOf(w[g[a]])
    BY <1>10, <2>1
  <2>4. Rows(v, FALSE)[a] = RowOf(v[f[a]])
    BY <1>4
  <2> QED BY <2>1, <2>2, <2>3, <2>4
<1>12. Rows(w, FALSE)[m + 1] = RowOf(rec)
  <2>1. m + 1 \in 1..(m + 1) /\ g[m + 1] = n
    BY <1>4, <1>8
  <2> QED BY <1>3, <1>5, <1>10, <2>1
<1>13. PICK r, s : r = Rows(v, FALSE) /\ s = Rows(w, FALSE)
  OBVIOUS
<1>14. s = Append(r, RowOf(rec))
  <2>1. /\ r \in Seq(RowSet) /\ Len(r) = m /\ s \in Seq(RowSet) /\ Len(s) = m + 1
        /\ \A a \in 1..m : s[a] = r[a]
        /\ s[m + 1] = RowOf(rec) /\ m \in Nat
    BY <1>4, <1>10, <1>11, <1>12, <1>13
  <2>2. s[m + 1] \in RowSet
    BY <2>1
  <2> QED BY <2>1, <2>2
<1> QED BY <1>2, <1>13, <1>14

\* The rows s are the rows r with row k replaced, or without it.
RowReplaced(r, k, row, s) == s = [r EXCEPT ![k] = row]
RowRemoved(r, k, s) == s = SubSeq(r, 1, k - 1) \o SubSeq(r, k + 1, Len(r))

\* A new record marked read is a row marked read.
LEMMA RowsRead ==
  ASSUME NEW v \in Seq(Recs), NEW i \in 1..Len(v), NEW w, MarkedAt(v, i, "R", w),
         NEW m, NEW f, RowsFrom(v, FALSE, m, f), NEW k \in 1..m, f[k] = i
  PROVE  RowReplaced(Rows(v, FALSE), k, <<v[i][2], "R">>, Rows(w, FALSE))
<1>1. PICK L, M : L = Listed(v, FALSE) /\ M = Listed(w, FALSE)
  OBVIOUS
<1>2. /\ w \in Seq(Recs) /\ Len(w) = Len(v) /\ Len(v) \in Nat
      /\ \A a \in 1..Len(v) : a # i => w[a] = v[a]
      /\ w[i][1] = "R" /\ w[i][2] = v[i][2]
  <2>1. 2 \in 2..RecLen
    BY LayoutAssumption
  <2> QED BY <2>1 DEF MarkedAt
<1>3. /\ m \in Nat /\ m <= Len(v) /\ f \in [1..m -> L]
      /\ \A a, b \in 1..m : a < b => f[a] < f[b]
      /\ \A j \in L : \E a \in 1..m : f[a] = j
      /\ Rows(v, FALSE) = [a \in 1..m |-> RowOf(v[f[a]])]
      /\ Orders(f, m, L)
  BY <1>1 DEF RowsFrom, Orders
<1>4. L \in SUBSET Nat /\ L \subseteq 1..Len(v)
  BY <1>1, ListedIs
<1>5. M = L
  <2>1. i \in L
    BY <1>3
  <2>2. \A a \in 1..Len(v) : w[a][1] \in {"N", "R"} <=> v[a][1] \in {"N", "R"}
    BY <1>1, <1>2, <2>1 DEF Listed
  <2> QED BY <1>1, <1>2, <2>2 DEF Listed
<1>6. Rows(w, FALSE) = [a \in 1..m |-> RowOf(w[f[a]])]
  <2>1. Orders(f, m, Listed(w, FALSE)) /\ FALSE \in BOOLEAN
    BY <1>1, <1>3, <1>5
  <2>2. RowsFrom(w, FALSE, m, f)
    BY <1>2, <2>1, RowsAre
  <2> QED BY <2>2 DEF RowsFrom
<1>7. ASSUME NEW a \in 1..m
      PROVE  RowOf(w[f[a]]) = IF a = k THEN <<v[i][2], "R">> ELSE RowOf(v[f[a]])
  <2>1. CASE a = k
    BY <1>2, <2>1 DEF RowOf
  <2>2. CASE a # k
    <3>1. f[a] # i /\ f[a] \in 1..Len(v)
      <4>1. \A b, c \in 1..m : f[b] = f[c] => b = c
        BY <1>3, <1>4, OrdersCount
      <4> QED BY <1>3, <1>4, <2>2, <4>1
    <3> QED BY <1>2, <2>2, <3>1
  <2> QED BY <2>1, <2>2
<1>8. PICK r : r = Rows(v, FALSE)
  OBVIOUS
<1>9. [r EXCEPT ![k] = <<v[i][2], "R">>] =
        [a \in 1..m |-> IF a = k THEN <<v[i][2], "R">> ELSE RowOf(v[f[a]])]
  BY <1>3, <1>8
<1>10. Rows(w, FALSE) = [r EXCEPT ![k] = <<v[i][2], "R">>]
  BY <1>6, <1>7, <1>9
<1> QED BY <1>8, <1>10 DEF RowReplaced

\* A record marked deleted is a row removed.
LEMMA RowsWithout ==
  ASSUME NEW v \in Seq(Recs), NEW i \in 1..Len(v), NEW w, MarkedAt(v, i, "D", w),
         NEW m, NEW f, RowsFrom(v, FALSE, m, f), NEW k \in 1..m, f[k] = i
  PROVE  RowRemoved(Rows(v, FALSE), k, Rows(w, FALSE))
<1>1. PICK L, M : L = Listed(v, FALSE) /\ M = Listed(w, FALSE)
  OBVIOUS
<1>2. /\ w \in Seq(Recs) /\ Len(w) = Len(v) /\ Len(v) \in Nat
      /\ \A a \in 1..Len(v) : a # i => w[a] = v[a]
      /\ w[i][1] = "D"
  BY DEF MarkedAt
<1>3. /\ m \in Nat /\ m <= Len(v) /\ f \in [1..m -> L]
      /\ \A a, b \in 1..m : a < b => f[a] < f[b]
      /\ \A j \in L : \E a \in 1..m : f[a] = j
      /\ Rows(v, FALSE) = [a \in 1..m |-> RowOf(v[f[a]])]
      /\ Rows(v, FALSE) \in Seq(RowSet) /\ Len(Rows(v, FALSE)) = m
      /\ Orders(f, m, L)
  BY <1>1 DEF RowsFrom, Orders
<1>4. L \in SUBSET Nat /\ L \subseteq 1..Len(v)
  BY <1>1, ListedIs
<1>5. M = L \ {i}
  BY <1>1, <1>2 DEF Listed
<1>6. \A b, c \in 1..m : f[b] = f[c] => b = c
  <2>1. Orders(f, m, L) /\ L \in SUBSET Nat
    BY <1>3, <1>4
  <2> QED BY <2>1, OrdersCount
<1>7. PICK n \in Nat : m = n + 1
  <2>1. m - 1 \in Nat /\ m = (m - 1) + 1
    BY <1>3
  <2> QED BY <2>1
<1>8. PICK g : g = [a \in 1..n |-> f[IF a < k THEN a ELSE a + 1]]
  OBVIOUS
<1>9. ASSUME NEW a \in 1..n
      PROVE  /\ (IF a < k THEN a ELSE a + 1) \in 1..m /\ (IF a < k THEN a ELSE a + 1) # k
             /\ g[a] = f[IF a < k THEN a ELSE a + 1]
             /\ g[a] \in M
  <2>1. /\ (IF a < k THEN a ELSE a + 1) \in 1..m /\ (IF a < k THEN a ELSE a + 1) # k
        /\ g[a] = f[IF a < k THEN a ELSE a + 1]
    BY <1>7, <1>8
  <2>2. PICK b \in 1..m : b = (IF a < k THEN a ELSE a + 1)
    BY <2>1
  <2>3. f[b] \in L /\ f[b] # i
    BY <1>3, <1>6, <2>1, <2>2
  <2> QED BY <1>5, <2>1, <2>2, <2>3
<1>10. Orders(g, n, M)
  <2>1. g \in [1..n -> M]
    BY <1>8, <1>9
  <2>2. ASSUME NEW a \in 1..n, NEW b \in 1..n, a < b PROVE g[a] < g[b]
    <3>1. PICK c \in 1..m, d \in 1..m :
            c = (IF a < k THEN a ELSE a + 1) /\ d = (IF b < k THEN b ELSE b + 1)
      BY <1>9
    <3>2. c < d
      BY <2>2, <3>1
    <3>3. g[a] = f[c] /\ g[b] = f[d]
      BY <1>9, <3>1
    <3> QED BY <1>3, <3>2, <3>3
  <2>3. ASSUME NEW j \in M PROVE \E a \in 1..n : g[a] = j
    <3>1. PICK c \in 1..m : f[c] = j
      BY <1>3, <1>5
    <3>2. c # k
      BY <1>5, <3>1
    <3>3. PICK a : a = IF c < k THEN c ELSE c - 1
      OBVIOUS
    <3>4. a \in 1..n /\ (IF a < k THEN a ELSE a + 1) = c
      BY <1>7, <3>2, <3>3
    <3> QED BY <1>9, <3>1, <3>4
  <2> QED BY <2>1, <2>2, <2>3 DEF Orders
<1>11. Rows(w, FALSE) = [a \in 1..n |-> RowOf(w[g[a]])]
       /\ Rows(w, FALSE) \in Seq(RowSet) /\ Len(Rows(w, FALSE)) = n
  <2>1. Orders(g, n, Listed(w, FALSE)) /\ FALSE \in BOOLEAN
    BY <1>1, <1>10
  <2>2. RowsFrom(w, FALSE, n, g)
    BY <1>2, <2>1, RowsAre
  <2> QED BY <2>2 DEF RowsFrom
<1>12. PICK r, s : r = Rows(v, FALSE) /\ s = Rows(w, FALSE)
  OBVIOUS
<1>13. ASSUME NEW a \in 1..n PROVE s[a] = r[IF a < k THEN a ELSE a + 1]
  <2>1. PICK b \in 1..m : b = (IF a < k THEN a ELSE a + 1) /\ g[a] = f[b] /\ g[a] \in M
    BY <1>9
  <2>2. w[g[a]] = v[f[b]]
    <3>1. g[a] \in 1..Len(v) /\ g[a] # i
      BY <1>4, <1>5, <2>1
    <3>2. w[g[a]] = v[g[a]]
      BY <1>2, <3>1
    <3> QED BY <2>1, <3>2
  <2>3. s[a] = RowOf(w[g[a]])
    BY <1>11, <1>12
  <2>4. r[b] = RowOf(v[f[b]])
    BY <1>3, <1>12
  <2> QED BY <2>1, <2>2, <2>3, <2>4
<1>14. r \in Seq(RowSet) /\ Len(r) = n + 1 /\ s \in Seq(RowSet) /\ Len(s) = n /\ k \in 1..(n + 1)
  BY <1>3, <1>7, <1>11, <1>12
<1>15. s = SubSeq(r, 1, k - 1) \o SubSeq(r, k + 1, Len(r))
  <2>1. PICK x, y : x = SubSeq(r, 1, k - 1) /\ y = SubSeq(r, k + 1, n + 1)
    OBVIOUS
  <2>2. /\ x \in Seq(RowSet) /\ Len(x) = k - 1 /\ \A a \in 1..(k - 1) : x[a] = r[a]
        /\ y \in Seq(RowSet) /\ Len(y) = n + 1 - k
        /\ \A a \in 1..(n + 1 - k) : y[a] = r[k + a]
    <3>1. x \in Seq(RowSet) /\ Len(x) = k - 1 /\ \A a \in 1..(k - 1) : x[a] = r[a]
      <4>1. 1 \in 1..(Len(r) + 1) /\ k - 1 \in 0..Len(r)
        BY <1>14
      <4> QED BY <1>14, <2>1, <4>1, SubSeqProperties
    <3>2. /\ y \in Seq(RowSet) /\ Len(y) = n + 1 - k
          /\ \A a \in 1..(n + 1 - k) : y[a] = r[k + a]
      <4>1. k + 1 \in 1..(Len(r) + 1) /\ n + 1 \in k..Len(r) /\ k + 1 \in Nat
        BY <1>14
      <4> QED BY <1>14, <2>1, <4>1, SubSeqProperties
    <3> QED BY <3>1, <3>2
  <2>3. x \o y \in Seq(RowSet) /\ Len(x \o y) = n
    <3>1. x \o y \in Seq(RowSet) /\ Len(x \o y) = Len(x) + Len(y)
      BY <2>2, ConcatProperties
    <3>2. Len(x) + Len(y) = n
      BY <1>14, <2>2
    <3> QED BY <3>1, <3>2
  <2>4. ASSUME NEW a \in 1..n PROVE (x \o y)[a] = s[a]
    <3>1. CASE a < k
      BY <1>13, <1>14, <2>2, <3>1
    <3>2. CASE ~(a < k)
      <4>1. PICK b : b = a - (k - 1)
        OBVIOUS
      <4>2. b \in 1..(n + 1 - k) /\ a = Len(x) + b /\ k + b = a + 1
        BY <1>14, <2>2, <3>2, <4>1
      <4>3. (x \o y)[a] = y[b]
        <5>1. b \in 1..Len(y) /\ Len(x) \in Nat
          BY <1>14, <2>2, <4>2
        <5>2. (x \o y)[Len(x) + b] = y[b]
          BY <2>2, <5>1, ConcatProperties
        <5> QED BY <4>2, <5>2
      <4> QED BY <1>13, <2>2, <3>2, <4>2, <4>3
    <3> QED BY <3>1, <3>2
  <2>5. s = x \o y
    BY <1>14, <2>3, <2>4, SeqEqual
  <2> QED BY <1>14, <2>1, <2>5
<1> QED BY <1>12, <1>15 DEF RowRemoved

Statuses(v) == \A i \in 1..Len(v) : v[i][1] \in {"N", "R", "D"}

\* Compression changes no row.
LEMMA RowsKept ==
  ASSUME NEW v \in Seq(Recs), Statuses(v)
  PROVE  /\ Rows(Kept(v), FALSE) = Rows(v, FALSE)
         /\ \A j \in 1..Len(Kept(v)) : \E i \in 1..Len(v) : Kept(v)[j] = v[i] /\ v[i][1] # "D"
<1>1. PICK L : L = Listed(v, FALSE)
  OBVIOUS
<1>2. L = {i \in 1..Len(v) : v[i][1] # "D"}
  BY <1>1 DEF Listed, Statuses
<1>3. PICK m, f : RowsFrom(v, FALSE, m, f)
  BY RowsOrder
<1>4. /\ m \in Nat /\ f \in [1..m -> L]
      /\ Rows(v, FALSE) = [a \in 1..m |-> RowOf(v[f[a]])]
      /\ Orders(f, m, L)
  BY <1>1, <1>3 DEF RowsFrom, Orders
<1>5. L \in SUBSET Nat /\ L \subseteq 1..Len(v)
  BY <1>1, ListedIs
<1>6. PICK u : u = Kept(v)
  OBVIOUS
<1>7. u = [a \in 1..m |-> v[f[a]]]
  <2>1. u = Selected(v, L)
    BY <1>2, <1>6 DEF Kept
  <2> QED BY <1>4, <1>5, <2>1, SelectedAre
<1>8. u \in Seq(Recs) /\ Len(u) = m
  <2>1. \A a \in 1..m : f[a] \in 1..Len(v)
    BY <1>4, <1>5
  <2>2. \A a \in 1..m : v[f[a]] \in Recs
    BY <2>1
  <2> QED BY <1>4, <1>7, <2>2
<1>9. \A a \in 1..m : f[a] \in 1..Len(v) /\ u[a] = v[f[a]] /\ v[f[a]][1] \in {"N", "R"}
  BY <1>1, <1>4, <1>7 DEF Listed
<1>10. Listed(u, FALSE) = 1..m
  BY <1>8, <1>9 DEF Listed
<1>11. PICK g : g = [a \in 1..m |-> a]
  OBVIOUS
<1>12. Orders(g, m, Listed(u, FALSE))
  <2>1. Orders(g, m, 1..m)
    BY <1>4, <1>11 DEF Orders
  <2> QED BY <1>10, <2>1
<1>13. Rows(u, FALSE) = [a \in 1..m |-> RowOf(u[g[a]])]
  <2>1. RowsFrom(u, FALSE, m, g)
    BY <1>8, <1>12, RowsAre
  <2> QED BY <2>1 DEF RowsFrom
<1>14. \A a \in 1..m : RowOf(u[g[a]]) = RowOf(v[f[a]])
  BY <1>9, <1>11
<1>15. Rows(u, FALSE) = Rows(v, FALSE)
  BY <1>4, <1>13, <1>14
<1>16. \A j \in 1..Len(u) : \E i \in 1..Len(v) : u[j] = v[i] /\ v[i][1] # "D"
  BY <1>8, <1>9
<1> QED BY <1>6, <1>15, <1>16

\* The new rows are those that a caller who asks for new messages is shown.
NewRows(rows) == {a \in 1..Len(rows) : rows[a][2] = "N"}

LEMMA RowsNew ==
  ASSUME NEW v \in Seq(Recs)
  PROVE  /\ Rows(v, TRUE) = Selected(Rows(v, FALSE), NewRows(Rows(v, FALSE)))
         /\ Cardinality(NewRows(Rows(v, FALSE))) = Cardinality(PlacesOf(v, "N"))
         /\ Cardinality(PlacesOf(v, "N")) = 0 => Rows(v, TRUE) = <<>>
<1>1. PICK L, N, r : L = Listed(v, FALSE) /\ N = Listed(v, TRUE) /\ r = Rows(v, FALSE)
  OBVIOUS
<1>2. PICK m, f : RowsFrom(v, FALSE, m, f)
  BY RowsOrder
<1>3. /\ m \in Nat /\ f \in [1..m -> L]
      /\ \A a, b \in 1..m : a < b => f[a] < f[b]
      /\ \A j \in L : \E a \in 1..m : f[a] = j
      /\ r = [a \in 1..m |-> RowOf(v[f[a]])] /\ Len(r) = m
  BY <1>1, <1>2 DEF RowsFrom, Orders
<1>4. L \in SUBSET Nat /\ N \in SUBSET Nat /\ N \subseteq L /\ L \subseteq 1..Len(v)
  <2>1. L \in SUBSET Nat /\ N \in SUBSET Nat /\ L \subseteq 1..Len(v)
    BY <1>1, ListedIs
  <2> QED BY <1>1, <2>1 DEF Listed
<1>5. N = PlacesOf(v, "N")
  BY <1>1 DEF Listed, PlacesOf
<1>6. PICK Q : Q = NewRows(r)
  OBVIOUS
<1>7. /\ Q \in SUBSET Nat /\ IsFiniteSet(Q) /\ Q \subseteq 1..m
      /\ \A a \in 1..m : a \in Q <=> f[a] \in N
  <2>1. Q \subseteq 1..m
    BY <1>3, <1>6 DEF NewRows
  <2>2. IsFiniteSet(1..m)
    <3>1. m \in Int /\ 1 \in Int
      BY <1>3
    <3> QED BY <3>1, FS_Interval
  <2>3. IsFiniteSet(Q)
    BY <2>1, <2>2, FS_Subset
  <2>4. ASSUME NEW a \in 1..m PROVE a \in Q <=> f[a] \in N
    <3>1. r[a][2] = v[f[a]][1] /\ f[a] \in 1..Len(v)
      BY <1>3, <1>4 DEF RowOf
    <3>2. a \in Q <=> r[a][2] = "N"
      BY <1>3, <1>6 DEF NewRows
    <3> QED BY <1>5, <3>1, <3>2 DEF PlacesOf
  <2> QED BY <2>1, <2>3, <2>4
<1>8. PICK g, k : g = InOrder(Q) /\ k = Cardinality(Q) /\ Orders(g, k, Q)
  BY <1>7, InOrderOrders
<1>9. /\ k \in Nat /\ g \in [1..k -> Q]
      /\ \A a, b \in 1..k : a < b => g[a] < g[b]
      /\ \A j \in Q : \E a \in 1..k : g[a] = j
  BY <1>8 DEF Orders
<1>10. PICK h : h = [a \in 1..k |-> f[g[a]]]
  OBVIOUS
<1>11. Orders(h, k, N)
  <2>1. h \in [1..k -> N]
    BY <1>7, <1>9, <1>10
  <2>2. ASSUME NEW a \in 1..k, NEW b \in 1..k, a < b PROVE h[a] < h[b]
    <3>1. g[a] \in 1..m /\ g[b] \in 1..m /\ g[a] < g[b]
      BY <1>7, <1>9, <2>2
    <3> QED BY <1>3, <1>10, <3>1
  <2>3. ASSUME NEW j \in N PROVE \E a \in 1..k : h[a] = j
    <3>1. PICK b \in 1..m : f[b] = j
      BY <1>3, <1>4
    <3>2. PICK a \in 1..k : g[a] = b
      BY <1>7, <1>9, <3>1
    <3> QED BY <1>10, <3>1, <3>2
  <2> QED BY <1>9, <2>1, <2>2, <2>3 DEF Orders
<1>12. Cardinality(Q) = Cardinality(PlacesOf(v, "N"))
  BY <1>4, <1>5, <1>8, <1>11, OrdersCount
<1>13. Rows(v, TRUE) = [a \in 1..k |-> RowOf(v[h[a]])]
  <2>1. Orders(h, k, Listed(v, TRUE)) /\ TRUE \in BOOLEAN
    BY <1>1, <1>11
  <2>2. RowsFrom(v, TRUE, k, h)
    BY <2>1, RowsAre
  <2> QED BY <2>2 DEF RowsFrom
<1>14. Selected(r, Q) = [a \in 1..k |-> r[g[a]]]
  BY <1>7, <1>8, SelectedAre
<1>15. ASSUME NEW a \in 1..k PROVE RowOf(v[h[a]]) = r[g[a]]
  <2>1. g[a] \in 1..m
    BY <1>7, <1>9
  <2> QED BY <1>3, <1>10, <2>1
<1>16. Rows(v, TRUE) = Selected(r, Q)
  BY <1>13, <1>14, <1>15
<1>17. Cardinality(PlacesOf(v, "N")) = 0 => Rows(v, TRUE) = <<>>
  <2>1. CASE k = 0
    <3>1. Rows(v, TRUE) = [a \in 1..0 |-> RowOf(v[h[a]])]
      BY <1>13, <2>1
    <3>2. [a \in 1..0 |-> RowOf(v[h[a]])] = <<>>
      OBVIOUS
    <3> QED BY <3>1, <3>2
  <2> QED BY <1>8, <1>12, <2>1
<1> QED BY <1>1, <1>6, <1>12, <1>16, <1>17

-----------------------------------------------------------------------------
(* The index is an inbox, as long as its records are somewhere               *)

\* Each record is of one message, and a message not deleted has its text.
WellFormed(v, texts) ==
  /\ \A i \in 1..Len(v) : v[i][1] \in {"N", "R", "D"} /\ HasId(v[i], v[i][2])
  /\ \A i \in 1..Len(v) : v[i][2] \in Ids /\ (v[i][1] # "D" => v[i][2] \in texts)
  /\ \A i, j \in 1..Len(v) : v[i][2] = v[j][2] => i = j

\* The text of a deleted message may be there still.
HeldTexts == store.texts \ deleted

\* No message read was deleted before.
ReadIsHeld == ret[1] = "read" => (ret[3] # "error" => ret[2] \notin deleted)

InboxInv == MsgInv /\ WellFormed(View, HeldTexts) /\ ReadIsHeld

LEMMA IdIs ==
  ASSUME NEW rec, NEW id, HasId(rec, id)
  PROVE  rec[2] = id
<1>1. 2 \in 2..RecLen
  BY LayoutAssumption
<1> QED BY <1>1 DEF HasId

LEMMA WellFormedGrows ==
  ASSUME NEW v, NEW texts, WellFormed(v, texts), NEW more, texts \subseteq more
  PROVE  WellFormed(v, more)
  BY DEF WellFormed

\* The search finds the row of the message, or there is none.
RowAt(v, m, f, i, row) == \E k \in 1..m : f[k] = i /\ Rows(v, FALSE)[k] = row

LEMMA RowFound ==
  ASSUME NEW v \in Seq(Recs), NEW texts, WellFormed(v, texts), NEW id \in Ids,
         NEW m, NEW f, RowsFrom(v, FALSE, m, f),
         NEW i \in 1..Len(v), HasId(v[i], id), v[i][1] # "D"
  PROVE  RowAt(v, m, f, i, <<id, v[i][1]>>)
<1>1. PICK L, r : L = Listed(v, FALSE) /\ r = Rows(v, FALSE)
  OBVIOUS
<1>2. i \in L /\ v[i][2] = id
  BY <1>1, IdIs DEF Listed, WellFormed
<1>3. /\ \A j \in L : \E a \in 1..m : f[a] = j
      /\ r = [a \in 1..m |-> RowOf(v[f[a]])]
  BY <1>1 DEF RowsFrom, Orders
<1>4. PICK k \in 1..m : f[k] = i
  BY <1>2, <1>3
<1>5. r[k] = <<id, v[i][1]>>
  BY <1>2, <1>3, <1>4 DEF RowOf
<1> QED BY <1>1, <1>4, <1>5 DEF RowAt

LEMMA NoRow ==
  ASSUME NEW v \in Seq(Recs), NEW texts, WellFormed(v, texts), NEW id \in Ids,
         \A i \in 1..Len(v) : HasId(v[i], id) => v[i][1] = "D"
  PROVE  \A k \in 1..Len(Rows(v, FALSE)) : Rows(v, FALSE)[k][1] # id
<1>1. PICK m, f : RowsFrom(v, FALSE, m, f)
  BY RowsOrder
<1>2. PICK L, r : L = Listed(v, FALSE) /\ r = Rows(v, FALSE)
  OBVIOUS
<1>3. /\ f \in [1..m -> L] /\ r = [a \in 1..m |-> RowOf(v[f[a]])] /\ Len(r) = m
      /\ L \subseteq 1..Len(v)
  BY <1>1, <1>2, ListedIs DEF RowsFrom, Orders
<1>4. ASSUME NEW k \in 1..m PROVE r[k][1] # id
  <2>1. PICK i \in 1..Len(v) : i = f[k] /\ i \in L
    BY <1>3
  <2>2. r[k][1] = v[i][2] /\ v[i][1] # "D" /\ HasId(v[i], v[i][2])
    <3>1. r[k] = RowOf(v[i])
      BY <1>3, <2>1
    <3>2. v[i][1] \in {"N", "R"}
      BY <1>2, <2>1 DEF Listed
    <3> QED BY <3>1, <3>2 DEF RowOf, WellFormed
  <2> QED BY <2>2
<1> QED BY <1>2, <1>3, <1>4

\* Where the search of a call ends without a message to work on, no row has the id.
LEMMA NotInInbox ==
  ASSUME NEW v \in Seq(Recs), NEW texts, WellFormed(v, texts), NEW id \in Ids,
         NEW i, i = IndexOf(v, id), i = 0 \/ v[i][1] = "D"
  PROVE  \A k \in 1..Len(Rows(v, FALSE)) : Rows(v, FALSE)[k][1] # id
<1>1. ASSUME NEW j \in 1..Len(v), HasId(v[j], id) PROVE v[j][1] = "D"
  <2>1. i \in 1..Len(v) /\ HasId(v[i], id) /\ v[i][1] = "D"
    BY <1>1, IndexIsFound
  <2>2. v[i][2] = id /\ v[j][2] = id
    BY <1>1, <2>1, IdIs
  <2>3. i = j
    BY <2>1, <2>2 DEF WellFormed
  <2> QED BY <2>1, <2>3
<1> QED BY <1>1, NoRow

\* A mark changed leaves the records well-formed.
LEMMA MarkedWellFormed ==
  ASSUME NEW v \in Seq(Recs), NEW texts, WellFormed(v, texts), NEW i \in 1..Len(v),
         NEW status \in {"R", "D"}, v[i][1] # "D", NEW w, MarkedAt(v, i, status, w), NEW kept,
         kept = IF status = "D" THEN texts \ {v[i][2]} ELSE texts
  PROVE  WellFormed(w, kept)
<1>1. /\ Len(w) = Len(v) /\ \A j \in 1..Len(v) : j # i => w[j] = v[j]
      /\ w[i][1] = status /\ \A k \in 2..RecLen : w[i][k] = v[i][k]
  BY DEF MarkedAt
<1>2. 2 \in 2..RecLen
  BY LayoutAssumption
<1>3. ASSUME NEW j \in 1..Len(v)
      PROVE  w[j][2] = v[j][2] /\ (\A k \in 2..RecLen : w[j][k] = v[j][k])
  BY <1>1, <1>2
<1>4. ASSUME NEW j \in 1..Len(v)
      PROVE  w[j][1] \in {"N", "R", "D"} /\ HasId(w[j], w[j][2])
  <2>1. HasId(v[j], v[j][2]) /\ v[j][1] \in {"N", "R", "D"}
    BY DEF WellFormed
  <2>2. HasId(w[j], w[j][2])
    BY <1>3, <2>1 DEF HasId
  <2> QED BY <1>1, <2>1, <2>2
<1>5. ASSUME NEW j \in 1..Len(v)
      PROVE  w[j][2] \in Ids /\ (w[j][1] # "D" => w[j][2] \in kept)
  <2>1. v[j][2] \in Ids /\ (v[j][1] # "D" => v[j][2] \in texts) /\ w[j][2] = v[j][2]
    BY <1>3 DEF WellFormed
  <2>2. j # i => v[j][2] # v[i][2]
    BY DEF WellFormed
  <2> QED BY <1>1, <2>1, <2>2
<1>6. ASSUME NEW j \in 1..Len(v), NEW k \in 1..Len(v), w[j][2] = w[k][2] PROVE j = k
  <2>1. v[j][2] = v[k][2]
    BY <1>3, <1>6
  <2> QED BY <2>1 DEF WellFormed
<1> QED BY <1>1, <1>4, <1>5, <1>6 DEF WellFormed

LEMMA KeptWellFormed ==
  ASSUME NEW v \in Seq(Recs), NEW texts, WellFormed(v, texts)
  PROVE  WellFormed(Kept(v), texts)
<1>1. PICK n, f : KeptAs(Recs, v, n, f)
  BY KeptFrom
<1>2. PICK u : u = Kept(v)
  OBVIOUS
<1>3. /\ n \in Nat /\ f \in [1..n -> 1..Len(v)] /\ u = [a \in 1..n |-> v[f[a]]]
      /\ \A a, b \in 1..n : f[a] = f[b] => a = b
  BY <1>1, <1>2 DEF KeptAs
<1>4. u \in Seq(Recs)
  BY <1>1, <1>2 DEF KeptAs
<1>5. Len(u) = n
  BY <1>3, <1>4
<1>6. ASSUME NEW j \in 1..n
      PROVE  /\ u[j][1] \in {"N", "R", "D"} /\ HasId(u[j], u[j][2])
             /\ u[j][2] \in Ids /\ (u[j][1] # "D" => u[j][2] \in texts)
             /\ u[j] = v[f[j]] /\ f[j] \in 1..Len(v)
  <2>1. u[j] = v[f[j]] /\ f[j] \in 1..Len(v)
    BY <1>3
  <2> QED BY <2>1 DEF WellFormed
<1>7. ASSUME NEW j \in 1..n, NEW k \in 1..n, u[j][2] = u[k][2] PROVE j = k
  <2>1. f[j] = f[k]
    BY <1>6, <1>7 DEF WellFormed
  <2> QED BY <1>3, <2>1
<1>8. WellFormed(u, texts)
  BY <1>5, <1>6, <1>7 DEF WellFormed
<1> QED BY <1>2, <1>8

LEMMA AddedWellFormed ==
  ASSUME NEW v \in Seq(Recs), NEW texts, WellFormed(v, texts), NEW given, IdsGiven(v, given),
         NEW id \in Ids, id \notin given, NEW rec, rec = Record(id, "N")
  PROVE  /\ WellFormed(Append(v, rec), texts \cup {id})
         /\ RowOf(rec) = <<id, "N">> /\ rec \in Recs /\ rec[1] = "N"
<1>1. rec \in Recs /\ rec[1] = "N" /\ \A k \in 2..RecLen : rec[k] = id
  BY RecordIs
<1>2. HasId(rec, id) /\ rec[2] = id
  BY <1>1, IdIs DEF HasId
<1>3. PICK w : w = Append(v, rec)
  OBVIOUS
<1>4. /\ Len(w) = Len(v) + 1 /\ Len(v) \in Nat
      /\ \A i \in 1..Len(v) : w[i] = v[i]
      /\ w[Len(v) + 1] = rec
  BY <1>1, <1>3, AppendProperties
<1>5. \A j \in 1..Len(w) : (j \in 1..Len(v) /\ w[j] = v[j]) \/ (j = Len(v) + 1 /\ w[j] = rec)
  BY <1>4
<1>6. \A i \in 1..Len(v) : v[i][2] # id
  <2>1. ASSUME NEW i \in 1..Len(v) PROVE v[i][2] # id
    <3>1. HasId(v[i], v[i][2]) /\ v[i][2] \in Ids
      BY DEF WellFormed
    <3> QED BY <3>1 DEF IdsGiven
  <2> QED BY <2>1
<1>7. ASSUME NEW j \in 1..Len(w)
      PROVE  /\ w[j][1] \in {"N", "R", "D"} /\ HasId(w[j], w[j][2])
             /\ w[j][2] \in Ids /\ (w[j][1] # "D" => w[j][2] \in texts \cup {id})
  <2>1. CASE j \in 1..Len(v) /\ w[j] = v[j]
    BY <2>1 DEF WellFormed
  <2>2. CASE j = Len(v) + 1 /\ w[j] = rec
    BY <1>1, <1>2, <2>2
  <2> QED BY <1>5, <2>1, <2>2
<1>8. ASSUME NEW j \in 1..Len(w), NEW k \in 1..Len(w), w[j][2] = w[k][2] PROVE j = k
  <2>1. CASE j \in 1..Len(v) /\ k \in 1..Len(v)
    BY <1>4, <1>8, <2>1 DEF WellFormed
  <2>2. CASE ~(j \in 1..Len(v) /\ k \in 1..Len(v))
    BY <1>2, <1>5, <1>6, <1>8, <2>2
  <2> QED BY <2>1, <2>2
<1>9. WellFormed(w, texts \cup {id})
  BY <1>7, <1>8 DEF WellFormed
<1> QED BY <1>1, <1>2, <1>3, <1>9 DEF RowOf

\* What the two calls of an action on a message find in View.
LEMMA InboxHas ==
  ASSUME InboxInv
  PROVE  /\ View \in Seq(Recs) /\ WellFormed(View, HeldTexts) /\ Statuses(View)
         /\ Len(View) = store.hdr.total /\ Len(View) <= MaxCount
         /\ store.hdr.new = Cardinality(PlacesOf(View, "N"))
         /\ IdsGiven(View, used)
  BY DEF InboxInv, MsgInv, Counts, WellFormed, Statuses

LEMMA InboxRead ==
  ASSUME InboxInv, NEW id \in Ids, ReadLeaves(id, IndexOf(View, id))
  PROVE  WellFormed(View', HeldTexts') /\ Inbox!Read(id) /\ ReadIsHeld'
<1>1. PICK v, i : v = View /\ i = IndexOf(v, id)
  OBVIOUS
<1>2. PICK r : r = Rows(View, FALSE)
  OBVIOUS
<1>3. v \in Seq(Recs) /\ WellFormed(v, HeldTexts)
  BY <1>1, InboxHas
<1>4. PICK m, f : RowsFrom(v, FALSE, m, f)
  BY <1>3, RowsOrder
<1>5. Len(r) = m
  BY <1>1, <1>2, <1>4 DEF RowsFrom
<1>0. HeldTexts' = HeldTexts /\ deleted' = deleted
  BY DEF ReadLeaves, HeldTexts
<1>9. i # 0 => i \in 1..Len(v) /\ HasId(v[i], id) /\ v[i][2] = id
  BY <1>1, <1>3, IndexIsFound, IdIs
<1>6. CASE (i = 0 \/ v[i][1] = "D" \/ id \notin store.texts) /\ View' = View
           /\ ret' = <<"read", id, "error">> /\ trust' = trust
  <2>1. i = 0 \/ v[i][1] = "D"
    <3> SUFFICES ASSUME i # 0, v[i][1] # "D" PROVE FALSE
      OBVIOUS
    <3>1. id \in HeldTexts
      BY <1>3, <1>9 DEF WellFormed
    <3> QED BY <1>6, <3>1 DEF HeldTexts
  <2>2. \A k \in 1..Len(r) : r[k][1] # id
    BY <1>1, <1>2, <1>3, <2>1, NotInInbox
  <2>3. Inbox!Place(id) = {}
    BY <1>2, <2>2 DEF Inbox!Place
  <2>4. Rows(View, FALSE)' = Rows(View, FALSE)
    BY <1>6
  <2>5. Inbox!Read(id)
    BY <1>6, <2>3, <2>4 DEF Inbox!Read, Inbox!Written
  <2>6. ReadIsHeld'
    <3>1. ret'[3] = "error"
      BY <1>6
    <3> QED BY <3>1 DEF ReadIsHeld
  <2> QED BY <1>0, <1>1, <1>3, <1>6, <2>5, <2>6
<1>7. CASE i # 0 /\ v[i][1] # "D" /\ v[i][1] \in {"N", "R"}
           /\ ret' = <<"read", id, v[i][1]>>
           /\ (v[i][1] = "N" => MarkedAt(v, i, "R", View') /\ trust' = "buffer")
           /\ (v[i][1] = "R" => View' = View /\ trust' = trust)
  <2>1. i \in 1..Len(v) /\ HasId(v[i], id) /\ v[i][2] = id
    BY <1>7, <1>9
  <2>2. PICK k \in 1..m : f[k] = i /\ r[k] = <<id, v[i][1]>>
    <3>1. RowAt(v, m, f, i, <<id, v[i][1]>>)
      BY <1>3, <1>4, <1>7, <2>1, RowFound
    <3> QED BY <1>1, <1>2, <3>1 DEF RowAt
  <2>3. k \in Inbox!Place(id)
    <3>1. Inbox!Place(id) = {a \in 1..Len(r) : r[a][1] = id}
      BY <1>2 DEF Inbox!Place
    <3>2. k \in 1..Len(r) /\ r[k][1] = id
      BY <1>5, <2>2
    <3> QED BY <3>1, <3>2
  <2>4. Rows(View, FALSE)' = [r EXCEPT ![k] = <<id, "R">>]
    <3>1. CASE v[i][1] = "N"
      <4>1. PICK w : w = View' /\ MarkedAt(v, i, "R", w)
        BY <1>7, <3>1
      <4>2. RowReplaced(Rows(v, FALSE), k, <<v[i][2], "R">>, Rows(w, FALSE))
        BY <1>3, <1>4, <2>1, <2>2, <4>1, RowsRead
      <4>3. RowReplaced(r, k, <<id, "R">>, Rows(w, FALSE))
        BY <1>1, <1>2, <2>1, <4>2
      <4> QED BY <4>1, <4>3 DEF RowReplaced
    <3>2. CASE v[i][1] = "R"
      <4>1. Rows(View, FALSE)' = r
        BY <1>2, <1>7, <3>2
      <4>2. r = [a \in 1..m |-> RowOf(v[f[a]])]
        BY <1>1, <1>2, <1>4 DEF RowsFrom
      <4>3. [r EXCEPT ![k] = <<id, "R">>] = r
        BY <2>2, <3>2, <4>2
      <4> QED BY <4>1, <4>3
    <3> QED BY <1>7, <3>1, <3>2
  <2>5. Inbox!Read(id)
    <3>1. ret' = <<"read", id, r[k][2]>>
      BY <1>7, <2>2
    <3>2. IF r[k][2] = "N" THEN Inbox!FileBehind ELSE Inbox!Written
      BY <1>7, <2>2 DEF Inbox!FileBehind, Inbox!Written
    <3> QED BY <1>2, <2>3, <2>4, <3>1, <3>2 DEF Inbox!Read
  <2>6. WellFormed(View', HeldTexts')
    <3>1. CASE v[i][1] = "N"
      <4>1. PICK w : w = View' /\ MarkedAt(v, i, "R", w)
        BY <1>7, <3>1
      <4>2. WellFormed(w, HeldTexts)
        BY <1>3, <2>1, <3>1, <4>1, MarkedWellFormed
      <4> QED BY <1>0, <4>1, <4>2
    <3>2. CASE v[i][1] = "R"
      BY <1>0, <1>1, <1>3, <1>7, <3>2
    <3> QED BY <1>7, <3>1, <3>2
  <2>7. ReadIsHeld'
    <3>1. ret'[2] = id /\ id \in HeldTexts
      BY <1>3, <1>7, <2>1 DEF WellFormed
    <3> QED BY <1>0, <3>1 DEF ReadIsHeld, HeldTexts
  <2> QED BY <2>5, <2>6, <2>7
<1>8. i # 0 => v[i][1] \in {"N", "R", "D"}
  BY <1>1, <1>3, IndexIsFound DEF WellFormed
<1> QED BY <1>1, <1>6, <1>7, <1>8 DEF ReadLeaves

LEMMA InboxDelete ==
  ASSUME InboxInv, NEW id \in Ids, DeleteLeaves(id, IndexOf(View, id))
  PROVE  WellFormed(View', HeldTexts') /\ Inbox!Delete(id) /\ ReadIsHeld'
<1>1. PICK v, i : v = View /\ i = IndexOf(v, id)
  OBVIOUS
<1>2. PICK r : r = Rows(View, FALSE)
  OBVIOUS
<1>3. v \in Seq(Recs) /\ WellFormed(v, HeldTexts)
  BY <1>1, InboxHas
<1>4. PICK m, f : RowsFrom(v, FALSE, m, f)
  BY <1>3, RowsOrder
<1>5. Len(r) = m
  BY <1>1, <1>2, <1>4 DEF RowsFrom
<1>6. CASE /\ i = 0 \/ v[i][1] = "D"
           /\ View' = View /\ store'.texts = store.texts /\ deleted' = deleted /\ trust' = trust
           /\ ret' \in {<<"delete", id, "already deleted">>, <<"delete", id, "error">>}
  <2>1. \A k \in 1..Len(r) : r[k][1] # id
    BY <1>1, <1>2, <1>3, <1>6, NotInInbox
  <2>2. Inbox!Place(id) = {}
    BY <1>2, <2>1 DEF Inbox!Place
  <2>3. Rows(View, FALSE)' = Rows(View, FALSE)
    BY <1>6
  <2>4. Inbox!Delete(id)
    BY <1>6, <2>2, <2>3 DEF Inbox!Delete, Inbox!Written
  <2>5. HeldTexts' = HeldTexts
    BY <1>6 DEF HeldTexts
  <2>6. ReadIsHeld'
    <3>1. ret'[1] = "delete"
      <4>1. PICK a : a = ret' /\ a \in {<<"delete", id, "already deleted">>, <<"delete", id, "error">>}
        BY <1>6
      <4>2. <<"delete", id, "already deleted">>[1] = "delete" /\ <<"delete", id, "error">>[1] = "delete"
        OBVIOUS
      <4>3. a[1] = "delete"
        BY Zenon, <4>1, <4>2
      <4> QED BY <4>1, <4>3
    <3> QED BY <3>1 DEF ReadIsHeld
  <2> QED BY <1>1, <1>3, <1>6, <2>4, <2>5, <2>6
<1>7. CASE /\ i # 0 /\ v[i][1] # "D" /\ store'.texts \in {store.texts, store.texts \ {id}}
           /\ deleted' = deleted \cup {id} /\ trust' \in {trust, "buffer"}
           /\ \E w : MarkedAt(v, i, "D", w) /\ View' \in {w, Kept(w)}
           /\ ret' = <<"delete", id, "deleted">>
  <2>1. i \in 1..Len(v) /\ HasId(v[i], id) /\ v[i][2] = id
    BY <1>1, <1>3, <1>7, IndexIsFound, IdIs
  <2>2. PICK k \in 1..m : f[k] = i /\ r[k] = <<id, v[i][1]>>
    <3>1. RowAt(v, m, f, i, <<id, v[i][1]>>)
      BY <1>3, <1>4, <1>7, <2>1, RowFound
    <3> QED BY <1>1, <1>2, <3>1 DEF RowAt
  <2>3. k \in Inbox!Place(id)
    <3>1. Inbox!Place(id) = {a \in 1..Len(r) : r[a][1] = id}
      BY <1>2 DEF Inbox!Place
    <3>2. k \in 1..Len(r) /\ r[k][1] = id
      BY <1>5, <2>2
    <3> QED BY <3>1, <3>2
  <2>4. PICK w, u : MarkedAt(v, i, "D", w) /\ u = View' /\ u \in {w, Kept(w)}
    BY <1>7
  <2>5. PICK texts : texts = HeldTexts' /\ texts = HeldTexts \ {v[i][2]}
    BY <1>7, <2>1 DEF HeldTexts
  <2>6. w \in Seq(Recs) /\ WellFormed(w, texts)
    <3>1. w \in Seq(Recs)
      BY <2>4 DEF MarkedAt
    <3>2. "D" \in {"R", "D"}
      OBVIOUS
    <3> QED BY <1>3, <1>7, <2>1, <2>4, <2>5, <3>1, <3>2, MarkedWellFormed
  <2>7. Rows(u, FALSE) = Rows(w, FALSE) /\ WellFormed(u, texts)
    <3>1. Statuses(w)
      BY <2>6 DEF WellFormed, Statuses
    <3> QED BY <2>4, <2>6, <3>1, RowsKept, KeptWellFormed
  <2>8. RowRemoved(r, k, Rows(u, FALSE))
    <3>1. RowRemoved(Rows(v, FALSE), k, Rows(w, FALSE))
      BY <1>3, <1>4, <2>1, <2>2, <2>4, RowsWithout
    <3> QED BY <1>1, <1>2, <2>7, <3>1
  <2>9. Rows(View, FALSE)' = Inbox!Remove(k)
    <3>1. Rows(u, FALSE) = SubSeq(r, 1, k - 1) \o SubSeq(r, k + 1, Len(r))
      BY <2>8 DEF RowRemoved
    <3>2. Inbox!Remove(k) = SubSeq(r, 1, k - 1) \o SubSeq(r, k + 1, Len(r))
      BY <1>2 DEF Inbox!Remove
    <3> QED BY <2>4, <3>1, <3>2
  <2>10. Inbox!Delete(id)
    <3>1. Inbox!Written \/ Inbox!FileBehind
      BY <1>7 DEF Inbox!Written, Inbox!FileBehind
    <3> QED BY <1>7, <2>3, <2>9, <3>1 DEF Inbox!Delete
  <2>11. ReadIsHeld'
    <3>1. ret'[1] = "delete"
      BY <1>7
    <3> QED BY <3>1 DEF ReadIsHeld
  <2> QED BY <2>4, <2>5, <2>7, <2>10, <2>11
<1> QED BY <1>1, <1>6, <1>7 DEF DeleteLeaves

LEMMA InboxAdd ==
  ASSUME InboxInv, NEW id \in Ids, AddLeaves(id)
  PROVE  WellFormed(View', HeldTexts') /\ Inbox!Deliver(id) /\ ReadIsHeld'
<1>1. PICK v, r : v = View /\ r = Rows(v, FALSE)
  OBVIOUS
<1>2. /\ v \in Seq(Recs) /\ WellFormed(v, HeldTexts) /\ Statuses(v) /\ IdsGiven(v, used)
      /\ Len(v) <= MaxCount /\ Len(v) \in Nat /\ MaxCount \in Nat
  BY <1>1, InboxHas, MaxCountAssumption
<1>3. id \notin used /\ id \notin deleted /\ deleted' = deleted
  BY DEF AddLeaves, InboxInv, MsgInv, StoreTypes
<1>4. CASE /\ block.cap # 0 => Len(View) = MaxCount /\ PlacesOf(View, "D") = {}
           /\ View' = View /\ store'.texts \in {store.texts, store.texts \cup {id}}
           /\ ret' = <<"add", id, "no space">> /\ trust' = trust
  <2>1. Len(Rows(View, FALSE)) = MaxCount \/ block.cap = 0
    <3> SUFFICES ASSUME block.cap # 0 PROVE Len(r) = MaxCount
      BY <1>1
    <3>1. PICK m, f : RowsFrom(v, FALSE, m, f)
      BY <1>2, RowsOrder
    <3>2. PICK L : L = Listed(v, FALSE)
      OBVIOUS
    <3>3. L = 1..Len(v)
      BY <1>1, <1>2, <1>4, <3>2 DEF Listed, PlacesOf, Statuses
    <3>4. L \in SUBSET Nat /\ Orders(f, m, L) /\ Len(r) = m
      <4>1. L \in SUBSET Nat
        BY <1>2, <3>2, ListedIs
      <4>2. Orders(f, m, L)
        BY <3>1, <3>2 DEF RowsFrom
      <4>3. Len(Rows(v, FALSE)) = m
        BY <3>1 DEF RowsFrom
      <4> QED BY <1>1, <4>1, <4>2, <4>3
    <3>5. Cardinality(L) = m
      BY <3>4, OrdersCount
    <3>6. Cardinality(L) = Len(v)
      <4>1. PICK n \in Nat : n = Len(v)
        BY <1>2
      <4>2. Cardinality(1..n) = n
        <5>1. 1 \in Int /\ n \in Int
          OBVIOUS
        <5> QED BY <5>1, FS_Interval
      <4> QED BY <3>3, <4>1, <4>2
    <3> QED BY <1>1, <1>4, <3>4, <3>5, <3>6
  <2>2. Rows(View, FALSE)' = Rows(View, FALSE)
    BY <1>4
  <2>3. Inbox!Deliver(id)
    BY <1>4, <2>1, <2>2 DEF Inbox!Deliver, Inbox!Written
  <2>4. WellFormed(View', HeldTexts')
    <3>1. HeldTexts \subseteq HeldTexts'
      BY <1>3, <1>4 DEF HeldTexts
    <3> QED BY <1>1, <1>2, <1>4, <3>1, WellFormedGrows
  <2>5. ReadIsHeld'
    <3>1. ret'[1] = "add"
      BY <1>4
    <3> QED BY <3>1 DEF ReadIsHeld
  <2> QED BY <2>3, <2>4, <2>5
<1>5. CASE /\ store'.texts = store.texts \cup {id} /\ trust' \in {trust, "buffer"}
           /\ \E u \in {View, Kept(View)} :
                u \in Seq(Recs) /\ Len(u) < MaxCount /\ View' = Append(u, Record(id, "N"))
           /\ ret' = <<"add", id, "ok">>
  <2>1. PICK u : /\ u \in {v, Kept(v)} /\ u \in Seq(Recs) /\ Len(u) < MaxCount
                 /\ View' = Append(u, Record(id, "N"))
    BY <1>1, <1>5
  <2>2. Rows(u, FALSE) = r /\ WellFormed(u, HeldTexts) /\ IdsGiven(u, used)
    <3>1. CASE u = v
      BY <1>1, <1>2, <3>1
    <3>2. CASE u = Kept(v)
      <4>1. /\ Rows(u, FALSE) = r
            /\ \A j \in 1..Len(u) : \E i \in 1..Len(v) : u[j] = v[i] /\ v[i][1] # "D"
        BY <1>1, <1>2, <3>2, RowsKept
      <4>2. IdsGiven(u, used)
        BY <1>2, <4>1 DEF IdsGiven
      <4>3. WellFormed(u, HeldTexts)
        BY <1>2, <3>2, KeptWellFormed
      <4> QED BY <4>1, <4>2, <4>3
    <3> QED BY <2>1, <3>1, <3>2
  <2>3. PICK rec : rec = Record(id, "N")
    OBVIOUS
  <2>4. /\ WellFormed(Append(u, rec), HeldTexts \cup {id})
        /\ RowOf(rec) = <<id, "N">> /\ rec \in Recs /\ rec[1] = "N"
    BY <1>3, <2>1, <2>2, <2>3, AddedWellFormed
  <2>5. Rows(Append(u, rec), FALSE) = Append(r, <<id, "N">>)
    <3>1. Rows(Append(u, rec), FALSE) = Append(Rows(u, FALSE), RowOf(rec))
      BY <2>1, <2>4, RowsAppended
    <3> QED BY <2>2, <2>4, <3>1
  <2>6. Rows(View, FALSE)' = Append(Rows(View, FALSE), <<id, "N">>)
    BY <1>1, <2>1, <2>3, <2>5
  <2>7. Len(Rows(View, FALSE)) < MaxCount
    <3>1. PICK m, f : RowsFrom(u, FALSE, m, f)
      BY <2>1, RowsOrder
    <3>2. Len(Rows(u, FALSE)) = m /\ m <= Len(u) /\ m \in Nat
      BY <3>1 DEF RowsFrom, Orders
    <3>3. Len(u) \in Nat /\ Len(u) < MaxCount /\ MaxCount \in Nat
      BY <1>2, <2>1
    <3>4. m < MaxCount
      BY <3>2, <3>3
    <3> QED BY <1>1, <2>2, <3>2, <3>4
  <2>8. Inbox!Place(id) = {}
    <3>1. \A i \in 1..Len(v) : ~HasId(v[i], id)
      BY <1>2, <1>3 DEF IdsGiven
    <3>2. \A k \in 1..Len(r) : r[k][1] # id
      BY <1>1, <1>2, <3>1, NoRow
    <3> QED BY <1>1, <3>2 DEF Inbox!Place
  <2>9. Inbox!Deliver(id)
    <3>1. Inbox!Written \/ Inbox!FileBehind
      BY <1>5 DEF Inbox!Written, Inbox!FileBehind
    <3> QED BY <1>5, <2>6, <2>7, <2>8, <3>1 DEF Inbox!Deliver
  <2>10. HeldTexts' = HeldTexts \cup {id}
    BY <1>3, <1>5 DEF HeldTexts
  <2>11. ReadIsHeld'
    <3>1. ret'[1] = "add"
      BY <1>5
    <3> QED BY <3>1 DEF ReadIsHeld
  <2> QED BY <2>1, <2>3, <2>4, <2>9, <2>10, <2>11
<1> QED BY <1>4, <1>5 DEF AddLeaves

LEMMA SameCount ==
  ASSUME NEW S
  PROVE  Inbox!Cardinality(S) = Cardinality(S)
  BY DEF Inbox!Cardinality, Cardinality

LEMMA SameSelected ==
  ASSUME NEW seq, NEW P
  PROVE  Inbox!Selected(seq, P) = Selected(seq, P)
  BY Zenon DEF Inbox!Selected, Selected, Inbox!InOrder, InOrder, Inbox!Cardinality, Cardinality

LEMMA InboxList ==
  ASSUME InboxInv, NEW onlyNew \in BOOLEAN, ListLeaves(onlyNew)
  PROVE  WellFormed(View', HeldTexts') /\ Inbox!List(onlyNew) /\ ReadIsHeld'
<1>1. PICK v, r : v = View /\ r = Rows(View, FALSE)
  OBVIOUS
<1>2. /\ Rows(v, TRUE) = Selected(r, NewRows(r))
      /\ store.hdr.new = 0 => Rows(v, TRUE) = <<>>
  BY <1>1, InboxHas, RowsNew
<1>3. Rows(View, FALSE)' = Rows(View, FALSE) /\ Inbox!Written
  BY DEF ListLeaves, Inbox!Written
<1>4. Inbox!Selected(r, Inbox!New(r)) = Selected(r, NewRows(r))
  <2>1. Inbox!New(r) = NewRows(r)
    BY DEF Inbox!New, NewRows
  <2> QED BY <2>1, SameSelected
<1>7. View' = View /\ HeldTexts' = HeldTexts /\ WellFormed(View, HeldTexts)
  BY InboxHas DEF ListLeaves, HeldTexts
<1>8. ReadIsHeld'
  <2>1. ret'[1] = "list"
    BY DEF ListLeaves
  <2> QED BY <2>1 DEF ReadIsHeld
<1>5. CASE onlyNew = TRUE
  <2>1. ret' = <<"list", onlyNew, Rows(v, TRUE)>>
    BY <1>1, <1>2, <1>5 DEF ListLeaves
  <2> QED BY <1>1, <1>2, <1>3, <1>4, <1>5, <1>7, <1>8, <2>1 DEF Inbox!List
<1>6. CASE onlyNew = FALSE
  <2>1. ret' = <<"list", onlyNew, r>>
    BY <1>1, <1>6 DEF ListLeaves
  <2> QED BY <1>1, <1>3, <1>6, <1>7, <1>8, <2>1 DEF Inbox!List
<1> QED BY <1>5, <1>6

LEMMA InboxCount ==
  ASSUME InboxInv, CountLeaves
  PROVE  WellFormed(View', HeldTexts') /\ Inbox!Count /\ ReadIsHeld'
<1>1. PICK v, r : v = View /\ r = Rows(View, FALSE)
  OBVIOUS
<1>2. /\ v \in Seq(Recs) /\ Len(v) = store.hdr.total /\ Len(v) <= MaxCount
      /\ store.hdr.new = Cardinality(NewRows(r)) /\ Len(v) \in Nat /\ MaxCount \in Nat
  <2>1. /\ v \in Seq(Recs) /\ Len(v) = store.hdr.total /\ Len(v) <= MaxCount
        /\ store.hdr.new = Cardinality(PlacesOf(v, "N"))
    BY <1>1, InboxHas
  <2>2. Cardinality(NewRows(Rows(v, FALSE))) = Cardinality(PlacesOf(v, "N"))
    BY <2>1, RowsNew
  <2>3. Cardinality(NewRows(r)) = Cardinality(PlacesOf(v, "N"))
    BY <1>1, <2>2, Zenon
  <2>4. Len(v) \in Nat /\ MaxCount \in Nat
    BY <2>1, MaxCountAssumption
  <2> QED BY <2>1, <2>3, <2>4
<1>3. Rows(View, FALSE)' = Rows(View, FALSE) /\ Inbox!Written
  BY DEF CountLeaves, Inbox!Written
<1>4. Inbox!Cardinality(Inbox!New(r)) = store.hdr.new
  <2>1. Inbox!New(r) = NewRows(r)
    BY DEF Inbox!New, NewRows
  <2> QED BY <1>2, <2>1, SameCount
<1>5. store.hdr.total \in Len(r)..MaxCount
  <2>1. PICK m, f : RowsFrom(v, FALSE, m, f)
    BY <1>2, RowsOrder
  <2>2. Len(r) <= Len(v) /\ Len(r) \in Nat
    BY <1>1, <2>1 DEF RowsFrom, Orders
  <2> QED BY <1>2, <2>2
<1>6. ret' = <<"count", store.hdr.total, store.hdr.new>>
  BY DEF CountLeaves
<1>7. View' = View /\ HeldTexts' = HeldTexts /\ WellFormed(View, HeldTexts)
  BY InboxHas DEF CountLeaves, HeldTexts
<1>8. ReadIsHeld'
  <2>1. ret'[1] = "count"
    BY <1>6
  <2> QED BY <2>1 DEF ReadIsHeld
<1> QED BY <1>1, <1>3, <1>4, <1>5, <1>6, <1>7, <1>8 DEF Inbox!Count

LEMMA InboxInit ==
  ASSUME Init
  PROVE  InboxInv /\ Inbox!Init
<1>1. MsgInv /\ store.hdr.total = 0 /\ ret = <<"none">> /\ trust = "both" /\ block.cap = 0
  BY MsgInit DEF Init, NoHeader, Fresh
<1>2. View \in Seq(Recs) /\ Len(View) = 0
  BY <1>1 DEF MsgInv, Counts
<1>3. WellFormed(View, HeldTexts)
  BY <1>2 DEF WellFormed
<1>4. PICK r : r = Rows(View, FALSE)
  OBVIOUS
<1>5. PICK m, f : RowsFrom(View, FALSE, m, f)
  BY <1>2, RowsOrder
<1>6. r \in Seq(RowSet) /\ Len(r) = 0
  <2>1. m \in Nat /\ m <= Len(View)
    BY <1>5 DEF RowsFrom, Orders
  <2>2. Rows(View, FALSE) \in Seq(RowSet) /\ Len(Rows(View, FALSE)) = m
    BY <1>5 DEF RowsFrom
  <2>3. r \in Seq(RowSet) /\ Len(r) = m
    BY <1>4, <2>2, Zenon
  <2>4. m = 0
    BY <1>2, <2>1
  <2> QED BY <2>3, <2>4
<1>7. r = <<>>
  BY <1>6
<1>8. ReadIsHeld
  <2>1. ret[1] = "none"
    BY <1>1
  <2> QED BY <2>1 DEF ReadIsHeld
<1> QED BY <1>1, <1>3, <1>4, <1>7, <1>8 DEF InboxInv, Inbox!Init

\* What the caller of the index and the inbox see alike.
Seen == <<Rows(View, FALSE), ret, trust, block.cap # 0>>

\* A call is a call of the inbox.
LEMMA InboxCall ==
  ASSUME InboxInv, MsgInv', StaysAtHand, WellFormed(View', HeldTexts'), ReadIsHeld',
         \/ \E id \in Ids : Inbox!Deliver(id) \/ Inbox!Read(id) \/ Inbox!Delete(id)
         \/ \E onlyNew \in BOOLEAN : Inbox!List(onlyNew)
         \/ Inbox!Count
  PROVE  InboxInv' /\ Inbox!Calls
<1>1. trust # "neither"
  BY DEF InboxInv, MsgInv, StoreTypes
<1>2. InboxInv'
  BY DEF InboxInv
<1> QED BY <1>1, <1>2 DEF Inbox!Calls, StaysAtHand

\* Each call that leaves the records somewhere is a call of the inbox; what the cache
\* does is the drop of the inbox from memory, or not seen.
LEMMA InboxNext ==
  ASSUME InboxInv, [Next]_vars, trust' # "neither"
  PROVE  InboxInv' /\ (Inbox!Calls \/ Inbox!Drop \/ UNCHANGED Seen)
<1>0. MsgInv
  BY DEF InboxInv
<1>1. ASSUME NEW id \in Ids, ReadMessage(id) PROVE InboxInv' /\ Inbox!Calls
  <2>1. MsgInv' /\ ReadLeaves(id, IndexOf(View, id))
    BY <1>0, <1>1, ReadKeeps
  <2>2. WellFormed(View', HeldTexts') /\ Inbox!Read(id) /\ ReadIsHeld'
    BY <2>1, InboxRead
  <2>3. StaysAtHand
    BY <2>1 DEF ReadLeaves
  <2> QED BY <2>1, <2>2, <2>3, InboxCall
<1>2. ASSUME NEW id \in Ids, DeleteMessage(id) PROVE InboxInv' /\ Inbox!Calls
  <2>1. MsgInv' /\ DeleteLeaves(id, IndexOf(View, id))
    BY <1>0, <1>2, DeleteKeeps
  <2>2. WellFormed(View', HeldTexts') /\ Inbox!Delete(id) /\ ReadIsHeld'
    BY <2>1, InboxDelete
  <2>3. StaysAtHand
    BY <2>1 DEF DeleteLeaves
  <2> QED BY <2>1, <2>2, <2>3, InboxCall
<1>3. ASSUME NEW onlyNew \in BOOLEAN, GetIds(onlyNew) PROVE InboxInv' /\ Inbox!Calls
  <2>1. MsgInv' /\ ListLeaves(onlyNew)
    BY <1>0, <1>3, ListKeeps
  <2>2. WellFormed(View', HeldTexts') /\ Inbox!List(onlyNew) /\ ReadIsHeld'
    BY <2>1, InboxList
  <2>3. StaysAtHand
    BY <2>1 DEF ListLeaves
  <2> QED BY <2>1, <2>2, <2>3, InboxCall
<1>4. CASE GetCount
  <2>1. MsgInv' /\ CountLeaves
    BY <1>0, <1>4, CountKeeps
  <2>2. WellFormed(View', HeldTexts') /\ Inbox!Count /\ ReadIsHeld'
    BY <2>1, InboxCount
  <2>3. StaysAtHand
    BY <2>1 DEF CountLeaves
  <2> QED BY <2>1, <2>2, <2>3, InboxCall
<1>5. ASSUME NEW id \in Ids, Add(id) PROVE InboxInv' /\ Inbox!Calls
  <2>1. MsgInv' /\ AddLeaves(id)
    BY <1>0, <1>5, AddKeeps
  <2>2. WellFormed(View', HeldTexts') /\ Inbox!Deliver(id) /\ ReadIsHeld'
    BY <2>1, InboxAdd
  <2>3. StaysAtHand
    BY <2>1 DEF AddLeaves
  <2> QED BY <2>1, <2>2, <2>3, InboxCall
<1>6. ASSUME MsgInv', NothingSeen PROVE InboxInv'
  <2>1. View' = View /\ HeldTexts' = HeldTexts
    BY <1>6 DEF NothingSeen, HeldTexts
  <2>2. ReadIsHeld'
    BY <1>6 DEF NothingSeen, ReadIsHeld, InboxInv
  <2> QED BY <1>6, <2>1, <2>2 DEF InboxInv
<1>7. CASE CloseHandler
  <2>1. MsgInv' /\ NothingSeen /\ block'.cap = block.cap
    BY <1>0, <1>7, CloseKeeps
  <2>2. UNCHANGED Seen
    BY <2>1 DEF NothingSeen, Seen
  <2> QED BY <1>6, <2>1, <2>2
<1>8. CASE Drop
  <2>1. MsgInv' /\ NothingSeen /\ block'.cap = 0 /\ trust = "both"
    BY <1>0, <1>8, DropKeeps
  <2>2. Rows(View, FALSE)' = Rows(View, FALSE) /\ ret' = ret /\ trust' = trust
    BY <2>1 DEF NothingSeen
  <2>3. Inbox!Drop
    BY <2>1, <2>2 DEF Inbox!Drop
  <2> QED BY <1>6, <2>1, <2>3
<1>9. CASE UNCHANGED vars
  <2>1. block' = block /\ UNCHANGED <<store, ret, used, deleted, trust>>
    BY <1>9 DEF vars
  <2>2. View' = View
    BY <2>1 DEF View, WithHeader, Opened
  <2>3. MsgInv' /\ NothingSeen
    BY <1>0, <2>1, <2>2 DEF MsgInv, StoreTypes, BlockInv, Counts, IdsGiven, PlacesOf, NothingSeen
  <2>4. UNCHANGED Seen
    BY <2>1, <2>2 DEF Seen
  <2> QED BY <1>6, <2>3, <2>4
<1> QED BY <1>1, <1>2, <1>3, <1>4, <1>5, <1>7, <1>8, <1>9 DEF Next, Calls

-----------------------------------------------------------------------------
(* What is left of the inbox once the records are lost                       *)

LEMMA KnownAreRecs ==
  ASSUME NEW given \in SUBSET Ids
  PROVE  /\ KnownRecs(given) \subseteq Recs
         /\ \A v \in Seq(KnownRecs(given)) : v \in Seq(Recs)
<1>1. Known(given) \subseteq Values
  BY DEF Known, Values
<1>2. KnownRecs(given) \subseteq Recs
  BY <1>1 DEF KnownRecs, Recs
<1> QED BY <1>2

\* A record that is listed has its row.
LEMMA RowShown ==
  ASSUME NEW v \in Seq(Recs), NEW i \in 1..Len(v), v[i][1] \in {"N", "R"}
  PROVE  \E k \in 1..Len(Rows(v, FALSE)) : Rows(v, FALSE)[k] = RowOf(v[i])
<1>1. PICK m, f : RowsFrom(v, FALSE, m, f)
  BY RowsOrder
<1>2. i \in Listed(v, FALSE)
  BY DEF Listed
<1>3. PICK r : r = Rows(v, FALSE)
  OBVIOUS
<1>4. Len(r) = m /\ r = [a \in 1..m |-> RowOf(v[f[a]])]
  BY <1>1, <1>3 DEF RowsFrom
<1>5. PICK k \in 1..m : f[k] = i
  BY <1>1, <1>2 DEF RowsFrom, Orders
<1>6. r[k] = RowOf(v[i])
  BY <1>4, <1>5
<1> QED BY <1>3, <1>4, <1>5, <1>6

\* A call cut short is a crash; another has given its answer.
LEMMA CallOrCrash ==
  ASSUME trust' = "neither", NEW b, NEW w, NEW r, NEW right, Finish(b, w, r, right)
  PROVE  \/ Inbox!Lost
         \/ block' = b /\ ret' = r /\ (trust = "neither" \/ right = "neither")
<1>1. CASE block' = b /\ ret' = r /\ trust' = Least(trust, right)
  BY <1>1 DEF Least
<1>2. CASE block' = Fresh /\ ret' = <<"none">>
  <2>1. block'.cap = 0
    BY <1>2 DEF Fresh
  <2> QED BY <1>2, <2>1 DEF Inbox!Lost, Inbox!Crash
<1> QED BY <1>1, <1>2 DEF Finish

\* What a call may answer then, when no row depends on it.
AnswersAnyhow(id) ==
  {<<"add", id, "no space">>, <<"delete", id, "deleted">>,
   <<"delete", id, "already deleted">>, <<"delete", id, "error">>}

LEMMA LostAnswer ==
  ASSUME trust = "neither", trust' = "neither", NEW id \in Ids,
         \/ ret' \in AnswersAnyhow(id)
         \/ ret'[1] = "read" /\ ret'[2] = id /\ ret'[3] \notin {"N", "R"}
  PROVE  Inbox!Lost
  BY DEF AnswersAnyhow, Inbox!Lost, Inbox!LostCalls

LEMMA LostRead ==
  ASSUME BaseInv, ~Overrun, trust' = "neither", NEW id \in Ids, ReadMessage(id)
  PROVE  Inbox!Lost
<1>1. PICK fill \in Fills :
        LET b == WithRecords(block, fill)
            i == IndexOf(b.mem, id)
            h == [b.hdr EXCEPT !.new = Minus1(@)]
            s1 == StoreHeader(store, h)
            s2 == [s1 EXCEPT !.body = WriteAt(@, ReadStatusAt(i), <<StatusAfterRead>>)]
        IN  \/ Finish(b, <<>>, <<"read", id, "error">>, "both")
            \/ /\ i # 0
               /\ Finish(Marked(b, i, h, StatusAfterRead), <<s1, s2>>, <<"read", id, "N">>, "buffer")
            \/ /\ i # 0 /\ b.mem[i][1] # "N"
               /\ Finish(b, <<>>, <<"read", id, b.mem[i][1]>>, "both")
  BY DEF ReadMessage
<1>2. PICK b, i : b = WithRecords(block, fill) /\ i = IndexOf(b.mem, id)
  OBVIOUS
<1>3. PICK h, d : h = [b.hdr EXCEPT !.new = Minus1(@)] /\ d = Marked(b, i, h, "R")
  OBVIOUS
<1>4. PICK r0, r1, r2 : /\ r0 = <<"read", id, "error">> /\ r1 = <<"read", id, "N">>
                        /\ r2 = <<"read", id, b.mem[i][1]>>
  OBVIOUS
<1>5. \/ Inbox!Lost
      \/ /\ trust = "neither"
         /\ \/ ret' = r0
            \/ i # 0 /\ block' = d /\ ret' = r1
            \/ i # 0 /\ b.mem[i][1] # "N" /\ block' = b /\ ret' = r2
  <2>1. PICK s1, s2 : \/ Finish(b, <<>>, r0, "both")
                      \/ i # 0 /\ Finish(d, <<s1, s2>>, r1, "buffer")
                      \/ i # 0 /\ b.mem[i][1] # "N" /\ Finish(b, <<>>, r2, "both")
    BY <1>1, <1>2, <1>3, <1>4 DEF StatusAfterRead
  <2>2. CASE Finish(b, <<>>, r0, "both")
    BY <2>2, CallOrCrash
  <2>3. CASE i # 0 /\ Finish(d, <<s1, s2>>, r1, "buffer")
    BY <2>3, CallOrCrash
  <2>4. CASE i # 0 /\ b.mem[i][1] # "N" /\ Finish(b, <<>>, r2, "both")
    BY <2>4, CallOrCrash
  <2> QED BY <2>1, <2>2, <2>3, <2>4
<1>6. /\ b.mem \in Seq(Recs) /\ b.cap \in Nat /\ Len(b.mem) <= b.cap
      /\ b = [hdr |-> b.hdr, loaded |-> b.loaded, open |-> b.open, mem |-> b.mem, cap |-> b.cap]
  <2>1. FitBlock(b, used) /\ used \in SUBSET Ids
    BY <1>2, RecordsAreGood DEF BaseInv
  <2> QED BY <2>1, KnownAreRecs DEF FitBlock, GoodBlock
<1>7. i # 0 => i \in 1..Len(b.mem) /\ b.mem[i][2] = id /\ b.cap # 0
  <2>1. i # 0 => i \in 1..Len(b.mem) /\ HasId(b.mem[i], id)
    BY <1>2, <1>6, IndexIsFound
  <2> QED BY <1>6, <2>1, IdIs
<1>8. ASSUME NEW v \in Seq(Recs), v = block'.mem, block'.cap # 0, i \in 1..Len(v),
             v[i][2] = id, v[i][1] = "R", trust = "neither", ret' \in {r1, <<"read", id, "R">>}
      PROVE  Inbox!Lost
  <2>1. View' = v
    BY <1>8 DEF View
  <2>2. \E k \in 1..Len(Rows(v, FALSE)) : Rows(v, FALSE)[k] = <<id, "R">>
    BY <1>8, RowShown DEF RowOf
  <2>3. Rows(View, FALSE)' = Rows(v, FALSE)
    BY <2>1
  <2>4. ret' \in {<<"read", id, "N">>, <<"read", id, "R">>}
    BY <1>4, <1>8
  <2> QED BY <1>8, <2>2, <2>3, <2>4 DEF Inbox!Lost, Inbox!LostCalls
<1>9. CASE trust = "neither" /\ ret' = r0
  <2>1. ret'[1] = "read" /\ ret'[2] = id /\ ret'[3] \notin {"N", "R"}
    BY <1>4, <1>9
  <2> QED BY <1>9, <2>1, LostAnswer
<1>10. CASE trust = "neither" /\ i # 0 /\ block' = d /\ ret' = r1
  <2>1. PICK w : w = [b.mem EXCEPT ![i][1] = "R"]
    OBVIOUS
  <2>2. d.mem = w /\ d.cap = b.cap
    BY <1>3, <1>6, <2>1 DEF Marked, Opened
  <2>3. w \in Seq(Recs) /\ i \in 1..Len(w) /\ w[i][2] = id /\ w[i][1] = "R"
    <3>1. PICK mem : mem = b.mem
      OBVIOUS
    <3>2. mem \in Seq([1..RecLen -> Values]) /\ i \in 1..Len(mem) /\ mem[i][2] = id
          /\ 1 \in 1..RecLen /\ 2 \in 1..RecLen /\ "R" \in Values
      BY <1>6, <1>7, <1>10, <3>1, LayoutAssumption DEF Recs, Values
    <3>3. PICK rec : rec = [mem[i] EXCEPT ![1] = "R"]
      OBVIOUS
    <3>4. rec \in [1..RecLen -> Values] /\ rec[1] = "R" /\ rec[2] = id
      <4>1. PICK had : had = mem[i]
        OBVIOUS
      <4>2. had \in [1..RecLen -> Values] /\ had[2] = id
        BY <3>2, <4>1
      <4>3. rec = [had EXCEPT ![1] = "R"]
        BY <3>3, <4>1
      <4>4. rec \in [1..RecLen -> Values] /\ rec[1] = "R" /\ rec[2] = had[2]
        BY <3>2, <4>2, <4>3
      <4> QED BY <4>2, <4>4
    <3>5. w = [mem EXCEPT ![i] = rec]
      BY <2>1, <3>1, <3>3
    <3>6. w \in Seq([1..RecLen -> Values]) /\ Len(w) = Len(mem) /\ w[i] = rec
      BY <3>2, <3>4, <3>5, ExceptSeq
    <3> QED BY <3>2, <3>4, <3>6 DEF Recs
  <2> QED BY <1>7, <1>8, <1>10, <2>2, <2>3
<1>11. CASE trust = "neither" /\ i # 0 /\ b.mem[i][1] # "N" /\ block' = b /\ ret' = r2
  <2>1. CASE b.mem[i][1] = "R"
    BY <1>4, <1>6, <1>7, <1>8, <1>11, <2>1
  <2>2. CASE b.mem[i][1] # "R"
    <3>1. ret'[1] = "read" /\ ret'[2] = id /\ ret'[3] \notin {"N", "R"}
      BY <1>4, <1>11, <2>2
    <3> QED BY <1>11, <3>1, LostAnswer
  <2> QED BY <2>1, <2>2
<1> QED BY <1>5, <1>9, <1>10, <1>11

LEMMA LostDelete ==
  ASSUME trust' = "neither", NEW id \in Ids, DeleteMessage(id)
  PROVE  Inbox!Lost
<1>1. PICK fill, purged : DeleteSteps(id, fill, purged)
  BY DeleteDoes
<1>2. PICK b, w, r, right : /\ Finish(b, w, r, right) /\ r \in AnswersAnyhow(id)
                            /\ right # "neither"
  <2>1. \A d, c : After(d, c) # "neither"
    BY DEF After
  <2>2. /\ <<"delete", id, "error">> \in AnswersAnyhow(id)
        /\ <<"delete", id, "already deleted">> \in AnswersAnyhow(id)
        /\ <<"delete", id, "deleted">> \in AnswersAnyhow(id)
    BY DEF AnswersAnyhow
  <2> QED BY ZenonT(60), <1>1, <2>1, <2>2 DEF DeleteSteps
<1> QED BY <1>2, CallOrCrash, LostAnswer

LEMMA LostList ==
  ASSUME BaseInv, ~Overrun, trust' = "neither", NEW onlyNew \in BOOLEAN, GetIds(onlyNew)
  PROVE  Inbox!Lost
<1>1. PICK fill \in Fills :
        Finish(WithRecords(block, fill), <<>>,
               <<"list", onlyNew,
                 IF onlyNew /\ WithRecords(block, fill).hdr.new = 0 THEN <<>>
                 ELSE Rows(WithRecords(block, fill).mem, onlyNew)>>, "both")
  BY DEF GetIds
<1>2. PICK b : b = WithRecords(block, fill)
  OBVIOUS
<1>3. PICK r : r = <<"list", onlyNew,
                     IF onlyNew /\ b.hdr.new = 0 THEN <<>> ELSE Rows(b.mem, onlyNew)>>
  OBVIOUS
<1>4. Inbox!Lost \/ (block' = b /\ ret' = r /\ trust = "neither")
  BY <1>1, <1>2, <1>3, CallOrCrash
<1>5. CASE block' = b /\ ret' = r /\ trust = "neither"
  <2>1. CASE onlyNew = TRUE
    <3>1. ret'[1] = "list" /\ ret'[2] = TRUE
      BY <1>3, <1>5, <2>1
    <3> QED BY <1>5, <3>1 DEF Inbox!Lost, Inbox!LostCalls
  <2>2. CASE onlyNew = FALSE
    <3>1. ret' = <<"list", FALSE, Rows(b.mem, FALSE)>>
      BY <1>3, <1>5, <2>2
    <3>2. View' = b.mem
      <4>1. CASE b.cap # 0
        BY <1>5, <4>1 DEF View
      <4>2. CASE b.cap = 0
        <5>1. b.loaded /\ b.hdr.total = 0 /\ b.mem = <<>>
          <6>1. PICK h : h = WithHeader(block)
            OBVIOUS
          <6>2. FitBlock(h, used) /\ h.loaded /\ FitBlock(b, used)
            BY <1>2, <6>1, HeaderIsGood, RecordsAreGood
          <6>3. block.cap = 0
            BY <1>2, <4>2 DEF WithRecords
          <6>4. /\ Opened(h) = [h EXCEPT !.open = TRUE]
                /\ Opened(h).hdr = h.hdr /\ Opened(h).loaded = h.loaded
            BY <6>2 DEF Opened, FitBlock, GoodBlock
          <6>5. PICK mem : b = [Opened(h) EXCEPT !.mem = mem, !.cap = h.hdr.total]
            BY <1>2, <6>1, <6>3, <6>4 DEF WithRecords
          <6>6. b.cap = h.hdr.total /\ b.hdr = h.hdr /\ b.loaded = h.loaded
            BY <6>2, <6>4, <6>5 DEF FitBlock, GoodBlock
          <6>7. b.mem = <<>>
            BY <4>2, <6>2 DEF FitBlock, GoodBlock
          <6> QED BY <4>2, <6>2, <6>6, <6>7
        <5>2. View' = ReadRecords(store'.body, 0, CHOOSE r0 \in Heap : TRUE)
          BY <1>5, <4>2, <5>1 DEF View, WithHeader
        <5>3. View' = <<>>
          <6>1. \A body, fill0 : ReadRecords(body, 0, fill0) = <<>>
            BY DEF ReadRecords
          <6> QED BY <5>2, <6>1
        <5> QED BY <5>1, <5>3
      <4> QED BY <4>1, <4>2
    <3>3. ret' = <<"list", FALSE, Rows(View, FALSE)'>>
      BY <3>1, <3>2
    <3> QED BY <1>5, <3>3 DEF Inbox!Lost, Inbox!LostCalls
  <2> QED BY <2>1, <2>2
<1> QED BY <1>4, <1>5

LEMMA LostAdd ==
  ASSUME BaseInv, ~Overrun, trust' = "neither", NEW id \in Ids, Add(id)
  PROVE  Inbox!Lost
<1>1. PICK fill \in Fills, purged \in BOOLEAN : AddBody(id, fill, purged)
  BY AddDoes
<1>3. PICK b : b = Opened(WithHeader(block))
  OBVIOUS
<1>4. PICK c : c = IF b.hdr.total >= MaxCount THEN Compressed(b) ELSE b
  OBVIOUS
<1>5. PICK given : given = used \cup {id}
  OBVIOUS
<1>6. /\ given \in SUBSET Ids /\ used \in SUBSET Ids /\ used \subseteq given
      /\ FitBlock(c, given) /\ c.loaded /\ c.cap = block.cap
  <2>1. FitBlock(b, used) /\ b.loaded /\ b.cap = block.cap
    BY <1>3, HeaderIsGood, OpenedIsGood
  <2>2. given \in SUBSET Ids /\ used \in SUBSET Ids /\ used \subseteq given
    BY <1>5 DEF BaseInv
  <2>3. FitBlock(b, given)
    <3>1. {} \subseteq used
      OBVIOUS
    <3> QED BY <2>1, <2>2, <3>1, GoodGrows
  <2> QED BY <1>4, <2>1, <2>2, <2>3, CompressedIsGood
<1>7. PICK rec, old : /\ rec = Record(id, "N")
                      /\ old = IF c.cap = 0 THEN [i \in 1..c.hdr.total |-> fill] ELSE c.mem
  OBVIOUS
<1>8. PICK h : h = [c.hdr EXCEPT !.total = Plus1(@), !.new = NewAfterAdd(c.hdr)]
  OBVIOUS
<1>9. PICK e : e = [c EXCEPT !.hdr = h, !.mem = Append(old, rec), !.cap = RoomForNext(c)]
  OBVIOUS
<1>10. PICK r1, r2 : r1 = <<"add", id, "no space">> /\ r2 = <<"add", id, "ok">>
  OBVIOUS
<1>11. PICK right : right = IF c.cap = 0 /\ c.hdr.total # 0 THEN "neither" ELSE After(b, c)
  OBVIOUS
<1>12. After(b, c) # "neither"
  BY DEF After
<1>13. PICK w1, w2 : \/ Finish(c, w1, r1, After(b, c))
                     \/ c.hdr.total < MaxCount /\ Finish(e, w2, r2, right)
  BY ZenonT(60), <1>1, <1>3, <1>4, <1>7, <1>8, <1>9, <1>10, <1>11 DEF AddBody
<1>14. CASE Finish(c, w1, r1, After(b, c))
  <2>1. r1 \in AnswersAnyhow(id)
    BY <1>10 DEF AnswersAnyhow
  <2> QED BY <1>12, <1>14, <2>1, CallOrCrash, LostAnswer
<1>15. CASE c.hdr.total < MaxCount /\ Finish(e, w2, r2, right)
  <2>1. Inbox!Lost \/ (block' = e /\ ret' = r2 /\ (trust = "neither" \/ right = "neither"))
    BY <1>15, CallOrCrash
  <2>2. right = "neither" => block.cap = 0
    BY <1>6, <1>11, <1>12
  <2>3. rec \in KnownRecs(given) /\ old \in Seq(KnownRecs(given)) /\ Len(old) = c.hdr.total
    <3>1. id \in given
      BY <1>5
    <3>2. rec \in KnownRecs(given)
      BY <1>6, <1>7, <3>1, NewRecord
    <3>3. old \in Seq(KnownRecs(given)) /\ Len(old) = c.hdr.total
      BY <1>6, <1>7, OldRecords
    <3> QED BY <3>2, <3>3
  <2>4. e.mem = Append(old, rec) /\ e.cap # 0
    <3>1. c.hdr.total < MaxCount
      BY <1>15
    <3>2. Grows(c, old, rec, h, e)
      BY <1>8, <1>9 DEF Grows
    <3> QED BY <1>6, <2>3, <3>1, <3>2, RoomIsMade
  <2>5. old \in Seq(Recs) /\ rec \in Recs /\ rec[1] = "N" /\ RowOf(rec) = <<id, "N">>
    <3>1. rec[1] = "N" /\ \A k \in 2..RecLen : rec[k] = id
      BY <1>7, RecordIs
    <3>2. rec[2] = id
      BY <3>1, IdIs DEF HasId
    <3> QED BY <1>6, <2>3, <3>1, <3>2, KnownAreRecs DEF RowOf
  <2>6. ASSUME block' = e
        PROVE  /\ Rows(View, FALSE)' # <<>>
               /\ Rows(View, FALSE)'[Len(Rows(View, FALSE)')] = <<id, "N">>
    <3>1. View' = Append(old, rec)
      BY <2>4, <2>6 DEF View
    <3>2. PICK r : r = Rows(old, FALSE)
      OBVIOUS
    <3>3. Rows(Append(old, rec), FALSE) = Append(r, <<id, "N">>)
      BY <2>5, <3>2, RowsAppended
    <3>4. PICK n \in Nat : r \in Seq(RowSet) /\ Len(r) = n
      <4>1. PICK m, f : RowsFrom(old, FALSE, m, f)
        BY <2>5, RowsOrder
      <4> QED BY <3>2, <4>1 DEF RowsFrom, Orders
    <3>5. PICK s : s = Append(r, <<id, "N">>)
      OBVIOUS
    <3>6. s # <<>> /\ s[Len(s)] = <<id, "N">>
      <4>1. <<id, "N">> \in RowSet
        BY DEF RowSet, Values
      <4>2. Len(s) = n + 1 /\ s[n + 1] = <<id, "N">>
        BY <3>4, <3>5, <4>1, AppendProperties
      <4> QED BY <4>2
    <3>7. Rows(View, FALSE)' = s
      BY <3>1, <3>3, <3>5
    <3> QED BY <3>6, <3>7
  <2>7. CASE block' = e /\ ret' = r2 /\ (trust = "neither" \/ right = "neither")
    <3>1. Rows(View, FALSE)' # <<>>
          /\ Rows(View, FALSE)'[Len(Rows(View, FALSE)')] = <<id, "N">>
      BY <2>6, <2>7
    <3>2. trust = "neither" \/ ~(block.cap # 0)
      BY <2>2, <2>7
    <3>3. Inbox!DeliverBlind(id)
      BY <1>10, <2>7, <3>1, <3>2 DEF Inbox!DeliverBlind
    <3> QED BY <3>3 DEF Inbox!Lost
  <2> QED BY <2>1, <2>7
<1> QED BY <1>13, <1>14, <1>15

\* A step that leaves the records nowhere is one of those that the inbox allows then.
LEMMA LostNext ==
  ASSUME BaseInv, [Next]_vars, trust' = "neither"
  PROVE  Inbox!Lost \/ UNCHANGED Seen
<1>1. ASSUME ~Overrun, NEW id \in Ids, Add(id) \/ ReadMessage(id) \/ DeleteMessage(id)
      PROVE  Inbox!Lost
  BY <1>1, LostAdd, LostRead, LostDelete
<1>2. ASSUME ~Overrun, NEW onlyNew \in BOOLEAN, GetIds(onlyNew) PROVE Inbox!Lost
  BY <1>2, LostList
<1>3. CASE GetCount
  <2>1. PICK b, total, new : Finish(b, <<>>, <<"count", total, new>>, "both")
    BY <1>3 DEF GetCount
  <2>2. PICK r : r = <<"count", total, new>>
    OBVIOUS
  <2>3. Inbox!Lost \/ (ret' = r /\ trust = "neither")
    BY <2>1, <2>2, CallOrCrash
  <2>4. r[1] = "count"
    BY <2>2
  <2> QED BY <2>3, <2>4 DEF Inbox!Lost, Inbox!LostCalls
<1>4. CASE CloseHandler
  <2>1. /\ block' = [block EXCEPT !.open = FALSE] /\ UNCHANGED <<store, ret, trust>>
    BY <1>4 DEF CloseHandler
  <2>2. /\ block'.cap = block.cap /\ block'.mem = block.mem
        /\ block'.loaded = block.loaded /\ block'.hdr = block.hdr
    BY <2>1 DEF BaseInv, GoodBlock
  <2>3. WithHeader(block').hdr = WithHeader(block).hdr
    <3>1. CASE block.loaded
      BY <2>2, <3>1 DEF WithHeader
    <3>2. CASE ~block.loaded
      <4>1. PICK o : o = block'
        OBVIOUS
      <4>2. /\ o = [hdr |-> o.hdr, loaded |-> o.loaded, open |-> o.open,
                    mem |-> o.mem, cap |-> o.cap]
            /\ block = [hdr |-> block.hdr, loaded |-> block.loaded, open |-> block.open,
                        mem |-> block.mem, cap |-> block.cap]
        BY <2>1, <4>1 DEF BaseInv, GoodBlock
      <4>3. WithHeader(o).hdr = store.hdr /\ WithHeader(block).hdr = store.hdr
        BY <2>1, <2>2, <3>2, <4>1, <4>2 DEF WithHeader, Opened
      <4>4. store'.hdr = store.hdr
        BY <2>1
      <4> QED BY <2>1, <4>1, <4>3
    <3> QED BY <3>1, <3>2
  <2>4. View' = View
    BY <2>1, <2>2, <2>3 DEF View, WithHeader
  <2> QED BY <2>1, <2>2, <2>4 DEF Seen
<1>5. CASE Drop
  <2>1. trust # "both" /\ ret' = ret /\ block'.cap = 0
    BY <1>5 DEF Drop, Fresh
  <2> QED BY <2>1 DEF Inbox!Lost, Inbox!DropUnwritten
<1>6. CASE UNCHANGED vars
  <2>1. block' = block /\ store' = store /\ ret' = ret /\ trust' = trust
    BY <1>6 DEF vars
  <2>2. View' = View
    BY <2>1 DEF View, WithHeader, Opened
  <2> QED BY <2>1, <2>2 DEF Seen
<1> QED BY <1>1, <1>2, <1>3, <1>4, <1>5, <1>6 DEF Next, Calls

-----------------------------------------------------------------------------
(* The theorems: of every history, with drops and reloads at any time, adds  *)
(* to records that are not loaded, texts that cannot be purged and, where    *)
(* the process may stop, crashes                                             *)

IndexInv == BaseInv /\ (trust # "neither" => InboxInv)

\* The invariant: what holds of every block, and while the records are somewhere the
\* header counts them, and the file is the buffer unless it was left behind.
THEOREM IndexInvariant == Spec => []IndexInv
<1>1. Init => IndexInv
  BY BaseInit, InboxInit DEF IndexInv
<1>2. IndexInv /\ [Next]_vars => IndexInv'
  <2> SUFFICES ASSUME IndexInv, [Next]_vars PROVE IndexInv'
    OBVIOUS
  <2>1. BaseInv'
    BY BaseNext DEF IndexInv
  <2>2. trust' # "neither" => InboxInv'
    BY TrustIsNotRegained, InboxNext DEF IndexInv
  <2> QED BY <2>1, <2>2 DEF IndexInv
<1> QED BY <1>1, <1>2, PTL DEF Spec

\* The counters stay unsigned int and the buffer holds what the header counts; a record
\* is written beyond the buffer only by an Add to records that are not loaded.
THEOREM IndexTypeCorrect == Spec => []TypeOK
<1>1. IndexInv => TypeOK
  <2> SUFFICES ASSUME IndexInv PROVE TypeOK
    OBVIOUS
  <2>1. BaseInv
    BY DEF IndexInv
  <2> QED BY <2>1 DEF BaseInv, GoodStore, GoodBlock, TypeOK
<1> QED BY <1>1, IndexInvariant, PTL

\* The counters are the numbers of records with each mark, until the records are lost.
THEOREM CountersNeverDrift == Spec => []CountersExact
<1>1. IndexInv => CountersExact
  <2>1. CASE trust = "neither"
    BY <2>1 DEF CountersExact
  <2>2. CASE trust # "neither"
    BY <2>2, MsgSafe DEF IndexInv, InboxInv
  <2> QED BY <2>1, <2>2
<1> QED BY <1>1, IndexInvariant, PTL

\* The file holds the records of the buffer, until a read or a compression.
THEOREM FileIsTheBuffer == Spec => []FileAgrees
<1>1. IndexInv => FileAgrees
  <2>1. CASE trust = "neither"
    BY <2>1 DEF FileAgrees
  <2>2. CASE trust # "neither"
    BY <2>2, MsgSafe DEF IndexInv, InboxInv
  <2> QED BY <2>1, <2>2
<1> QED BY <1>1, IndexInvariant, PTL

\* Whatever was dropped, compressed, overwritten or cut short by a crash, and whatever
\* fresh memory holds: a deleted message is read again only when its text could not be
\* purged and its record was lost besides.
THEOREM DeletedIsNeverRead == Spec => []DeletedStaysUnread
<1>1. IndexInv => DeletedStaysUnread
  <2> SUFFICES ASSUME IndexInv, NEW id \in deleted, Shown(id)
               PROVE  id \in unpurged /\ trust = "neither"
    BY DEF DeletedStaysUnread
  <2>1. ret[1] = "read" /\ ret[2] = id /\ ret[3] # "error"
    BY DEF Shown
  <2>2. id \in unpurged
    BY <2>1 DEF IndexInv, BaseInv
  <2>3. trust = "neither"
    BY <2>1 DEF IndexInv, InboxInv, ReadIsHeld
  <2> QED BY <2>2, <2>3
<1> QED BY <1>1, IndexInvariant, PTL

\* The index is the inbox that Mailbox describes: as long as its records are somewhere
\* every call answers as an inbox of MaxCount messages does, whatever was compressed,
\* dropped and read again; it loses them only by the steps that Mailbox names, and
\* answers then as Mailbox still promises.
THEOREM IndexIsInbox == Spec => ImplementsMailbox
<1>1. Init => Inbox!Init
  BY InboxInit
<1>2. IndexInv /\ [Next]_vars => [Inbox!Next]_Seen
  <2> SUFFICES ASSUME IndexInv, [Next]_vars PROVE Inbox!Next \/ UNCHANGED Seen
    OBVIOUS
  <2>1. CASE trust' = "neither"
    BY <2>1, LostNext DEF IndexInv, Inbox!Next
  <2>2. CASE trust' # "neither"
    BY <2>2, TrustIsNotRegained, InboxNext DEF IndexInv, Inbox!Next
  <2> QED BY <2>1, <2>2
<1> QED BY <1>1, <1>2, IndexInvariant, PTL DEF Spec, ImplementsMailbox, Inbox!Spec, Seen
=============================================================================
