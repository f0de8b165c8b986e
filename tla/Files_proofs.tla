---------------------------- MODULE Files_proofs ----------------------------
(***************************************************************************)
(* What is on the disk of the daemon: the storage and its keys, the        *)
(* configuration texts, and the accounts.  For any keys, owners, pins,     *)
(* texts, edits by hand, faults and stops.                                 *)
(***************************************************************************)
EXTENDS Repository, AccountFiles, NaturalsInduction, WellFoundedInduction, TLAPS

-----------------------------------------------------------------------------
(***************************************************************************)
(* Repository: an open storage works with one key.                         *)
(***************************************************************************)

StorageFields ==
  storage = [m_Status |-> storage.m_Status, m_Coder |-> storage.m_Coder,
             m_strKey |-> storage.m_strKey, m_arLetter |-> storage.m_arLetter,
             names |-> storage.names]

RepositoryInv == StorageFields /\ OpenHasOneKey

LEMMA RepositoryInitInv == RepositoryInit => RepositoryInv
BY DEF RepositoryInit, NewStorage, StatusOfRoot, RepositoryInv, StorageFields, OpenHasOneKey

\* A login starts from a status that is not Open, so that one that fails early leaves none.
LEMMA LoginStartsClosed ==
  ASSUME NEW file
  PROVE  LoginStatus(file) \in {"ReadyToOpen", "NotInit"}
BY DEF LoginStatus, StatusOfRoot

LEMMA LoginReadKeeps ==
  ASSUME RepositoryInv, NEW key, NEW file, LoginRead(key, file)
  PROVE  RepositoryInv'
<1> DEFINE right == IdDeciphers(m_Config', key)
           complete == right /\ GetValue(m_Config', "Blocks.Cache.Mem.KB") # {}
<1>1. /\ storage' = [m_Status |-> IF right THEN "Open" ELSE LoginStatus(file),
                     m_Coder |-> key, m_strKey |-> key,
                     m_arLetter |-> IF right THEN key ELSE storage.m_arLetter,
                     names |-> IF complete THEN key ELSE storage.names]
      /\ succeeded' = complete
  BY DEF LoginRead
<1>2. LoginStatus(file) # "Open"
  BY LoginStartsClosed
<1>3. complete => right
  OBVIOUS
<1>4. IdDeciphers(m_Config, storage.m_strKey)' = IdDeciphers(m_Config', storage'.m_strKey)
  BY DEF IdDeciphers
<1> HIDE DEF right, complete
<1>5. storage'.m_strKey = key /\ StorageFields'
  BY <1>1 DEF StorageFields
<1>6. right => storage'.m_arLetter = key
  BY <1>1
<1>7. storage'.m_Status = "Open" => right
  BY <1>1, <1>2
<1>8. complete => storage'.names = key
  BY <1>1
<1>9. right => IdDeciphers(m_Config, storage.m_strKey)'
  BY <1>4, <1>5 DEF right
<1>10. OpenHasOneKey'
  BY <1>1, <1>3, <1>5, <1>6, <1>7, <1>8, <1>9, Zenon DEF OpenHasOneKey
<1> QED BY <1>5, <1>10 DEF RepositoryInv

LEMMA LoginOnKeeps ==
  ASSUME RepositoryInv, NEW key, NEW file, LoginOn(key, file)
  PROVE  RepositoryInv'
<1>1. CASE LoginNotInit(file)
  BY <1>1 DEF LoginNotInit, RepositoryInv, StorageFields, OpenHasOneKey
<1>2. CASE LoginGone(key, file)
  BY <1>2 DEF LoginGone, RepositoryInv, StorageFields, OpenHasOneKey
<1> QED BY <1>1, <1>2, LoginReadKeeps DEF LoginOn

\* A login or an Init that failed before it changed the storage's keys.
LEMMA FailKeeps ==
  ASSUME RepositoryInv, ~succeeded',
         storage' = storage \/ \E key : storage' = [storage EXCEPT !.m_Coder = key]
  PROVE  RepositoryInv'
BY DEF RepositoryInv, StorageFields, OpenHasOneKey

LEMMA InitStorageKeeps ==
  ASSUME RepositoryInv, NEW key \in Keys, InitStorage(key)
  PROVE  RepositoryInv'
<1>1. CASE InitNotClean
  BY <1>1, FailKeeps DEF InitNotClean
<1>2. ASSUME NEW guid \in RepoGuids, InitStored(key, guid)
      PROVE  RepositoryInv'
  BY <1>2, LoginOnKeeps DEF InitStored
<1>3. ASSUME NEW guid \in RepoGuids, InitNotStored(key, guid)
      PROVE  RepositoryInv'
  BY <1>3, FailKeeps DEF InitNotStored
<1> QED BY <1>1, <1>2, <1>3 DEF InitStorage

LEMMA IdleKeeps ==
  ASSUME RepositoryInv, UNCHANGED <<storage, m_Config, succeeded>>
  PROVE  RepositoryInv'
BY DEF RepositoryInv, StorageFields, OpenHasOneKey, IdDeciphers

LEMMA RepositoryStep == RepositoryInv /\ [RepositoryNext]_repositoryVars => RepositoryInv'
<1> SUFFICES ASSUME RepositoryInv, [RepositoryNext]_repositoryVars PROVE RepositoryInv'
  OBVIOUS
<1>1. ASSUME NEW key \in Keys, Login(key)
      PROVE  RepositoryInv'
  BY <1>1, LoginOnKeeps DEF Login
<1>2. CASE EditByHand
  BY <1>2, IdleKeeps DEF EditByHand, Edit
<1>3. CASE Restart
  BY <1>3 DEF Restart, NewStorage, StatusOfRoot, RepositoryInv, StorageFields, OpenHasOneKey
<1>4. CASE UNCHANGED repositoryVars
  BY <1>4, IdleKeeps DEF repositoryVars
<1> QED BY <1>1, <1>2, <1>3, <1>4, InitStorageKeeps DEF RepositoryNext

\* An open storage has one key in every place that reads or writes with it, after any failed
\* Login or Init and any edit of the config file.
THEOREM OneKeyWhenOpen == RepositorySpec => []OpenHasOneKey
<1>1. RepositoryInv => OpenHasOneKey
  BY DEF RepositoryInv
<1> QED BY <1>1, RepositoryInitInv, RepositoryStep, PTL DEF RepositorySpec

-----------------------------------------------------------------------------
(***************************************************************************)
(* Config: what a text is read as, and what a configuration is written as. *)
(* A text is read line by line and written pair by pair; both are shown by *)
(* induction on the lines and the pairs.                                   *)
(***************************************************************************)

\* Induction on a set of numbers, by the least number outside it.
LEMMA NumbersClosed ==
  ASSUME NEW S, 0 \in S, \A n \in Nat : n \in S => n + 1 \in S
  PROVE  Nat \subseteq S
<1> SUFFICES ASSUME ~(Nat \subseteq S) PROVE FALSE
  OBVIOUS
<1> DEFINE T == {n \in Nat : n \notin S}
           R == OpToRel(<, Nat)
<1>1. T # {} /\ T \subseteq Nat
  OBVIOUS
<1>2. IsWellFoundedOn(R, Nat)
  BY NatLessThanWellFounded
<1>3. PICK n \in T : \A m \in T : ~(<<m, n>> \in R)
  <2> HIDE DEF T, R
  <2> QED BY <1>1, <1>2, WFMin
<1>4. \A m \in T : ~(m < n)
  BY <1>3 DEF OpToRel
<1>5. n \in Nat /\ n # 0
  OBVIOUS
<1>6. n - 1 \in Nat /\ n - 1 < n /\ (n - 1) + 1 = n
  BY <1>5
<1>7. n - 1 \in S
  BY <1>4, <1>6
<1> QED BY <1>6, <1>7

\* The largest number of a set below n is one of it.
LEMMA MaxIs ==
  ASSUME NEW n \in Nat, NEW s \in SUBSET (1..n), n \in s
  PROVE  Max(s) = n
<1>1. \A y \in s : n >= y
  OBVIOUS
<1>2. \A x \in s : (\A y \in s : x >= y) => x = n
  OBVIOUS
<1> QED BY <1>1, <1>2 DEF Max

-----------------------------------------------------------------------------
(* FromString reads line by line *)

\* What FromString starts from, and what the fold takes from the lines before.
Start == [config |-> NewConfig, strComments |-> <<>>]
NextRead(iter, text, s) == IF s = {} THEN Start ELSE TakeLine(iter[s \ {Max(s)}], text[Max(s)])

\* The function that FoldLeft chooses exists, up to any number of lines: without it the CHOOSE
\* would say nothing.
LEMMA ReadsExist ==
  ASSUME NEW text
  PROVE  \A n \in Nat : \E iter : iter = [s \in SUBSET (1..n) |-> NextRead(iter, text, s)]
<1> DEFINE S == {n \in Nat : \E iter : iter = [s \in SUBSET (1..n) |-> NextRead(iter, text, s)]}
<1>1. 0 \in S
  <2> DEFINE iter == [s \in SUBSET (1..0) |-> Start]
  <2>1. SUBSET (1..0) = {{}}
    OBVIOUS
  <2>2. iter = [s \in SUBSET (1..0) |-> NextRead(iter, text, s)]
    BY <2>1 DEF NextRead
  <2> QED BY <2>2
<1>2. ASSUME NEW n \in Nat, n \in S PROVE n + 1 \in S
  <2>1. PICK old : old = [s \in SUBSET (1..n) |-> NextRead(old, text, s)]
    BY <1>2
  <2> DEFINE Late(s) == TakeLine(old[s \ {n + 1}], text[n + 1])
             new == [s \in SUBSET (1..(n + 1)) |-> IF n + 1 \in s THEN Late(s) ELSE old[s]]
  <2>2. ASSUME NEW s \in SUBSET (1..(n + 1)) PROVE new[s] = NextRead(new, text, s)
    <3>1. CASE n + 1 \in s
      <4>1. s # {} /\ Max(s) = n + 1
        BY <3>1, MaxIs
      <4>2. s \ {n + 1} \in SUBSET (1..n) /\ s \ {n + 1} \in SUBSET (1..(n + 1)) /\ n + 1 \notin s \ {n + 1}
        BY <3>1
      <4>3. new[s \ {n + 1}] = old[s \ {n + 1}]
        BY <4>2
      <4>4. new[s] = Late(s)
        BY <3>1
      <4> HIDE DEF new
      <4> QED BY <4>1, <4>3, <4>4 DEF NextRead
    <3>2. CASE n + 1 \notin s
      <4>1. s \in SUBSET (1..n)
        BY <3>2
      <4>2. new[s] = old[s] /\ old[s] = NextRead(old, text, s)
        BY <2>1, <3>2, <4>1
      <4>3. CASE s = {}
        BY <4>2, <4>3 DEF NextRead
      <4>4. CASE s # {}
        <5> DEFINE r == s \ {Max(s)}
        <5>1. r \in SUBSET (1..n) /\ r \in SUBSET (1..(n + 1)) /\ n + 1 \notin r
          <6>1. r \subseteq s
            OBVIOUS
          <6>2. s \subseteq 1..n /\ s \subseteq 1..(n + 1) /\ n + 1 \notin s
            BY <3>2, <4>1
          <6> HIDE DEF r
          <6> QED BY <6>1, <6>2
        <5>2. new[r] = old[r]
          BY <5>1
        <5> HIDE DEF new
        <5> QED BY <4>2, <4>4, <5>2 DEF NextRead
      <4> QED BY <4>3, <4>4
    <3> QED BY <3>1, <3>2
  <2>3. new = [s \in SUBSET (1..(n + 1)) |-> new[s]]
    OBVIOUS
  <2> HIDE DEF new
  <2>4. new = [s \in SUBSET (1..(n + 1)) |-> NextRead(new, text, s)]
    BY <2>2, <2>3
  <2> QED BY <2>4
<1> QED
  <2> HIDE DEF S
  <2>1. Nat \subseteq S
    BY <1>1, <1>2, NumbersClosed
  <2> QED BY <2>1 DEF S

\* What is read before each line and after the last.
LEMMA ReadLineByLine ==
  ASSUME NEW text, NEW n \in Nat, DOMAIN text = 1..n
  PROVE  \E read : /\ read[0] = Start
                   /\ \A k \in 1..n : read[k] = TakeLine(read[k - 1], text[k])
                   /\ FromString(text) = read[n].config
<1> DEFINE iter == CHOOSE i : i = [s \in SUBSET (1..n) |-> NextRead(i, text, s)]
           read == [k \in 0..n |-> iter[1..k]]
<1>1. iter = [s \in SUBSET (1..n) |-> NextRead(iter, text, s)]
  BY ReadsExist
<1>2. FromString(text) = iter[1..n].config
  <2>1. FromString(text) =
          (CHOOSE i : i = [s \in SUBSET (DOMAIN text) |->
             IF s = {} THEN Start ELSE TakeLine(i[s \ {Max(s)}], text[Max(s)])])[DOMAIN text].config
    BY DEF FoldLeft, MapThenFoldSet, FromString, Start
  <2> QED BY <2>1 DEF NextRead
<1> HIDE DEF iter
<1>3. iter[1..0] = Start
  <2>1. 1..0 = {} /\ {} \in SUBSET (1..n)
    OBVIOUS
  <2> QED BY <1>1, <2>1 DEF NextRead
<1>4. ASSUME NEW k \in 1..n PROVE iter[1..k] = TakeLine(iter[1..(k - 1)], text[k])
  <2>1. /\ 1..k \in SUBSET (1..n) /\ 1..k \in SUBSET (1..k) /\ k \in 1..k /\ 1..k # {} /\ k \in Nat
        /\ (1..k) \ {k} = 1..(k - 1)
    OBVIOUS
  <2>2. Max(1..k) = k
    BY <2>1, MaxIs
  <2> QED BY <1>1, <2>1, <2>2 DEF NextRead
<1>5. read[0] = Start /\ read[n].config = FromString(text)
  BY <1>2, <1>3
<1>6. \A k \in 1..n : read[k] = TakeLine(read[k - 1], text[k])
  BY <1>4
<1> QED BY <1>5, <1>6

-----------------------------------------------------------------------------
(* What is in a config that was read *)

\* A line that becomes a pair.
Effective(line) == SplitPair(line) /\ {Trimmed(line[1]), Trimmed(line[2])} \cap LongTexts = {}
PairOn(line) == <<Trimmed(line[1]), Trimmed(line[2])>>

\* The pairs of config are of P, the lines of its comments of M.
Made(config, P, M) ==
  /\ config = [m_mValues |-> config.m_mValues, m_mComments |-> config.m_mComments]
  /\ config.m_mValues \in Seq(P)
  /\ \A name \in DOMAIN config.m_mComments : config.m_mComments[name] \in Seq(M)

ReadMade(read, P, M) ==
  /\ read = [config |-> read.config, strComments |-> read.strComments]
  /\ Made(read.config, P, M) /\ read.strComments \in Seq(M)

\* A pair stands in a config.
Holds(config, pair) == \E k \in DOMAIN config.m_mValues : config.m_mValues[k] = pair

\* The comments that a pair gets are lines that were read.
LEMMA InsertedMade ==
  ASSUME NEW M, NEW comments, NEW name, NEW lines \in Seq(M),
         \A m \in DOMAIN comments : comments[m] \in Seq(M)
  PROVE  \A m \in DOMAIN InsertComments(comments, name, lines) :
           InsertComments(comments, name, lines)[m] \in Seq(M)
BY DEF InsertComments

\* One line, read after any others: its pair is added when it makes one, and none is lost.
LEMMA LineTaken ==
  ASSUME NEW P, NEW M, NEW read, NEW line, ReadMade(read, P, M),
         Effective(line) => PairOn(line) \in P, ~SplitPair(line) => line \in M
  PROVE  /\ ReadMade(TakeLine(read, line), P, M)
         /\ Effective(line) => Holds(TakeLine(read, line).config, PairOn(line))
         /\ \A pair : Holds(read.config, pair) => Holds(TakeLine(read, line).config, pair)
<1> DEFINE next == TakeLine(read, line)
<1>1. CASE ~SplitPair(line)
  <2>1. next = [read EXCEPT !.strComments = Append(@, line)]
    BY <1>1 DEF TakeLine
  <2>2. /\ next.config = read.config /\ next.strComments = Append(read.strComments, line)
        /\ next = [config |-> next.config, strComments |-> next.strComments]
    BY <2>1 DEF ReadMade
  <2>3. Append(read.strComments, line) \in Seq(M)
    BY <1>1 DEF ReadMade
  <2> HIDE DEF next
  <2> QED BY <1>1, <2>2, <2>3 DEF ReadMade, Effective, Holds, next
<1>2. CASE SplitPair(line) /\ ~Effective(line)
  <2>1. next = [read EXCEPT !.strComments = <<>>]
    BY <1>2 DEF TakeLine, Effective
  <2>2. /\ next.config = read.config /\ next.strComments = <<>>
        /\ next = [config |-> next.config, strComments |-> next.strComments]
    BY <2>1 DEF ReadMade
  <2> HIDE DEF next
  <2> QED BY <1>2, <2>2 DEF ReadMade, Holds, next
<1>3. CASE Effective(line)
  <2> DEFINE values == Append(read.config.m_mValues, PairOn(line))
             comments == InsertComments(read.config.m_mComments, Trimmed(line[1]), read.strComments)
  <2>1. next = [config |-> [m_mValues |-> values, m_mComments |-> comments], strComments |-> <<>>]
    BY <1>3 DEF TakeLine, Effective, PairOn
  <2>2. \A m \in DOMAIN comments : comments[m] \in Seq(M)
    BY InsertedMade DEF ReadMade, Made
  <2>3. read.config.m_mValues \in Seq(P) /\ PairOn(line) \in P
    BY <1>3 DEF ReadMade, Made
  <2>4. /\ values \in Seq(P) /\ Len(values) = Len(read.config.m_mValues) + 1
        /\ values[Len(values)] = PairOn(line)
        /\ \A k \in DOMAIN read.config.m_mValues : k \in DOMAIN values /\ values[k] = read.config.m_mValues[k]
        /\ Len(values) \in DOMAIN values
    <3> HIDE DEF comments
    <3> QED BY <2>3
  <2> HIDE DEF values, comments
  <2>5. /\ next.config.m_mValues = values /\ next.config.m_mComments = comments
        /\ next.strComments = <<>>
        /\ next.config = [m_mValues |-> values, m_mComments |-> comments]
    BY <2>1
  <2>6. ReadMade(next, P, M)
    <3>1. Made(next.config, P, M)
      BY <2>2, <2>4, <2>5 DEF Made
    <3> QED BY <2>1, <2>5, <3>1 DEF ReadMade
  <2> HIDE DEF next
  <2>7. Holds(next.config, PairOn(line))
    BY <2>4, <2>5 DEF Holds
  <2>8. ASSUME NEW pair, Holds(read.config, pair) PROVE Holds(next.config, pair)
    BY <2>4, <2>5, <2>8 DEF Holds
  <2> QED BY <2>6, <2>7, <2>8 DEF next
<1> QED BY <1>1, <1>2, <1>3 DEF Effective

\* The config that reading starts from.
LEMMA NewConfigMade ==
  ASSUME NEW P, NEW M
  PROVE  Made(NewConfig, P, M)
<1> DEFINE none == [name \in {} |-> <<>>]
<1>1. DOMAIN none = {}
  OBVIOUS
<1> HIDE DEF none
<1>2. NewConfig = [m_mValues |-> <<>>, m_mComments |-> none]
  BY DEF NewConfig, none
<1>3. <<>> \in Seq(P)
  OBVIOUS
<1> QED BY <1>1, <1>2, <1>3 DEF Made

\* A text makes pairs of its effective lines, all of them, and comments of lines that are no
\* pairs.
LEMMA TextRead ==
  ASSUME NEW P, NEW M, NEW text, NEW n \in Nat, DOMAIN text = 1..n,
         \A i \in 1..n : /\ Effective(text[i]) => PairOn(text[i]) \in P
                         /\ ~SplitPair(text[i]) => text[i] \in M
  PROVE  /\ Made(FromString(text), P, M)
         /\ \A i \in 1..n : Effective(text[i]) => Holds(FromString(text), PairOn(text[i]))
<1>1. PICK read : /\ read[0] = Start
                  /\ \A k \in 1..n : read[k] = TakeLine(read[k - 1], text[k])
                  /\ FromString(text) = read[n].config
  BY ReadLineByLine
<1> DEFINE S == {k \in Nat : k <= n =>
                   /\ ReadMade(read[k], P, M)
                   /\ \A i \in 1..k : Effective(text[i]) => Holds(read[k].config, PairOn(text[i]))}
<1>2. 0 \in S
  <2>1. ReadMade(Start, P, M)
    BY NewConfigMade DEF Start, ReadMade
  <2> QED BY <1>1, <2>1
<1>3. ASSUME NEW k \in Nat, k \in S PROVE k + 1 \in S
  <2> SUFFICES ASSUME k + 1 <= n
               PROVE  /\ ReadMade(read[k + 1], P, M)
                      /\ \A i \in 1..(k + 1) :
                           Effective(text[i]) => Holds(read[k + 1].config, PairOn(text[i]))
    OBVIOUS
  <2>1. /\ ReadMade(read[k], P, M)
        /\ \A i \in 1..k : Effective(text[i]) => Holds(read[k].config, PairOn(text[i]))
    BY <1>3
  <2>2. k + 1 \in 1..n /\ (k + 1) - 1 = k
    OBVIOUS
  <2>3. read[k + 1] = TakeLine(read[k], text[k + 1])
    BY <1>1, <2>2
  <2>4. /\ ReadMade(read[k + 1], P, M)
        /\ Effective(text[k + 1]) => Holds(read[k + 1].config, PairOn(text[k + 1]))
        /\ \A pair : Holds(read[k].config, pair) => Holds(read[k + 1].config, pair)
    BY <2>1, <2>2, <2>3, LineTaken
  <2>5. ASSUME NEW i \in 1..(k + 1), Effective(text[i])
        PROVE  Holds(read[k + 1].config, PairOn(text[i]))
    <3>1. i \in 1..k \/ i = k + 1
      OBVIOUS
    <3> QED BY <2>1, <2>4, <2>5, <3>1
  <2> QED BY <2>4, <2>5
<1>4. n \in S
  <2> HIDE DEF S
  <2> QED BY <1>2, <1>3, NumbersClosed
<1> QED BY <1>1, <1>4 DEF ReadMade

-----------------------------------------------------------------------------
(* What is in a text that was written *)

\* What the function of FlattenSeq takes from the sequences before.
NextFlat(f, seqs, i) == IF i = 1 THEN seqs[i] ELSE f[i - 1] \o seqs[i]

\* The function that FlattenSeq chooses exists.
LEMMA FlatExists ==
  ASSUME NEW seqs
  PROVE  \A n \in Nat : \E f : f = [i \in 1..n |-> NextFlat(f, seqs, i)]
<1> DEFINE S == {n \in Nat : \E f : f = [i \in 1..n |-> NextFlat(f, seqs, i)]}
<1>1. 0 \in S
  <2> DEFINE f == [i \in 1..0 |-> <<>>]
  <2>1. f = [i \in 1..0 |-> NextFlat(f, seqs, i)]
    BY 1..0 = {}
  <2> QED BY <2>1
<1>2. ASSUME NEW n \in Nat, n \in S PROVE n + 1 \in S
  <2>1. PICK old : old = [i \in 1..n |-> NextFlat(old, seqs, i)]
    BY <1>2
  <2> DEFINE new == [i \in 1..(n + 1) |-> IF i = n + 1 THEN NextFlat(old, seqs, i) ELSE old[i]]
  <2>2. ASSUME NEW i \in 1..(n + 1) PROVE new[i] = NextFlat(new, seqs, i)
    <3>1. CASE i = 1
      <4>1. new[i] = NextFlat(old, seqs, i)
        BY <2>1
      <4> QED BY <3>1, <4>1 DEF NextFlat
    <3>2. CASE i # 1
      <4>1. i - 1 \in 1..n /\ i - 1 \in 1..(n + 1) /\ i - 1 # n + 1
        BY <3>2
      <4>2. new[i - 1] = old[i - 1]
        BY <4>1
      <4>3. new[i] = NextFlat(old, seqs, i)
        BY <2>1
      <4> HIDE DEF new
      <4> QED BY <3>2, <4>2, <4>3 DEF NextFlat
    <3> QED BY <3>1, <3>2
  <2>3. new = [i \in 1..(n + 1) |-> new[i]]
    OBVIOUS
  <2> HIDE DEF new
  <2>4. new = [i \in 1..(n + 1) |-> NextFlat(new, seqs, i)]
    BY <2>2, <2>3
  <2> QED BY <2>4
<1> QED
  <2> HIDE DEF S
  <2>1. Nat \subseteq S
    BY <1>1, <1>2, NumbersClosed
  <2> QED BY <2>1 DEF S

\* Every line of the sequence is in the flat one.
\* Every line of one text stands in another.
Covers(flat, seq) == \A j \in 1..Len(seq) : \E i \in 1..Len(flat) : flat[i] = seq[j]

\* What stands in one of two texts stands in both together.
LEMMA ConcatCovers ==
  ASSUME NEW L, NEW a \in Seq(L), NEW b \in Seq(L)
  PROVE  /\ a \o b \in Seq(L) /\ Covers(a \o b, b)
         /\ \A seq : Covers(a, seq) => Covers(a \o b, seq)
<1>1. /\ a \o b \in Seq(L) /\ Len(a \o b) = Len(a) + Len(b)
      /\ \A i \in 1..Len(a) : (a \o b)[i] = a[i]
      /\ \A j \in 1..Len(b) : (a \o b)[Len(a) + j] = b[j]
      /\ Len(a) \in Nat /\ Len(b) \in Nat
  OBVIOUS
<1> DEFINE c == a \o b
<1> HIDE DEF c
<1>2. ASSUME NEW j \in 1..Len(b) PROVE \E i \in 1..Len(c) : c[i] = b[j]
  <2>1. Len(a) + j \in 1..Len(c) /\ c[Len(a) + j] = b[j]
    BY <1>1 DEF c
  <2> QED BY <2>1
<1>3. ASSUME NEW seq, Covers(a, seq), NEW j \in 1..Len(seq) PROVE \E i \in 1..Len(c) : c[i] = seq[j]
  <2>1. PICK i \in 1..Len(a) : a[i] = seq[j]
    BY <1>3 DEF Covers
  <2>2. i \in 1..Len(c) /\ c[i] = seq[j]
    BY <1>1, <2>1 DEF c
  <2> QED BY <2>2
<1> QED BY <1>1, <1>2, <1>3 DEF Covers, c

\* FlattenSeq puts the sequences one behind the other.
LEMMA FlatStepByStep ==
  ASSUME NEW seqs, NEW n \in Nat \ {0}, n = Len(seqs)
  PROVE  \E f : /\ f[1] = seqs[1]
                /\ \A k \in 1..(n - 1) : f[k + 1] = f[k] \o seqs[k + 1]
                /\ FlattenSeq(seqs) = f[n]
<1> DEFINE f == CHOOSE g : g = [i \in 1..n |-> NextFlat(g, seqs, i)]
<1>1. FlattenSeq(seqs) = f[n]
  <2>1. FlattenSeq(seqs) =
          (CHOOSE g : g = [i \in 1..Len(seqs) |-> IF i = 1 THEN seqs[i] ELSE g[i - 1] \o seqs[i]])[Len(seqs)]
    BY DEF FlattenSeq
  <2> QED BY <2>1 DEF NextFlat
<1>2. f = [i \in 1..n |-> NextFlat(f, seqs, i)]
  BY FlatExists
<1> HIDE DEF f
<1>3. \A k \in 1..n : f[k] = NextFlat(f, seqs, k)
  BY <1>2
<1>4. f[1] = seqs[1]
  BY <1>3 DEF NextFlat
<1>5. ASSUME NEW k \in 1..(n - 1) PROVE f[k + 1] = f[k] \o seqs[k + 1]
  <2>1. k + 1 \in 1..n /\ k + 1 # 1 /\ (k + 1) - 1 = k
    OBVIOUS
  <2> QED BY <1>3, <2>1 DEF NextFlat
<1> QED BY <1>1, <1>4, <1>5

\* The lines of the sequences, and no others, are in the flat one.
LEMMA FlatHas ==
  ASSUME NEW L, NEW seqs \in Seq(Seq(L))
  PROVE  /\ FlattenSeq(seqs) \in Seq(L)
         /\ \A k \in 1..Len(seqs) : Covers(FlattenSeq(seqs), seqs[k])
<1>1. CASE Len(seqs) = 0
  <2>1. seqs = <<>> /\ 1..Len(seqs) = {} /\ <<>> \in Seq(L)
    BY <1>1
  <2>2. FlattenSeq(seqs) = seqs
    BY <1>1 DEF FlattenSeq
  <2> QED BY <2>1, <2>2
<1>2. CASE Len(seqs) # 0
  <2>1. PICK n \in Nat \ {0} : n = Len(seqs) /\ \A k \in 1..n : seqs[k] \in Seq(L)
    BY <1>2
  <2>2. PICK f : /\ f[1] = seqs[1]
                 /\ \A k \in 1..(n - 1) : f[k + 1] = f[k] \o seqs[k + 1]
                 /\ FlattenSeq(seqs) = f[n]
    BY <2>1, FlatStepByStep
  <2> DEFINE Flat(k) == f[k] \in Seq(L) /\ \A m \in 1..k : Covers(f[k], seqs[m])
             S == {k \in Nat : k + 1 <= n => Flat(k + 1)}
  <2>3. 0 \in S
    <3>1. f[1] \in Seq(L) /\ Covers(f[1], seqs[1])
      BY <2>1, <2>2 DEF Covers
    <3> QED BY <3>1
  <2>4. ASSUME NEW k \in Nat, k \in S PROVE k + 1 \in S
    <3> SUFFICES ASSUME (k + 1) + 1 <= n PROVE Flat((k + 1) + 1)
      OBVIOUS
    <3>1. PICK j \in 1..(n - 1) : j = k + 1
      BY <2>1
    <3>2. Flat(j)
      BY <2>4, <3>1
    <3>3. f[j] \in Seq(L) /\ seqs[j + 1] \in Seq(L) /\ f[j + 1] = f[j] \o seqs[j + 1]
      <4>1. j + 1 \in 1..n
        OBVIOUS
      <4> QED BY <2>1, <2>2, <3>2, <4>1
    <3>4. /\ f[j] \o seqs[j + 1] \in Seq(L) /\ Covers(f[j] \o seqs[j + 1], seqs[j + 1])
          /\ \A seq : Covers(f[j], seq) => Covers(f[j] \o seqs[j + 1], seq)
      <4> HIDE DEF Flat, S
      <4> QED BY <3>3, ConcatCovers
    <3>5. \A m \in 1..(j + 1) : m \in 1..j \/ m = j + 1
      OBVIOUS
    <3> QED BY <3>1, <3>2, <3>3, <3>4, <3>5
  <2>5. n - 1 \in S /\ (n - 1) + 1 = n
    <3>1. n - 1 \in Nat /\ (n - 1) + 1 = n
      OBVIOUS
    <3> HIDE DEF S
    <3> QED BY <2>3, <2>4, <3>1, NumbersClosed
  <2> QED BY <2>1, <2>2, <2>5
<1> QED BY <1>1, <1>2

\* Two effective lines have different names.
UniqueLines(text) ==
  \A i, k \in 1..Len(text) :
    Effective(text[i]) /\ Effective(text[k]) /\ PairOn(text[i])[1] = PairOn(text[k])[1] => i = k

\* No effective line of the one has the name of a line of the other.
Apart(a, b) ==
  \A i \in 1..Len(a), k \in 1..Len(b) :
    Effective(a[i]) /\ Effective(b[k]) => PairOn(a[i])[1] # PairOn(b[k])[1]

\* Two texts that share no name, with a line for each name, make one with a line for each name.
LEMMA ConcatUnique ==
  ASSUME NEW L, NEW a \in Seq(L), NEW b \in Seq(L), UniqueLines(a), UniqueLines(b), Apart(a, b)
  PROVE  /\ a \o b \in Seq(L) /\ UniqueLines(a \o b)
         /\ \A c : Apart(a, c) /\ Apart(b, c) => Apart(a \o b, c)
<1>1. PICK ab : ab = a \o b
  OBVIOUS
<1>2. PICK m \in Nat, n \in Nat : m = Len(a) /\ n = Len(b)
  OBVIOUS
<1>3. /\ ab \in Seq(L) /\ Len(ab) = m + n
      /\ \A i \in 1..m : ab[i] = a[i]
      /\ \A k \in (m + 1)..(m + n) : ab[k] = b[k - m] /\ k - m \in 1..n
  BY <1>1, <1>2
<1>4. \A i \in 1..(m + n) : i \in 1..m \/ i \in (m + 1)..(m + n)
  BY <1>2
<1>5. UniqueLines(ab)
  <2> SUFFICES ASSUME NEW i \in 1..(m + n), NEW k \in 1..(m + n),
                      Effective(ab[i]), Effective(ab[k]), PairOn(ab[i])[1] = PairOn(ab[k])[1]
               PROVE  i = k
    BY <1>3 DEF UniqueLines
  <2>1. CASE i \in 1..m /\ k \in 1..m
    BY <1>2, <1>3, <2>1 DEF UniqueLines
  <2>2. CASE i \in 1..m /\ k \in (m + 1)..(m + n)
    <3>1. ab[i] = a[i] /\ ab[k] = b[k - m] /\ k - m \in 1..n
      BY <1>3, <2>2
    <3> QED BY <1>2, <2>2, <3>1 DEF Apart
  <2>3. CASE k \in 1..m /\ i \in (m + 1)..(m + n)
    <3>1. ab[k] = a[k] /\ ab[i] = b[i - m] /\ i - m \in 1..n
      BY <1>3, <2>3
    <3> QED BY <1>2, <2>3, <3>1 DEF Apart
  <2>4. CASE i \in (m + 1)..(m + n) /\ k \in (m + 1)..(m + n)
    <3>1. ab[k] = b[k - m] /\ k - m \in 1..n /\ ab[i] = b[i - m] /\ i - m \in 1..n
      BY <1>3, <2>4
    <3>2. i - m = k - m
      BY <1>2, <3>1 DEF UniqueLines
    <3> QED BY <2>4, <3>2
  <2> QED BY <1>4, <2>1, <2>2, <2>3, <2>4
<1>6. ASSUME NEW c, Apart(a, c), Apart(b, c) PROVE Apart(ab, c)
  <2> SUFFICES ASSUME NEW i \in 1..(m + n), NEW k \in 1..Len(c), Effective(ab[i]), Effective(c[k])
               PROVE  PairOn(ab[i])[1] # PairOn(c[k])[1]
    BY <1>3 DEF Apart
  <2>1. CASE i \in 1..m
    <3>1. ab[i] = a[i]
      BY <1>3, <2>1
    <3> QED BY <1>2, <1>6, <2>1, <3>1 DEF Apart
  <2>2. CASE i \in (m + 1)..(m + n)
    <3>1. ab[i] = b[i - m] /\ i - m \in 1..n
      BY <1>3, <2>2
    <3> QED BY <1>2, <1>6, <3>1 DEF Apart
  <2> QED BY <1>4, <2>1, <2>2
<1> QED BY <1>1, <1>3, <1>5, <1>6

\* So do any number of texts.
LEMMA FlatUnique ==
  ASSUME NEW L, NEW seqs \in Seq(Seq(L)),
         \A k \in 1..Len(seqs) : UniqueLines(seqs[k]),
         \A k, m \in 1..Len(seqs) : k < m => Apart(seqs[k], seqs[m])
  PROVE  UniqueLines(FlattenSeq(seqs))
<1>1. CASE Len(seqs) = 0
  <2>1. FlattenSeq(seqs) = seqs /\ 1..Len(seqs) = {}
    BY <1>1 DEF FlattenSeq
  <2> QED BY <2>1 DEF UniqueLines
<1>2. CASE Len(seqs) # 0
  <2>1. PICK n \in Nat \ {0} : n = Len(seqs) /\ \A k \in 1..n : seqs[k] \in Seq(L)
    BY <1>2
  <2>2. PICK f : /\ f[1] = seqs[1]
                 /\ \A k \in 1..(n - 1) : f[k + 1] = f[k] \o seqs[k + 1]
                 /\ FlattenSeq(seqs) = f[n]
    BY <2>1, FlatStepByStep
  <2> DEFINE Flat(k) == /\ f[k] \in Seq(L) /\ UniqueLines(f[k])
                        /\ \A m \in (k + 1)..n : Apart(f[k], seqs[m])
             S == {k \in Nat : k + 1 <= n => Flat(k + 1)}
  <2>3. 0 \in S
    <3>1. f[1] \in Seq(L) /\ UniqueLines(f[1])
      BY <2>1, <2>2
    <3>2. ASSUME NEW m \in 2..n PROVE Apart(f[1], seqs[m])
      BY <2>1, <2>2
    <3> QED BY <3>1, <3>2
  <2>4. ASSUME NEW k \in Nat, k \in S PROVE k + 1 \in S
    <3> SUFFICES ASSUME (k + 1) + 1 <= n PROVE Flat((k + 1) + 1)
      OBVIOUS
    <3>1. PICK j \in 1..(n - 1) : j = k + 1
      BY <2>1
    <3>2. Flat(j)
      BY <2>4, <3>1
    <3>3. /\ f[j] \in Seq(L) /\ seqs[j + 1] \in Seq(L) /\ f[j + 1] = f[j] \o seqs[j + 1]
          /\ UniqueLines(f[j]) /\ UniqueLines(seqs[j + 1]) /\ Apart(f[j], seqs[j + 1])
      <4>1. j + 1 \in 1..n /\ j + 1 \in (j + 1)..n
        OBVIOUS
      <4> QED BY <2>1, <2>2, <3>2, <4>1
    <3>4. /\ f[j + 1] \in Seq(L) /\ UniqueLines(f[j + 1])
          /\ \A c : Apart(f[j], c) /\ Apart(seqs[j + 1], c) => Apart(f[j + 1], c)
      <4> HIDE DEF Flat, S
      <4>1. /\ f[j] \o seqs[j + 1] \in Seq(L) /\ UniqueLines(f[j] \o seqs[j + 1])
            /\ \A c : Apart(f[j], c) /\ Apart(seqs[j + 1], c) => Apart(f[j] \o seqs[j + 1], c)
        BY <3>3, ConcatUnique
      <4> QED BY <3>3, <4>1
    <3>5. ASSUME NEW m \in ((j + 1) + 1)..n PROVE Apart(f[j + 1], seqs[m])
      <4>1. m \in (j + 1)..n /\ j + 1 \in 1..Len(seqs) /\ m \in 1..Len(seqs) /\ j + 1 < m
        BY <2>1
      <4>2. Apart(f[j], seqs[m]) /\ Apart(seqs[j + 1], seqs[m])
        BY <3>2, <4>1
      <4> QED BY <3>4, <4>2
    <3> QED BY <3>1, <3>4, <3>5
  <2>5. n - 1 \in S /\ (n - 1) + 1 = n
    <3>1. n - 1 \in Nat /\ (n - 1) + 1 = n
      OBVIOUS
    <3> HIDE DEF S
    <3> QED BY <2>3, <2>4, <3>1, NumbersClosed
  <2> QED BY <2>2, <2>5
<1> QED BY <1>1, <1>2

\* A line stands in a text.
Stands(text, line) == \E i \in 1..Len(text) : text[i] = line

\* ToString writes the pairs of a config, comments and empty lines, and leaves out no pair.
LEMMA ConfigWritten ==
  ASSUME NEW P, NEW M, NEW config, Made(config, P, M), EmptyLine \in M
  PROVE  /\ IntoString(config) \in Seq(P \cup M)
         /\ \A pair : Holds(config, pair) => Stands(IntoString(config), pair)
<1> DEFINE values == config.m_mValues
           part(i) == CommentsOf(config, values[i][1]) \o <<values[i], EmptyLine>>
           parts == [i \in DOMAIN values |-> part(i)]
<1>1. IntoString(config) = FlattenSeq(parts)
  BY DEF IntoString
<1>2. values \in Seq(P) /\ DOMAIN values = 1..Len(values)
  BY DEF Made
<1>3. ASSUME NEW i \in DOMAIN values
      PROVE  /\ part(i) \in Seq(P \cup M)
             /\ \E j \in 1..Len(part(i)) : part(i)[j] = values[i]
  <2> DEFINE comments == CommentsOf(config, values[i][1])
  <2>1. comments \in Seq(P \cup M)
    <3>1. comments \in Seq(M)
      BY DEF CommentsOf, Made
    <3> HIDE DEF comments
    <3> QED BY <3>1
  <2>2. values[i] \in P
    BY <1>2, <1>3
  <2> HIDE DEF comments, values
  <2>3. comments \o <<values[i], EmptyLine>> \in Seq(P \cup M)
    BY <2>1, <2>2
  <2>4. /\ Len(comments) + 1 \in 1..Len(comments \o <<values[i], EmptyLine>>)
        /\ (comments \o <<values[i], EmptyLine>>)[Len(comments) + 1] = values[i]
    BY <2>1
  <2> QED BY <2>3, <2>4 DEF comments
<1> HIDE DEF values, part
<1>4. parts \in Seq(Seq(P \cup M)) /\ Len(parts) = Len(values) /\ DOMAIN values = 1..Len(parts)
  BY <1>2, <1>3
<1>5. ASSUME NEW pair, Holds(config, pair)
      PROVE  \E i \in 1..Len(FlattenSeq(parts)) : FlattenSeq(parts)[i] = pair
  <2>1. PICK k \in DOMAIN values : values[k] = pair
    BY <1>5 DEF Holds, values
  <2>2. PICK j \in 1..Len(part(k)) : part(k)[j] = values[k]
    BY <1>3
  <2>3. parts[k] = part(k) /\ k \in 1..Len(parts)
    BY <1>4
  <2>4. Covers(FlattenSeq(parts), parts[k])
    BY <1>4, <2>3, FlatHas
  <2> QED BY <2>1, <2>2, <2>3, <2>4 DEF Covers
<1>6. FlattenSeq(parts) \in Seq(P \cup M)
  BY <1>4, FlatHas
<1> QED BY <1>1, <1>5, <1>6 DEF Stands

-----------------------------------------------------------------------------
(* GetValue and SetValue *)

\* A set of numbers has a least one.
LEMMA LeastNumber ==
  ASSUME NEW T \in SUBSET Nat, T # {}
  PROVE  \E n \in T : \A m \in T : n <= m
<1> DEFINE R == OpToRel(<, Nat)
<1>1. IsWellFoundedOn(R, Nat)
  BY NatLessThanWellFounded
<1>2. PICK n \in T : \A m \in T : ~(<<m, n>> \in R)
  <2> HIDE DEF R
  <2> QED BY <1>1, WFMin
<1>3. \A m \in T : ~(m < n)
  BY <1>2 DEF OpToRel
<1> QED BY <1>3

\* A name is found at its first place, or it has none.
LEMMA FirstPlaceIs ==
  ASSUME NEW P, NEW M, NEW config, Made(config, P, M), NEW name
  PROVE  \/ /\ \A k \in DOMAIN config.m_mValues : config.m_mValues[k][1] # name
            /\ FirstPlace(config, name) = {}
         \/ \E n \in DOMAIN config.m_mValues :
              config.m_mValues[n][1] = name /\ FirstPlace(config, name) = {n}
<1> DEFINE values == config.m_mValues
           T == {k \in DOMAIN values : values[k][1] = name}
<1>1. values \in Seq(P)
  BY DEF Made
<1> HIDE DEF values
<1>2. PICK len \in Nat : DOMAIN values = 1..len
  BY <1>1
<1>3. FirstPlace(config, name) =
        {i \in DOMAIN values : values[i][1] = name /\ \A k \in 1..(i - 1) : values[k][1] # name}
  BY DEF FirstPlace, values
<1>4. CASE T = {}
  BY <1>3, <1>4 DEF values
<1>5. CASE T # {}
  <2>1. T \in SUBSET Nat
    BY <1>2
  <2>2. PICK n \in T : \A m \in T : n <= m
    <3> HIDE DEF T
    <3> QED BY <1>5, <2>1, LeastNumber
  <2>3. n \in 1..len /\ values[n][1] = name
    BY <1>2
  <2>4. \A k \in 1..(n - 1) : values[k][1] # name
    <3> SUFFICES ASSUME NEW k \in 1..(n - 1), values[k][1] = name PROVE FALSE
      OBVIOUS
    <3>1. k \in T
      BY <1>2, <2>3
    <3> QED BY <2>2, <2>3, <3>1
  <2>5. ASSUME NEW i \in DOMAIN values, values[i][1] = name, \A k \in 1..(i - 1) : values[k][1] # name
        PROVE  i = n
    <3>1. i \in T /\ n <= i /\ i \in Nat
      BY <1>2, <2>2, <2>5
    <3>2. ~(n \in 1..(i - 1))
      BY <2>3, <2>5
    <3> QED BY <2>3, <3>1, <3>2
  <2>6. FirstPlace(config, name) = {n}
    BY <1>2, <1>3, <2>3, <2>4, <2>5
  <2> QED BY <1>2, <2>3, <2>6 DEF values
<1> QED BY <1>4, <1>5

\* GetValue, for a name that stands with one value, and for a name that does not stand.
LEMMA ValueIs ==
  ASSUME NEW P, NEW M, NEW config, Made(config, P, M), NEW name, NEW value,
         Holds(config, <<name, value>>),
         \A k \in DOMAIN config.m_mValues : config.m_mValues[k][1] = name => config.m_mValues[k][2] = value
  PROVE  GetValue(config, name) = {value}
<1>1. PICK k \in DOMAIN config.m_mValues : config.m_mValues[k] = <<name, value>>
  BY DEF Holds
<1>2. config.m_mValues[k][1] = name
  BY <1>1
<1>3. PICK n \in DOMAIN config.m_mValues :
        config.m_mValues[n][1] = name /\ FirstPlace(config, name) = {n}
  BY <1>2, FirstPlaceIs
<1> QED BY <1>3 DEF GetValue

LEMMA NoValueIs ==
  ASSUME NEW P, NEW M, NEW config, Made(config, P, M), NEW name,
         \A k \in DOMAIN config.m_mValues : config.m_mValues[k][1] # name
  PROVE  GetValue(config, name) = {}
<1>1. FirstPlace(config, name) = {}
  BY FirstPlaceIs
<1> QED BY <1>1 DEF GetValue

\* No name stands twice.
Unique(config) ==
  \A i, k \in DOMAIN config.m_mValues : config.m_mValues[i][1] = config.m_mValues[k][1] => i = k

\* SetValue puts this value in the place of the old one, or last, and leaves the others.
LEMMA ValueSet ==
  ASSUME NEW P, NEW M, NEW config, Made(config, P, M), NEW name, NEW value,
         {name, Trimmed(value)} \cap LongTexts = {}, <<name, Trimmed(value)>> \in P
  PROVE  LET new == SetValue(config, name, value) IN
         /\ Made(new, P, M) /\ new.m_mComments = config.m_mComments
         /\ Holds(new, <<name, Trimmed(value)>>)
         /\ \A pair : pair[1] # name => (Holds(new, pair) <=> Holds(config, pair))
         /\ Unique(config) => Unique(new)
<1> DEFINE new == SetValue(config, name, value)
           values == config.m_mValues
           pair == <<name, Trimmed(value)>>
<1>1. values \in Seq(P)
  BY DEF Made
<1>2. PICK len \in Nat : DOMAIN values = 1..len /\ len = Len(values)
  BY <1>1
<1>3. CASE /\ \A k \in DOMAIN values : values[k][1] # name
           /\ FirstPlace(config, name) = {}
  <2>1. new = [config EXCEPT !.m_mValues = Append(@, pair)]
    BY <1>3 DEF SetValue
  <2>2. /\ new.m_mValues = Append(values, pair) /\ new.m_mComments = config.m_mComments
        /\ new = [m_mValues |-> new.m_mValues, m_mComments |-> new.m_mComments]
    <3> HIDE DEF pair
    <3> QED BY <2>1 DEF Made
  <2> DEFINE later == Append(values, pair)
  <2>3. /\ later \in Seq(P) /\ DOMAIN later = 1..(len + 1) /\ later[len + 1] = pair
        /\ \A k \in 1..len : later[k] = values[k]
    <3> HIDE DEF pair, values
    <3> QED BY <1>1, <1>2 DEF pair
  <2> HIDE DEF later, new, values
  <2>4. Made(new, P, M)
    BY <2>2, <2>3 DEF Made, later
  <2>5. Holds(new, pair)
    <3>1. new.m_mValues = later
      BY <2>2 DEF later
    <3>2. len + 1 \in DOMAIN later /\ later[len + 1] = pair
      BY <2>3
    <3> QED BY <3>1, <3>2 DEF Holds
  <2>6. ASSUME NEW other, other[1] # name PROVE Holds(new, other) <=> Holds(config, other)
    <3>1. other # pair
      BY <2>6
    <3> HIDE DEF pair
    <3> QED BY <1>2, <2>2, <2>3, <3>1 DEF Holds, later, values
  <2>7. Unique(config) => Unique(new)
    <3> SUFFICES ASSUME Unique(config), NEW i \in 1..(len + 1), NEW k \in 1..(len + 1),
                        later[i][1] = later[k][1]
                 PROVE  i = k
      BY <2>2, <2>3 DEF Unique, later
    <3>1. CASE i \in 1..len /\ k \in 1..len
      <4>1. values[i][1] = values[k][1] /\ i \in DOMAIN values /\ k \in DOMAIN values
        BY <1>2, <2>3, <3>1
      <4> QED BY <4>1 DEF Unique, values
    <3>2. CASE i = len + 1 /\ k \in 1..len
      BY <1>2, <1>3, <2>3, <3>2
    <3>3. CASE k = len + 1 /\ i \in 1..len
      BY <1>2, <1>3, <2>3, <3>3
    <3> QED BY <3>1, <3>2, <3>3
  <2> QED BY <2>2, <2>4, <2>5, <2>6, <2>7 DEF new
<1>4. CASE \E n \in DOMAIN values : values[n][1] = name /\ FirstPlace(config, name) = {n}
  <2>1. PICK n \in 1..len : values[n][1] = name /\ FirstPlace(config, name) = {n}
    BY <1>2, <1>4
  <2> DEFINE later == [i \in DOMAIN values |-> IF i = n THEN pair ELSE values[i]]
  <2>2. new = [config EXCEPT !.m_mValues = later]
    BY <2>1 DEF SetValue
  <2>3. /\ new.m_mValues = later /\ new.m_mComments = config.m_mComments
        /\ new = [m_mValues |-> new.m_mValues, m_mComments |-> new.m_mComments]
    <3> HIDE DEF pair, later
    <3> QED BY <2>2 DEF Made
  <2>4. /\ later \in Seq(P) /\ DOMAIN later = 1..len /\ later[n] = pair
        /\ \A k \in 1..len : k # n => later[k] = values[k]
    <3> HIDE DEF pair, values
    <3> QED BY <1>1, <1>2, <2>1 DEF pair
  <2> HIDE DEF later, new, values
  <2>5. Made(new, P, M)
    BY <2>3, <2>4 DEF Made
  <2>6. Holds(new, pair)
    BY <2>3, <2>4 DEF Holds
  <2>7. ASSUME NEW other, other[1] # name PROVE Holds(new, other) <=> Holds(config, other)
    <3>1. other # pair /\ other # values[n]
      BY <2>1, <2>7
    <3> HIDE DEF pair
    <3> QED BY <1>2, <2>3, <2>4, <3>1 DEF Holds, values
  <2>8. Unique(config) => Unique(new)
    <3>1. \A k \in 1..len : later[k][1] = values[k][1]
      BY <2>1, <2>4
    <3> QED BY <1>2, <2>3, <2>4, <3>1 DEF Unique, values
  <2> QED BY <2>3, <2>5, <2>6, <2>7, <2>8 DEF new
<1>5. \/ /\ \A k \in DOMAIN values : values[k][1] # name
         /\ FirstPlace(config, name) = {}
      \/ \E n \in DOMAIN values : values[n][1] = name /\ FirstPlace(config, name) = {n}
  BY FirstPlaceIs
<1> QED BY <1>3, <1>4, <1>5

\* A text that was written of a config with a place for each name has a line for each.
LEMMA UniqueWritten ==
  ASSUME NEW P, NEW M, NEW config, Made(config, P, M), Unique(config), EmptyLine \in M,
         \A line \in M : ~Effective(line),
         \A pair \in P : Effective(pair) => PairOn(pair)[1] = pair[1]
  PROVE  UniqueLines(IntoString(config))
<1> DEFINE values == config.m_mValues
           comments(i) == CommentsOf(config, values[i][1])
           part(i) == comments(i) \o <<values[i], EmptyLine>>
           parts == [i \in DOMAIN values |-> part(i)]
<1>1. IntoString(config) = FlattenSeq(parts)
  BY DEF IntoString
<1>2. values \in Seq(P) /\ DOMAIN values = 1..Len(values)
  BY DEF Made
<1>3. ASSUME NEW i \in DOMAIN values
      PROVE  /\ part(i) \in Seq(P \cup M)
             /\ \A j \in 1..Len(part(i)) :
                  Effective(part(i)[j]) => j = Len(part(i)) - 1 /\ part(i)[j] = values[i]
  <2>1. comments(i) \in Seq(M)
    BY DEF CommentsOf, Made
  <2>2. values[i] \in P
    BY <1>2, <1>3
  <2>3. PICK c \in Seq(M), v \in P : c = comments(i) /\ v = values[i]
    BY <2>1, <2>2
  <2>4. PICK p : p = c \o <<v, EmptyLine>>
    OBVIOUS
  <2>5. PICK len \in Nat : len = Len(c)
    BY <2>3
  <2>6. /\ p \in Seq(P \cup M) /\ Len(p) = len + 2
        /\ \A j \in 1..len : p[j] = c[j] /\ c[j] \in M
        /\ p[len + 1] = v /\ p[len + 2] = EmptyLine
    BY <2>4, <2>5
  <2>7. ASSUME NEW j \in 1..Len(p), Effective(p[j]) PROVE j = len + 1
    <3>1. j \in 1..len \/ j = len + 1 \/ j = len + 2
      BY <2>6
    <3> QED BY <2>6, <2>7, <3>1
  <2>8. part(i) = p
    BY <2>3, <2>4
  <2> HIDE DEF part
  <2> QED BY <2>3, <2>6, <2>7, <2>8
<1> HIDE DEF values, part
<1>4. parts \in Seq(Seq(P \cup M)) /\ DOMAIN values = 1..Len(parts)
  BY <1>2, <1>3
<1>5. ASSUME NEW k \in 1..Len(parts) PROVE UniqueLines(parts[k])
  <2>1. parts[k] = part(k) /\ k \in DOMAIN values
    BY <1>4
  <2> QED BY <1>3, <2>1 DEF UniqueLines
<1>6. ASSUME NEW k \in 1..Len(parts), NEW m \in 1..Len(parts), k < m PROVE Apart(parts[k], parts[m])
  <2>1. parts[k] = part(k) /\ k \in DOMAIN values /\ parts[m] = part(m) /\ m \in DOMAIN values
    BY <1>4
  <2>2. values[k][1] # values[m][1]
    <3>1. k # m
      BY <1>6
    <3> QED BY <2>1, <3>1 DEF Unique, values
  <2>3. values[k] \in P /\ values[m] \in P
    BY <1>2, <2>1
  <2> SUFFICES ASSUME NEW i \in 1..Len(part(k)), NEW j \in 1..Len(part(m)),
                      Effective(part(k)[i]), Effective(part(m)[j])
               PROVE  PairOn(part(k)[i])[1] # PairOn(part(m)[j])[1]
    BY <2>1 DEF Apart
  <2>4. part(k)[i] = values[k] /\ part(m)[j] = values[m]
    BY <1>3, <2>1
  <2> QED BY <2>2, <2>3, <2>4
<1>7. UniqueLines(FlattenSeq(parts))
  <2> HIDE DEF parts
  <2> QED BY <1>4, <1>5, <1>6, FlatUnique
<1> QED BY <1>1, <1>7

\* A line adds its pair at the end, or none.
LEMMA PairTaken ==
  ASSUME NEW read, NEW line
  PROVE  \/ TakeLine(read, line).config = read.config
         \/ /\ Effective(line)
            /\ TakeLine(read, line).config.m_mValues = Append(read.config.m_mValues, PairOn(line))
<1>1. CASE ~SplitPair(line) \/ ~Effective(line)
  <2>1. \E comments : TakeLine(read, line) = [read EXCEPT !.strComments = comments]
    BY <1>1 DEF TakeLine, Effective
  <2> QED BY <2>1
<1>2. CASE SplitPair(line) /\ Effective(line)
  BY <1>2 DEF TakeLine, Effective, PairOn
<1> QED BY <1>1, <1>2

\* A text with a line for each name makes a config with a place for each.
LEMMA UniqueRead ==
  ASSUME NEW L, NEW text \in Seq(L), UniqueLines(text)
  PROVE  Unique(FromString(text))
<1> DEFINE P == {PairOn(line) : line \in L}
<1>1. PICK n \in Nat : n = Len(text) /\ DOMAIN text = 1..n /\ \A i \in 1..n : text[i] \in L
  OBVIOUS
<1>2. PICK read : /\ read[0] = Start
                  /\ \A k \in 1..n : read[k] = TakeLine(read[k - 1], text[k])
                  /\ FromString(text) = read[n].config
  BY <1>1, ReadLineByLine
<1> DEFINE Source(v, i, j) == Effective(text[i]) /\ v[j] = PairOn(text[i])
           Good(k) == /\ read[k].config.m_mValues \in Seq(P)
                      /\ Unique(read[k].config)
                      /\ \A j \in DOMAIN read[k].config.m_mValues :
                           \E i \in 1..k : Source(read[k].config.m_mValues, i, j)
           S == {k \in Nat : k <= n => Good(k)}
<1>3. 0 \in S
  <2>1. read[0].config.m_mValues = <<>>
    BY <1>2 DEF Start, NewConfig
  <2>2. <<>> \in Seq(P) /\ DOMAIN <<>> = {}
    OBVIOUS
  <2> QED BY <2>1, <2>2 DEF Unique
<1>4. ASSUME NEW k \in Nat, k \in S PROVE k + 1 \in S
  <2> SUFFICES ASSUME k + 1 <= n PROVE Good(k + 1)
    OBVIOUS
  <2>1. Good(k) /\ k + 1 \in 1..n /\ (k + 1) - 1 = k
    BY <1>4
  <2>2. PICK v, w : v = read[k].config.m_mValues /\ w = read[k + 1].config.m_mValues
    OBVIOUS
  <2>3. /\ v \in Seq(P)
        /\ \A i, j \in DOMAIN v : v[i][1] = v[j][1] => i = j
        /\ \A j \in DOMAIN v : \E i \in 1..k : Source(v, i, j)
    BY <2>1, <2>2 DEF Unique
  <2>4. \/ w = v
        \/ Effective(text[k + 1]) /\ w = Append(v, PairOn(text[k + 1]))
    <3>1. read[k + 1] = TakeLine(read[k], text[k + 1])
      BY <1>2, <2>1
    <3>2. \/ read[k + 1].config = read[k].config
          \/ /\ Effective(text[k + 1])
             /\ read[k + 1].config.m_mValues = Append(read[k].config.m_mValues, PairOn(text[k + 1]))
      <4> HIDE DEF Good, S
      <4> QED BY <3>1, PairTaken
    <3> QED BY <2>2, <3>2
  <2>5. CASE w = v
    <3>1. ASSUME NEW j \in DOMAIN w PROVE \E i \in 1..(k + 1) : Source(w, i, j)
      <4>1. PICK i \in 1..k : Source(w, i, j)
        BY <2>3, <2>5
      <4>2. i \in 1..(k + 1)
        OBVIOUS
      <4> QED BY <4>1, <4>2
    <3> QED BY <2>2, <2>3, <2>5, <3>1 DEF Unique
  <2>6. CASE Effective(text[k + 1]) /\ w = Append(v, PairOn(text[k + 1]))
    <3>1. PICK m \in Nat, p \in P : m = Len(v) /\ p = PairOn(text[k + 1])
      BY <1>1, <2>1, <2>3
    <3>2. /\ w \in Seq(P) /\ DOMAIN w = 1..(m + 1) /\ DOMAIN v = 1..m /\ w[m + 1] = p
          /\ \A j \in 1..m : w[j] = v[j]
      BY <2>3, <2>6, <3>1
    <3>3. \A j \in 1..(m + 1) : j \in 1..m \/ j = m + 1
      BY <3>1
    <3>4. ASSUME NEW j \in 1..m PROVE v[j][1] # p[1]
      <4> SUFFICES ASSUME v[j][1] = p[1] PROVE FALSE
        OBVIOUS
      <4>1. PICK i \in 1..k : Effective(text[i]) /\ v[j] = PairOn(text[i])
        BY <2>3, <3>2
      <4>2. i = k + 1
        BY <1>1, <2>1, <2>6, <3>1, <4>1 DEF UniqueLines
      <4> QED BY <4>2
    <3>5. ASSUME NEW i \in 1..(m + 1), NEW j \in 1..(m + 1), w[i][1] = w[j][1] PROVE i = j
      <4>1. CASE i \in 1..m /\ j \in 1..m
        BY <2>3, <3>2, <3>5, <4>1
      <4>2. CASE i \in 1..m /\ j = m + 1
        BY <3>2, <3>4, <3>5, <4>2
      <4>3. CASE i = m + 1 /\ j \in 1..m
        BY <3>2, <3>4, <3>5, <4>3
      <4>4. (i \in 1..m \/ i = m + 1) /\ (j \in 1..m \/ j = m + 1)
        BY <3>3
      <4> QED BY <4>1, <4>2, <4>3, <4>4
    <3>6. ASSUME NEW j \in 1..(m + 1) PROVE \E i \in 1..(k + 1) : Source(w, i, j)
      <4>1. CASE j \in 1..m
        <5>1. PICK i \in 1..k : Source(v, i, j)
          BY <2>3, <3>2, <4>1
        <5>2. i \in 1..(k + 1) /\ Source(w, i, j)
          BY <3>2, <4>1, <5>1
        <5> QED BY <5>2
      <4>2. CASE j = m + 1
        <5>1. k + 1 \in 1..(k + 1) /\ Source(w, k + 1, j)
          BY <2>6, <3>1, <3>2, <4>2
        <5> QED BY <5>1
      <4> QED BY <3>3, <4>1, <4>2
    <3> QED BY <2>2, <3>2, <3>5, <3>6 DEF Unique
  <2> QED BY <2>4, <2>5, <2>6
<1>5. n \in S
  <2> HIDE DEF S
  <2> QED BY <1>3, <1>4, NumbersClosed
<1> QED BY <1>2, <1>5

-----------------------------------------------------------------------------
(***************************************************************************)
(* Repository: an edit by hand changes what it touches.                    *)
(***************************************************************************)

\* The lines of a config file, written by the program or by hand.
FileLines == HandLines \cup {EmptyLine, <<Remark>>} \cup (Names \X Values)

\* In the lines 1 to n of a text a name has its value, on one line or more, and no other.
SaysOnly(text, n, name, value) ==
  /\ \E i \in 1..n : text[i] = <<name, value>>
  /\ \A i \in 1..n : NameOn(text[i]) = {name} => text[i] = <<name, value>>

\* What the file says of the names that no hand has touched.
FileSays ==
  repoFile # NoFile =>
    /\ repoFile \in Seq(FileLines)
    /\ \A name \in Names \ edited :
         written[name] \in Values /\ SaysOnly(repoFile, Len(repoFile), name, written[name])

\* A text that says so is read so.
LEMMA SaidIsRead ==
  ASSUME NEW L, NEW text \in Seq(L), NEW name \in Names, NEW value \in Values,
         SaysOnly(text, Len(text), name, value)
  PROVE  GetValue(FromString(text), name) = {value}
<1>1. PICK n \in Nat : n = Len(text) /\ DOMAIN text = 1..n
  OBVIOUS
<1>2. PICK k \in 1..n : text[k] = <<name, value>>
  BY <1>1 DEF SaysOnly
<1>3. {name, value} \cap ({NoText, Blank} \cup LongTexts) = {}
  BY ValuesAssumption
<1>4. Trimmed(name) = name /\ Trimmed(value) = value
  BY <1>3 DEF Trimmed
<1>5. Effective(text[k]) /\ PairOn(text[k]) = <<name, value>>
  BY <1>2, <1>3, <1>4 DEF Effective, SplitPair, PairOn
<1> DEFINE P == {PairOn(text[i]) : i \in {j \in 1..n : Effective(text[j])}}
           M == {text[i] : i \in 1..n}
           config == FromString(text)
<1>6. /\ Made(config, P, M)
      /\ \A i \in 1..n : Effective(text[i]) => Holds(config, PairOn(text[i]))
  <2>1. \A i \in 1..n : /\ Effective(text[i]) => PairOn(text[i]) \in P
                        /\ ~SplitPair(text[i]) => text[i] \in M
    OBVIOUS
  <2> HIDE DEF P, M
  <2> QED BY <1>1, <2>1, TextRead
<1>7. \A pair \in P : pair[1] = name => pair[2] = value
  <2> SUFFICES ASSUME NEW i \in 1..n, Effective(text[i]), PairOn(text[i])[1] = name
               PROVE  PairOn(text[i])[2] = value
    OBVIOUS
  <2>1. Len(text[i]) = 2 /\ Trimmed(text[i][1]) = name
    BY DEF Effective, SplitPair, PairOn
  <2>2. text[i][1] = name
    BY <1>3, <2>1 DEF Trimmed
  <2>3. NameOn(text[i]) = {name}
    BY <2>1, <2>2 DEF NameOn
  <2>4. text[i] = <<name, value>>
    BY <1>1, <2>3 DEF SaysOnly
  <2> QED BY <1>4, <2>4 DEF PairOn
<1>8. Holds(config, <<name, value>>)
  BY <1>5, <1>6
<1> HIDE DEF P, M, config
<1>9. \A j \in DOMAIN config.m_mValues :
        config.m_mValues[j][1] = name => config.m_mValues[j][2] = value
  <2>1. \A j \in DOMAIN config.m_mValues : config.m_mValues[j] \in P
    BY <1>6 DEF Made
  <2> QED BY <1>7, <2>1
<1> QED BY <1>6, <1>8, <1>9, ValueIs DEF config

-----------------------------------------------------------------------------
(* The text that Init writes *)

\* SetComment leaves the pairs, and adds a remark to the comments.
LEMMA CommentSet ==
  ASSUME NEW P, NEW config, Made(config, P, {EmptyLine, <<Remark>>}), NEW name
  PROVE  Made(SetComment(config, name, Remark), P, {EmptyLine, <<Remark>>})
<1> DEFINE M == {EmptyLine, <<Remark>>}
           new == SetComment(config, name, Remark)
           comments == [m \in DOMAIN config.m_mComments \cup {name} |->
             IF m = name THEN Append(CommentsOf(config, name), <<Remark>>) ELSE config.m_mComments[m]]
<1>1. new = config \/ new = [config EXCEPT !.m_mComments = comments]
  BY DEF SetComment
<1>2. Append(CommentsOf(config, name), <<Remark>>) \in Seq(M)
  <2>1. CommentsOf(config, name) \in Seq(M)
    BY DEF CommentsOf, Made
  <2>2. <<Remark>> \in M
    OBVIOUS
  <2> HIDE DEF M
  <2> QED BY <2>1, <2>2
<1>3. \A m \in DOMAIN comments : comments[m] \in Seq(M)
  <2> HIDE DEF M
  <2> QED BY <1>2 DEF Made, M
<1> HIDE DEF comments, M
<1>4. CASE new = [config EXCEPT !.m_mComments = comments]
  <2>1. /\ new.m_mComments = comments /\ new.m_mValues = config.m_mValues
        /\ new = [m_mValues |-> new.m_mValues, m_mComments |-> new.m_mComments]
    BY <1>4 DEF Made
  <2> HIDE DEF new
  <2> QED BY <1>3, <2>1 DEF Made, M, new
<1> QED BY <1>1, <1>4

\* GenerateConfigFile has a place for each name, with its default.
LEMMA GeneratedConfig ==
  ASSUME NEW key \in Keys, NEW guid \in RepoGuids
  PROVE  LET default == Default(key, guid) IN
         /\ default \in [Names -> Values]
         /\ Made(GenerateConfigFile(default), {<<name, default[name]>> : name \in Names},
                 {EmptyLine, <<Remark>>})
<1> DEFINE default == Default(key, guid)
           P == {<<name, default[name]>> : name \in Names}
           M == {EmptyLine, <<Remark>>}
           Parameter(config, name) == SetComment(SetValue(config, name, default[name]), name, Remark)
           identity == Parameter(Parameter(NewConfig, "Repo.Id"), "Repo.Key")
           limits == Parameter(Parameter(identity, "Listener.Port"), "Blocks.Cache.Mem.KB")
<1>1. default \in [Names -> Values]
  BY DEF Default, Values, Names
<1>2. ASSUME NEW config, Made(config, P, M), NEW name \in Names
      PROVE  Made(Parameter(config, name), P, M)
  <2>1. default[name] \in Values
    BY <1>1
  <2>2. {name, default[name]} \cap ({NoText, Blank} \cup LongTexts) = {}
    BY <2>1, ValuesAssumption
  <2>3. Trimmed(default[name]) = default[name]
    BY <2>2 DEF Trimmed
  <2>4. <<name, Trimmed(default[name])>> \in P /\ {name, Trimmed(default[name])} \cap LongTexts = {}
    BY <2>2, <2>3
  <2> HIDE DEF P, M, default
  <2>5. Made(SetValue(config, name, default[name]), P, M)
    BY <1>2, <2>4, ValueSet
  <2> QED BY <2>5, CommentSet DEF M
<1>3. Made(NewConfig, P, M)
  BY NewConfigMade
<1>4. {"Repo.Id", "Repo.Key", "Listener.Port", "Blocks.Cache.Mem.KB"} \subseteq Names
  BY DEF Names
<1>5. GenerateConfigFile(default) = SetComment(limits, "Blocks.Cache.Mem.KB", Remark)
  BY DEF GenerateConfigFile
<1> HIDE DEF Parameter, P, default
<1>6. Made(identity, P, M)
  BY <1>2, <1>3, <1>4
<1> HIDE DEF identity
<1>7. Made(limits, P, M)
  BY <1>2, <1>6, <1>4
<1> HIDE DEF limits
<1>8. Made(GenerateConfigFile(default), P, M)
  BY <1>5, <1>7, CommentSet
<1> QED BY <1>1, <1>8 DEF P, default

-----------------------------------------------------------------------------
(* Steps *)

\* A file that is written by Init, whole or short, has on its lines what the program wrote.
LEMMA InitSays ==
  ASSUME NEW key \in Keys, NEW guid \in RepoGuids, InitStored(key, guid)
  PROVE  FileSays'
<1> DEFINE default == Default(key, guid)
           text == IntoString(GenerateConfigFile(default))
           P == {<<name, default[name]>> : name \in Names}
           M == {EmptyLine, <<Remark>>}
<1>1. /\ default \in [Names -> Values]
      /\ Made(GenerateConfigFile(default), P, M)
  BY GeneratedConfig
<1>2. text \in Seq(P \cup M)
  <2>1. EmptyLine \in M
    OBVIOUS
  <2> HIDE DEF P, M, default
  <2> QED BY <1>1, <2>1, ConfigWritten
<1> HIDE DEF default, text
<1>3. PICK n \in {Len(text), Len(text) - 2} :
        /\ repoFile' = SubSeq(text, 1, n)
        /\ edited' = Names \ UNION {NameOn(text[i]) : i \in 1..n}
        /\ written' = default
  BY DEF InitStored, default, text
<1>4. PICK len : len \in Nat /\ len <= Len(text) /\ 1..n = 1..len
  <2>1. CASE n < 0
    <3>1. 0 <= Len(text) /\ 1..n = 1..0
      BY <1>2, <2>1
    <3> QED BY <3>1
  <2>2. CASE n >= 0
    BY <1>2, <2>2
  <2> QED BY <1>2, <2>1, <2>2
<1>5. /\ repoFile' \in Seq(P \cup M) /\ Len(repoFile') = len
      /\ \A i \in 1..len : repoFile'[i] = text[i] /\ text[i] \in P \cup M
  <2> HIDE DEF P, M
  <2>1. SubSeq(text, 1, n) = [i \in 1..n |-> text[i]]
    BY <1>2
  <2>2. repoFile' = [i \in 1..len |-> text[i]] /\ \A i \in 1..len : text[i] \in P \cup M
    BY <1>2, <1>3, <1>4, <2>1
  <2> QED BY <1>4, <2>2
<1>6. P \cup M \subseteq FileLines
  BY <1>1 DEF FileLines
<1>7. ASSUME NEW name \in Names \ edited'
      PROVE  written'[name] \in Values /\ SaysOnly(repoFile', Len(repoFile'), name, written'[name])
  <2>1. PICK i \in 1..len : name \in NameOn(text[i])
    BY <1>3, <1>4
  <2>2. ASSUME NEW j \in 1..len, name \in NameOn(text[j]) PROVE text[j] = <<name, default[name]>>
    <3>1. Len(text[j]) = 2 /\ text[j][1] = name
      BY <2>2 DEF NameOn
    <3>2. text[j] \in P
      <4>1. Len(EmptyLine) = 0 /\ Len(<<Remark>>) = 1
        BY DEF EmptyLine
      <4>2. text[j] # EmptyLine /\ text[j] # <<Remark>>
        BY <3>1, <4>1
      <4>3. text[j] \in P \cup M
        BY <1>5
      <4> HIDE DEF P
      <4> QED BY <4>2, <4>3
    <3> QED BY <3>1, <3>2
  <2>3. default[name] \in Values
    BY <1>1
  <2> HIDE DEF P, M
  <2> QED BY <1>3, <1>5, <2>1, <2>2, <2>3 DEF SaysOnly
<1> QED BY <1>5, <1>6, <1>7 DEF FileSays

\* A line taken out, and one put in: the lines before it stay, those after it move.
LEMMA RemovedAt ==
  ASSUME NEW L, NEW s \in Seq(L), NEW n \in Nat, Len(s) = n, NEW i \in 1..n
  PROVE  /\ RemoveAt(s, i) \in Seq(L) /\ Len(RemoveAt(s, i)) = n - 1
         /\ \A k \in 1..(i - 1) : RemoveAt(s, i)[k] = s[k]
         /\ \A k \in i..(n - 1) : RemoveAt(s, i)[k] = s[k + 1]
<1>1. PICK a, b : a = SubSeq(s, 1, i - 1) /\ b = SubSeq(s, i + 1, n)
  OBVIOUS
<1>2. a \in Seq(L) /\ Len(a) = i - 1 /\ \A k \in 1..(i - 1) : a[k] = s[k]
  BY <1>1
<1>3. b \in Seq(L) /\ Len(b) = n - i /\ \A k \in 1..(n - i) : b[k] = s[i + k]
  BY <1>1
<1>4. RemoveAt(s, i) = a \o b
  BY <1>1 DEF RemoveAt
<1>5. a \o b \in Seq(L) /\ Len(a \o b) = n - 1
  <2>1. a \in Seq(L) /\ b \in Seq(L)
    BY <1>2, <1>3
  <2>2. a \o b \in Seq(L)
    BY <2>1
  <2>3. Len(a \o b) = Len(a) + Len(b)
    BY <2>1
  <2> QED BY <1>2, <1>3, <2>2, <2>3
<1>6. \A k \in 1..(i - 1) : (a \o b)[k] = s[k]
  BY <1>2, <1>3
<1>7. ASSUME NEW k \in i..(n - 1) PROVE (a \o b)[k] = s[k + 1]
  <2>1. k - Len(a) \in 1..(n - i) /\ i + (k - Len(a)) = k + 1 /\ k > Len(a) /\ k \in 1..(Len(a) + Len(b))
    BY <1>2, <1>3
  <2>2. (a \o b)[k] = b[k - Len(a)]
    BY <1>2, <1>3, <2>1
  <2> QED BY <1>3, <2>1, <2>2
<1> QED BY <1>4, <1>5, <1>6, <1>7

LEMMA InsertedAt ==
  ASSUME NEW L, NEW s \in Seq(L), NEW n \in Nat, Len(s) = n, NEW i \in 1..n, NEW line \in L
  PROVE  /\ InsertAt(s, i, line) \in Seq(L) /\ Len(InsertAt(s, i, line)) = n + 1
         /\ InsertAt(s, i, line)[i] = line
         /\ \A k \in 1..(i - 1) : InsertAt(s, i, line)[k] = s[k]
         /\ \A k \in i..n : InsertAt(s, i, line)[k + 1] = s[k]
<1>1. PICK a, b : a = SubSeq(s, 1, i - 1) \o <<line>> /\ b = SubSeq(s, i, n)
  OBVIOUS
<1>2. a \in Seq(L) /\ Len(a) = i /\ a[i] = line /\ \A k \in 1..(i - 1) : a[k] = s[k]
  BY <1>1
<1>3. b \in Seq(L) /\ Len(b) = n - i + 1 /\ \A k \in 1..(n - i + 1) : b[k] = s[i + k - 1]
  BY <1>1
<1>4. InsertAt(s, i, line) = a \o b
  BY <1>1 DEF InsertAt
<1>5. a \o b \in Seq(L) /\ Len(a \o b) = n + 1
  <2>1. a \in Seq(L) /\ b \in Seq(L)
    BY <1>2, <1>3
  <2>2. a \o b \in Seq(L)
    BY <2>1
  <2>3. Len(a \o b) = Len(a) + Len(b)
    BY <2>1
  <2> QED BY <1>2, <1>3, <2>2, <2>3
<1>6. (a \o b)[i] = line /\ \A k \in 1..(i - 1) : (a \o b)[k] = s[k]
  BY <1>2, <1>3
<1>7. ASSUME NEW k \in i..n PROVE (a \o b)[k + 1] = s[k]
  <2>1. (k + 1) - Len(a) \in 1..(n - i + 1) /\ i + ((k + 1) - Len(a)) - 1 = k
        /\ k + 1 > Len(a) /\ k + 1 \in 1..(Len(a) + Len(b))
    BY <1>2, <1>3
  <2>2. (a \o b)[k + 1] = b[(k + 1) - Len(a)]
    BY <1>2, <1>3, <2>1
  <2> QED BY <1>3, <2>1, <2>2
<1> QED BY <1>4, <1>5, <1>6, <1>7

LEMMA HandLinesIn == HandLines \subseteq FileLines
BY DEF FileLines

\* An edit changes what the file says of the names on the lines it touches.
LEMMA EditSays ==
  ASSUME FileSays, repoFile # NoFile, EditByHand
  PROVE  FileSays'
<1>1. PICK n \in Nat : n = Len(repoFile) /\ DOMAIN repoFile = 1..n
  BY DEF FileSays
<1>2. repoFile \in Seq(FileLines) /\ \A k \in 1..n : repoFile[k] \in FileLines
  BY <1>1 DEF FileSays
<1>3. ASSUME NEW names, Edit(NoFile, names) PROVE FileSays'
  BY <1>3 DEF Edit, FileSays
<1>4. ASSUME NEW i \in 1..n, NEW line \in HandLines,
             Edit([repoFile EXCEPT ![i] = line], NameOn(repoFile[i]) \cup NameOn(line))
      PROVE  FileSays'
  <2>1. PICK file : file = [repoFile EXCEPT ![i] = line]
    OBVIOUS
  <2>2. /\ file \in Seq(FileLines) /\ Len(file) = n /\ file[i] = line
        /\ \A k \in 1..n : k # i => file[k] = repoFile[k]
    BY <1>1, <1>2, <2>1, HandLinesIn
  <2>3. repoFile' = file /\ edited' = edited \cup NameOn(repoFile[i]) \cup NameOn(line) /\ written' = written
    BY <1>4, <2>1 DEF Edit
  <2>4. ASSUME NEW name \in Names \ edited'
        PROVE  written[name] \in Values /\ SaysOnly(file, n, name, written[name])
    <3>1. name \in Names \ edited /\ name \notin NameOn(repoFile[i]) /\ name \notin NameOn(line)
      BY <2>3
    <3>2. written[name] \in Values /\ SaysOnly(repoFile, n, name, written[name])
      BY <1>1, <3>1 DEF FileSays
    <3>3. PICK k \in 1..n : repoFile[k] = <<name, written[name]>>
      BY <3>2 DEF SaysOnly
    <3>4. k # i
      BY <3>1, <3>3 DEF NameOn
    <3>5. file[k] = <<name, written[name]>>
      BY <2>2, <3>3, <3>4
    <3>6. \A j \in 1..n : NameOn(file[j]) = {name} => file[j] = <<name, written[name]>>
      BY <2>2, <3>1, <3>2 DEF SaysOnly
    <3> QED BY <3>2, <3>5, <3>6 DEF SaysOnly
  <2> QED BY <2>2, <2>3, <2>4 DEF FileSays
<1>5. ASSUME NEW i \in 1..n, NEW line \in HandLines, Edit(InsertAt(repoFile, i, line), NameOn(line))
      PROVE  FileSays'
  <2>1. PICK file : file = InsertAt(repoFile, i, line)
    OBVIOUS
  <2>2. /\ file \in Seq(FileLines) /\ Len(file) = n + 1 /\ file[i] = line
        /\ \A k \in 1..(i - 1) : file[k] = repoFile[k]
        /\ \A k \in i..n : file[k + 1] = repoFile[k]
    <3>1. PICK text : text = repoFile
      OBVIOUS
    <3>2. text \in Seq(FileLines) /\ Len(text) = n /\ n \in Nat /\ line \in FileLines
      BY <1>1, <1>2, <3>1, HandLinesIn
    <3>3. /\ InsertAt(text, i, line) \in Seq(FileLines) /\ Len(InsertAt(text, i, line)) = n + 1
          /\ InsertAt(text, i, line)[i] = line
          /\ \A k \in 1..(i - 1) : InsertAt(text, i, line)[k] = text[k]
          /\ \A k \in i..n : InsertAt(text, i, line)[k + 1] = text[k]
      BY <3>2, InsertedAt
    <3> QED BY <2>1, <3>1, <3>3
  <2>3. repoFile' = file /\ edited' = edited \cup NameOn(line) /\ written' = written
    BY <1>5, <2>1 DEF Edit
  <2>4. ASSUME NEW name \in Names \ edited'
        PROVE  written[name] \in Values /\ SaysOnly(file, n + 1, name, written[name])
    <3>1. name \in Names \ edited /\ name \notin NameOn(line)
      BY <2>3
    <3>2. written[name] \in Values /\ SaysOnly(repoFile, n, name, written[name])
      BY <1>1, <3>1 DEF FileSays
    <3>3. PICK k \in 1..n : repoFile[k] = <<name, written[name]>>
      BY <3>2 DEF SaysOnly
    <3>4. \E j \in 1..(n + 1) : file[j] = <<name, written[name]>>
      <4>1. CASE k < i
        <5>1. k \in 1..(i - 1) /\ k \in 1..(n + 1)
          BY <4>1
        <5> QED BY <2>2, <3>3, <5>1
      <4>2. CASE k >= i
        <5>1. k \in i..n /\ k + 1 \in 1..(n + 1)
          BY <4>2
        <5> QED BY <2>2, <3>3, <5>1
      <4> QED BY <4>1, <4>2
    <3>5. ASSUME NEW j \in 1..(n + 1), NameOn(file[j]) = {name} PROVE file[j] = <<name, written[name]>>
      <4>1. CASE j \in 1..(i - 1)
        <5>1. file[j] = repoFile[j] /\ j \in 1..n
          BY <2>2, <4>1
        <5> QED BY <3>2, <3>5, <5>1 DEF SaysOnly
      <4>2. CASE j = i
        BY <2>2, <3>1, <3>5, <4>2
      <4>3. CASE j \in (i + 1)..(n + 1)
        <5>1. j - 1 \in i..n /\ (j - 1) + 1 = j /\ j - 1 \in 1..n
          BY <4>3
        <5>2. file[j] = repoFile[j - 1]
          BY <2>2, <5>1
        <5> QED BY <3>2, <3>5, <5>1, <5>2 DEF SaysOnly
      <4> QED BY <4>1, <4>2, <4>3
    <3> QED BY <3>2, <3>4, <3>5 DEF SaysOnly
  <2> QED BY <2>2, <2>3, <2>4 DEF FileSays
<1>6. ASSUME NEW i \in 1..n, Edit(RemoveAt(repoFile, i), NameOn(repoFile[i]))
      PROVE  FileSays'
  <2>1. PICK file : file = RemoveAt(repoFile, i)
    OBVIOUS
  <2>2. /\ file \in Seq(FileLines) /\ Len(file) = n - 1
        /\ \A k \in 1..(i - 1) : file[k] = repoFile[k]
        /\ \A k \in (i + 1)..n : file[k - 1] = repoFile[k]
    <3>1. PICK text : text = repoFile
      OBVIOUS
    <3>2. text \in Seq(FileLines) /\ Len(text) = n /\ n \in Nat
      BY <1>1, <1>2, <3>1
    <3>3. /\ RemoveAt(text, i) \in Seq(FileLines) /\ Len(RemoveAt(text, i)) = n - 1
          /\ \A k \in 1..(i - 1) : RemoveAt(text, i)[k] = text[k]
          /\ \A k \in i..(n - 1) : RemoveAt(text, i)[k] = text[k + 1]
      <4>1. RemoveAt(text, i) \in Seq(FileLines)
        BY <3>2, RemovedAt
      <4>2. Len(RemoveAt(text, i)) = n - 1
        BY <3>2, RemovedAt
      <4>3. \A k \in 1..(i - 1) : RemoveAt(text, i)[k] = text[k]
        BY <3>2, RemovedAt
      <4>4. \A k \in i..(n - 1) : RemoveAt(text, i)[k] = text[k + 1]
        BY <3>2, RemovedAt
      <4> QED BY <4>1, <4>2, <4>3, <4>4
    <3>4. ASSUME NEW k \in (i + 1)..n PROVE file[k - 1] = repoFile[k]
      <4>1. k - 1 \in i..(n - 1) /\ (k - 1) + 1 = k
        BY <3>2
      <4> QED BY <2>1, <3>1, <3>3, <4>1
    <3> QED BY <2>1, <3>1, <3>3, <3>4
  <2>3. repoFile' = file /\ edited' = edited \cup NameOn(repoFile[i]) /\ written' = written
    BY <1>6, <2>1 DEF Edit
  <2>4. ASSUME NEW name \in Names \ edited'
        PROVE  written[name] \in Values /\ SaysOnly(file, n - 1, name, written[name])
    <3>1. name \in Names \ edited /\ name \notin NameOn(repoFile[i])
      BY <2>3
    <3>2. written[name] \in Values /\ SaysOnly(repoFile, n, name, written[name])
      BY <1>1, <3>1 DEF FileSays
    <3>3. PICK k \in 1..n : repoFile[k] = <<name, written[name]>>
      BY <3>2 DEF SaysOnly
    <3>4. k # i
      BY <3>1, <3>3 DEF NameOn
    <3>5. \E j \in 1..(n - 1) : file[j] = <<name, written[name]>>
      <4>1. CASE k < i
        <5>1. k \in 1..(i - 1) /\ k \in 1..(n - 1)
          BY <4>1
        <5> QED BY <2>2, <3>3, <5>1
      <4>2. CASE k > i
        <5>1. k \in (i + 1)..n /\ k - 1 \in 1..(n - 1)
          BY <4>2
        <5> QED BY <2>2, <3>3, <5>1
      <4> QED BY <3>4, <4>1, <4>2
    <3>6. ASSUME NEW j \in 1..(n - 1), NameOn(file[j]) = {name} PROVE file[j] = <<name, written[name]>>
      <4>1. CASE j \in 1..(i - 1)
        <5>1. file[j] = repoFile[j] /\ j \in 1..n
          BY <2>2, <4>1
        <5> QED BY <3>2, <3>6, <5>1 DEF SaysOnly
      <4>2. CASE j \in i..(n - 1)
        <5>1. j + 1 \in (i + 1)..n /\ (j + 1) - 1 = j /\ j + 1 \in 1..n
          BY <4>2
        <5>2. file[j] = repoFile[j + 1]
          BY <2>2, <5>1
        <5> QED BY <3>2, <3>6, <5>1, <5>2 DEF SaysOnly
      <4> QED BY <4>1, <4>2
    <3> QED BY <3>2, <3>5, <3>6 DEF SaysOnly
  <2> QED BY <2>2, <2>3, <2>4 DEF FileSays
<1> QED BY <1>1, <1>3, <1>4, <1>5, <1>6 DEF EditByHand

LEMMA RepositoryStepSays == FileSays /\ [RepositoryNext]_repositoryVars => FileSays'
<1> SUFFICES ASSUME FileSays, [RepositoryNext]_repositoryVars PROVE FileSays'
  OBVIOUS
<1>1. CASE UNCHANGED <<repoFile, written, edited>>
  BY <1>1 DEF FileSays
<1>2. ASSUME NEW key \in Keys, InitStorage(key) PROVE FileSays'
  <2>1. CASE InitNotClean
    BY <2>1 DEF InitNotClean, FileSays
  <2>2. ASSUME NEW guid \in RepoGuids, InitStored(key, guid) PROVE FileSays'
    BY <2>2, InitSays
  <2>3. ASSUME NEW guid \in RepoGuids, InitNotStored(key, guid) PROVE FileSays'
    <3>1. edited' = Names /\ repoFile' \in {NoFile, <<>>}
      BY <2>3 DEF InitNotStored
    <3>2. <<>> \in Seq(FileLines)
      OBVIOUS
    <3>3. repoFile' # NoFile => repoFile' \in Seq(FileLines)
      BY <3>1, <3>2
    <3> QED BY <3>1, <3>3 DEF FileSays
  <2> QED BY <1>2, <2>1, <2>2, <2>3 DEF InitStorage
<1>3. CASE EditByHand
  BY <1>3, EditSays DEF EditByHand
<1>4. ASSUME NEW key \in Keys, Login(key) PROVE FileSays'
  BY <1>1, <1>4 DEF Login
<1>5. CASE Restart
  BY <1>1, <1>5 DEF Restart
<1>6. CASE UNCHANGED repositoryVars
  BY <1>1, <1>6 DEF repositoryVars
<1> QED BY <1>2, <1>3, <1>4, <1>5, <1>6 DEF RepositoryNext

\* A parameter that no hand has touched is read as Init wrote it, whatever lines a hand replaced,
\* inserted or took out elsewhere.
THEOREM EditsAreLocal == RepositorySpec => []EditIsLocal
<1>1. RepositoryInit => FileSays
  BY DEF RepositoryInit, FileSays
<1>2. FileSays => EditIsLocal
  BY SaidIsRead DEF FileSays, EditIsLocal
<1> QED BY <1>1, <1>2, RepositoryStepSays, PTL DEF RepositorySpec

-----------------------------------------------------------------------------
(***************************************************************************)
(* AccountFiles: whoever adds a number finds no mail of the owner before.  *)
(***************************************************************************)

\* Of the types, as much as the proof needs.
FilesTypeOK ==
  /\ inFolder = [there |-> inFolder.there, mail |-> inFolder.mail]
  /\ inFolder.there \in BOOLEAN
  /\ acked = [there |-> acked.there, pin |-> acked.pin, token |-> acked.token]
  /\ acked.there \in BOOLEAN

\* There is no mail without its folder, which a deletion may leave behind with some of it.
MailIsInFolder == ~inFolder.there => inFolder.mail = {}

\* Nobody is told that the number is there before the folder was made, and a number that is
\* there, or about to be, has a config file: AddNumber does not start again.
AddedHasFile ==
  /\ step = "add" => ~acked.there
  /\ step = "add" \/ acked.there => accFile.is # "missing"

FilesInv == FilesTypeOK /\ MailIsInFolder /\ AddedHasFile /\ AddedIsEmpty

LEMMA FilesInitInv == AccountInit => FilesInv
BY DEF AccountInit, FilesInv, FilesTypeOK, MailIsInFolder, AddedHasFile, AddedIsEmpty, NothingAcked

\* A write leaves a file, whole or torn.
LEMMA StoredLeavesFile ==
  ASSUME NEW acc, Stored(acc)
  PROVE  accFile'.is # "missing" /\ inFolder' = inFolder
BY DEF Stored, Whole, Torn

LEMMA NotStoredKeepsFile ==
  ASSUME NEW acc, NEW kept, NEW since, NotStored(acc, kept, since)
  PROVE  /\ accFile.is # "missing" => accFile'.is # "missing"
         /\ UNCHANGED <<inFolder, step, acked>>
BY DEF NotStored, Whole, Torn

LEMMA AddNumberKeeps ==
  ASSUME FilesInv, NEW pin \in AccountPins, AddNumber(pin)
  PROVE  FilesInv'
<1>1. ~acked.there
  BY DEF AddNumber, Missing, FilesInv, AddedHasFile
<1>2. CASE /\ Stored(NewAccount(pin))
           /\ step' = "add"
           /\ acked' = NothingAcked
  BY <1>2, StoredLeavesFile
     DEF FilesInv, FilesTypeOK, MailIsInFolder, AddedHasFile, AddedIsEmpty, NothingAcked
<1>3. CASE NotStored(NewAccount(pin), NoAccount, NothingTried)
  <2>1. UNCHANGED <<inFolder, step, acked>> /\ step' = "idle"
    BY <1>3, NotStoredKeepsFile DEF AddNumber
  <2> QED BY <1>1, <2>1 DEF FilesInv, FilesTypeOK, MailIsInFolder, AddedHasFile, AddedIsEmpty
<1> QED BY <1>2, <1>3 DEF AddNumber

\* The folder is made only where there is none, so that it has no mail.
LEMMA CreateInFolderKeeps == FilesInv /\ CreateInFolder => FilesInv'
<1> SUFFICES ASSUME FilesInv, CreateInFolder PROVE FilesInv'
  OBVIOUS
<1>1. step' = "idle" /\ accFile' = accFile /\ gen' = gen /\ accFile.is # "missing"
  BY DEF CreateInFolder, FilesInv, AddedHasFile
<1>2. CASE /\ FolderIsFree
           /\ inFolder' = [inFolder EXCEPT !.there = TRUE]
           /\ acked' = [there |-> TRUE, pin |-> account.m_strPin, token |-> NoText]
  <2>1. inFolder' = [there |-> TRUE, mail |-> {}]
    BY <1>2 DEF FolderIsFree, FilesInv, FilesTypeOK, MailIsInFolder
  <2>2. acked'.there = TRUE /\ acked'.pin = account.m_strPin /\ acked'.token = NoText
    BY <1>2
  <2>3. acked' = [there |-> acked'.there, pin |-> acked'.pin, token |-> acked'.token]
    BY <1>2, <2>2
  <2>4. inFolder'.there = TRUE /\ inFolder'.mail = {}
    BY <2>1
  <2>5. FilesTypeOK'
    BY <2>1, <2>2, <2>3, <2>4 DEF FilesTypeOK
  <2> QED BY <1>1, <2>2, <2>4, <2>5 DEF FilesInv, MailIsInFolder, AddedHasFile, AddedIsEmpty
<1>3. CASE UNCHANGED <<inFolder, acked>>
  BY <1>1, <1>3 DEF FilesInv, FilesTypeOK, MailIsInFolder, AddedHasFile, AddedIsEmpty
<1> QED BY <1>2, <1>3 DEF CreateInFolder

LEMMA StoreMsgKeeps == FilesInv /\ StoreMsg => FilesInv'
BY DEF StoreMsg, FilesInv, FilesTypeOK, MailIsInFolder, AddedHasFile, AddedIsEmpty

\* ChangePin and StoreToken: the file stays a file, and what was confirmed changes in other fields.
LEMMA RewriteKeeps ==
  ASSUME FilesInv, step' = step, inFolder' = inFolder, gen' = gen,
         accFile.is # "missing" => accFile'.is # "missing",
         \/ acked' = acked
         \/ \E pin : acked' = [acked EXCEPT !.pin = pin]
         \/ \E token : acked' = [acked EXCEPT !.token = token]
  PROVE  FilesInv'
<1>1. /\ acked' = [there |-> acked'.there, pin |-> acked'.pin, token |-> acked'.token]
      /\ acked'.there = acked.there
  BY DEF FilesInv, FilesTypeOK
<1> QED BY <1>1 DEF FilesInv, FilesTypeOK, MailIsInFolder, AddedHasFile, AddedIsEmpty

LEMMA ChangePinKeeps ==
  ASSUME FilesInv, NEW pin \in AccountPins, NEW newPin \in AccountPins, ChangePin(pin, newPin)
  PROVE  FilesInv'
<1> DEFINE acc == [account EXCEPT !.m_strPin = newPin,
                                  !.m_Config = SetValue(IdAfterChange(@, newPin), CONFIG_NAME, NoText)]
<1> HIDE DEF acc
<1>1. CASE Stored(acc) /\ acked' = [acked EXCEPT !.pin = newPin] /\ UNCHANGED step
  BY <1>1, StoredLeavesFile, RewriteKeeps DEF ChangePin
<1>2. CASE NotStored(acc, acc, tried)
  BY <1>2, NotStoredKeepsFile, RewriteKeeps DEF ChangePin
<1> QED BY <1>1, <1>2 DEF ChangePin, acc

LEMMA StoreTokenKeeps ==
  ASSUME FilesInv, NEW token \in AccountTokens \cup {NoText}, StoreToken(token)
  PROVE  FilesInv'
<1> DEFINE acc == [account EXCEPT !.m_strToken = token,
                                  !.m_Config = SetValue(@, CONFIG_TOKEN, token)]
<1> HIDE DEF acc
<1>1. CASE Stored(acc) /\ acked' = [acked EXCEPT !.token = token] /\ UNCHANGED step
  BY <1>1, StoredLeavesFile, RewriteKeeps DEF StoreToken
<1>2. CASE NotStored(acc, acc, tried)
  BY <1>2, NotStoredKeepsFile, RewriteKeeps DEF StoreToken
<1> QED BY <1>1, <1>2 DEF StoreToken, acc

\* The number is not there for its owner from here on, whatever stays on disk.
LEMMA DeleteConfigKeeps ==
  ASSUME FilesInv, NEW pin \in AccountPins, DeleteConfig(pin)
  PROVE  FilesInv'
BY DEF DeleteConfig, NothingAcked, FilesInv, FilesTypeOK, MailIsInFolder, AddedHasFile, AddedIsEmpty

LEMMA DeleteFolderKeeps == FilesInv /\ DeleteFolder => FilesInv'
<1> SUFFICES ASSUME FilesInv, DeleteFolder PROVE FilesInv'
  OBVIOUS
<1> DEFINE Emptied == [there |-> FALSE, mail |-> {}]
           Left(left) == [inFolder EXCEPT !.mail = left]
<1>1. inFolder' = Emptied \/ \E left \in SUBSET inFolder.mail : inFolder' = Left(left)
  BY DEF DeleteFolder
<1>2. \A left : Left(left) = [there |-> inFolder.there, mail |-> left]
  BY DEF FilesInv, FilesTypeOK
<1> HIDE DEF Left
<1>3. /\ inFolder' = [there |-> inFolder'.there, mail |-> inFolder'.mail]
      /\ inFolder'.there \in BOOLEAN
      /\ inFolder'.mail \subseteq inFolder.mail
      /\ ~inFolder'.there => inFolder'.mail = {}
  <2>1. CASE inFolder' = Emptied
    <3>1. inFolder'.there = FALSE /\ inFolder'.mail = {}
      BY <2>1
    <3> QED BY <2>1, <3>1
  <2>2. ASSUME NEW left \in SUBSET inFolder.mail, inFolder' = Left(left)
        PROVE  <1>3!:
    <3>1. inFolder' = [there |-> inFolder.there, mail |-> left]
      BY <1>2, <2>2
    <3>2. inFolder'.there = inFolder.there /\ inFolder'.mail = left
      BY <3>1
    <3> QED BY <2>2, <3>1, <3>2 DEF FilesInv, FilesTypeOK, MailIsInFolder
  <2> QED BY <1>1, <2>1, <2>2
<1> QED BY <1>3 DEF DeleteFolder, FilesInv, FilesTypeOK, MailIsInFolder, AddedHasFile, AddedIsEmpty

LEMMA StopKeeps == FilesInv /\ Stop => FilesInv'
<1> SUFFICES ASSUME FilesInv, Stop PROVE FilesInv'
  OBVIOUS
<1>1. /\ inFolder' = [there |-> inFolder'.there, mail |-> inFolder'.mail]
      /\ inFolder'.there = inFolder.there
      /\ inFolder'.mail \subseteq inFolder.mail
  BY DEF Stop, FilesInv, FilesTypeOK
<1> QED BY <1>1 DEF Stop, FilesInv, FilesTypeOK, MailIsInFolder, AddedHasFile, AddedIsEmpty

\* What changes the account in memory only.
LEMMA MemoryKeeps ==
  ASSUME FilesInv, UNCHANGED <<accFile, inFolder, step, gen, acked>>
  PROVE  FilesInv'
BY DEF FilesInv, FilesTypeOK, MailIsInFolder, AddedHasFile, AddedIsEmpty

LEMMA FilesStep == FilesInv /\ [AccountNext]_accountVars => FilesInv'
<1> SUFFICES ASSUME FilesInv, [AccountNext]_accountVars PROVE FilesInv'
  OBVIOUS
<1>1. ASSUME NEW pin \in AccountPins, CheckPin(pin)
      PROVE  FilesInv'
  BY <1>1, MemoryKeeps DEF CheckPin
<1>2. CASE LoadAccount
  BY <1>2, MemoryKeeps DEF LoadAccount
<1>3. CASE DropAccount
  BY <1>3, MemoryKeeps DEF DropAccount
<1>4. CASE UNCHANGED accountVars
  BY <1>4, MemoryKeeps DEF accountVars
<1> QED BY <1>1, <1>2, <1>3, <1>4, AddNumberKeeps, ChangePinKeeps, StoreTokenKeeps, DeleteConfigKeeps,
           CreateInFolderKeeps, StoreMsgKeeps, DeleteFolderKeeps, StopKeeps DEF AccountNext

\* Whoever is told that a number was added has an inbox without mail of an earlier owner,
\* after any deletions that stopped half way.
THEOREM NewOwnerFindsNothing == AccountSpec => []AddedIsEmpty
<1>1. FilesInv => AddedIsEmpty
  BY DEF FilesInv
<1> QED BY <1>1, FilesInitInv, FilesStep, PTL DEF AccountSpec

-----------------------------------------------------------------------------
(***************************************************************************)
(* AccountFiles: a number opens as the calls on it were answered.          *)
(***************************************************************************)

\* What the config of an account is made of: its pairs, and what else is in its text. A name
\* without a value is no pair when it is read again.
AccountPairs == AccountNames \X (AccountValues \cup {NoText})
OtherLines == {EmptyLine} \cup {pair \in AccountPairs : pair[2] = NoText}
Regular(config) == Made(config, AccountPairs, OtherLines) /\ Unique(config)

\* A pair of an account is one line, and stands for itself when it has a value.
LEMMA AccountTexts ==
  ASSUME NEW pair \in AccountPairs
  PROVE  /\ pair = <<pair[1], pair[2]>> /\ PairOn(pair) = pair
         /\ pair[1] \in AccountNames /\ pair[2] \in AccountValues \cup {NoText}
         /\ SplitPair(pair) <=> pair[2] # NoText
         /\ Effective(pair) <=> pair[2] # NoText
<1>1. /\ pair = <<pair[1], pair[2]>> /\ Len(pair) = 2
      /\ pair[1] \in AccountNames /\ pair[2] \in AccountValues \cup {NoText}
  BY DEF AccountPairs
<1>2. pair[1] \notin {NoText, Blank} \cup LongTexts
  BY <1>1, AccountAssumption
<1>3. pair[2] # NoText => pair[2] \notin {NoText, Blank} \cup LongTexts
  BY <1>1, AccountAssumption
<1>4. pair[2] # Blank
  BY <1>3, ConfigAssumption
<1>5. Trimmed(pair[1]) = pair[1] /\ Trimmed(pair[2]) = pair[2]
  BY <1>2, <1>4 DEF Trimmed
<1>6. SplitPair(pair) <=> pair[2] # NoText
  BY <1>1, <1>2 DEF SplitPair
<1>7. Effective(pair) <=> pair[2] # NoText
  BY <1>2, <1>3, <1>5, <1>6 DEF Effective
<1>8. PairOn(pair) = pair
  BY <1>1, <1>5 DEF PairOn
<1> QED BY <1>1, <1>6, <1>7, <1>8

\* An empty line and a name without a value make no pair.
LEMMA OtherLinesAreNoPairs ==
  ASSUME NEW line \in OtherLines
  PROVE  ~SplitPair(line) /\ ~Effective(line)
<1>1. CASE line = EmptyLine
  BY <1>1 DEF EmptyLine, SplitPair, Effective
<1>2. CASE line \in AccountPairs /\ line[2] = NoText
  BY <1>2, AccountTexts
<1> QED BY <1>1, <1>2 DEF OtherLines

\* What a name is read as, from what its config holds.
LEMMA HeldIsRead ==
  ASSUME NEW config, Regular(config), NEW name
  PROVE  /\ \A value : Holds(config, <<name, value>>) => GetValue(config, name) = {value}
         /\ (\A value : ~Holds(config, <<name, value>>)) => GetValue(config, name) = {}
<1>1. /\ Made(config, AccountPairs, OtherLines)
      /\ \A k \in DOMAIN config.m_mValues :
           config.m_mValues[k] \in AccountPairs
      /\ \A i, k \in DOMAIN config.m_mValues : config.m_mValues[i][1] = config.m_mValues[k][1] => i = k
  BY DEF Regular, Made, Unique
<1>2. ASSUME NEW value, Holds(config, <<name, value>>)
      PROVE  GetValue(config, name) = {value}
  <2>1. PICK k \in DOMAIN config.m_mValues : config.m_mValues[k] = <<name, value>>
    BY <1>2 DEF Holds
  <2>2. \A i \in DOMAIN config.m_mValues : config.m_mValues[i][1] = name => config.m_mValues[i][2] = value
    BY <1>1, <2>1
  <2> QED BY <1>1, <1>2, <2>2, ValueIs
<1>3. ASSUME \A value : ~Holds(config, <<name, value>>)
      PROVE  GetValue(config, name) = {}
  <2>1. ASSUME NEW k \in DOMAIN config.m_mValues, config.m_mValues[k][1] = name
        PROVE  FALSE
    <3>1. config.m_mValues[k] = <<name, config.m_mValues[k][2]>>
      BY <1>1, <2>1, AccountTexts
    <3> QED BY <1>3, <3>1 DEF Holds
  <2> QED BY <1>1, <2>1, NoValueIs
<1> QED BY <1>2, <1>3

LEMMA HeldPair ==
  ASSUME NEW config, Regular(config), NEW pair, Holds(config, pair)
  PROVE  pair \in AccountPairs
BY DEF Regular, Made, Holds

\* The text of a config, read: the pairs with a value, and no others.
LEMMA ReadAgain ==
  ASSUME NEW config, Regular(config)
  PROVE  LET read == FromString(IntoString(config)) IN
         /\ Regular(read)
         /\ \A pair : Holds(read, pair) <=> Holds(config, pair) /\ pair[2] # NoText
<1> DEFINE P == {config.m_mValues[k] : k \in DOMAIN config.m_mValues}
           Q == {pair \in P : pair[2] # NoText}
           text == IntoString(config)
           read == FromString(text)
<1>1. P \subseteq AccountPairs /\ Made(config, P, OtherLines) /\ Unique(config)
  <2>1. config.m_mValues \in Seq(AccountPairs)
    BY DEF Regular, Made
  <2>2. P \subseteq AccountPairs /\ config.m_mValues \in Seq(P)
    BY <2>1
  <2> HIDE DEF P
  <2> QED BY <2>2 DEF Regular, Made
<1>2. \A pair : Holds(config, pair) <=> pair \in P
  BY DEF Holds
<1>3. EmptyLine \in OtherLines
  BY DEF OtherLines
<1> HIDE DEF P
<1>4. text \in Seq(P \cup OtherLines) /\ \A pair \in P : Stands(text, pair)
  <2>1. /\ IntoString(config) \in Seq(P \cup OtherLines)
        /\ \A pair : Holds(config, pair) => Stands(IntoString(config), pair)
    BY <1>1, <1>3, ConfigWritten
  <2> QED BY <1>2, <2>1
<1>5. UniqueLines(text)
  <2>1. \A line \in OtherLines : ~Effective(line)
    BY OtherLinesAreNoPairs
  <2>2. \A pair \in P : Effective(pair) => PairOn(pair)[1] = pair[1]
    BY <1>1, AccountTexts
  <2> QED BY <1>1, <1>3, <2>1, <2>2, UniqueWritten
<1> HIDE DEF text
<1>6. PICK n \in Nat : n = Len(text) /\ DOMAIN text = 1..n /\ \A i \in 1..n : text[i] \in P \cup OtherLines
  BY <1>4
<1>7. \A i \in 1..n : /\ Effective(text[i]) => PairOn(text[i]) \in Q
                      /\ ~SplitPair(text[i]) => text[i] \in OtherLines
  <2> SUFFICES ASSUME NEW i \in 1..n
               PROVE  /\ Effective(text[i]) => PairOn(text[i]) \in Q
                      /\ ~SplitPair(text[i]) => text[i] \in OtherLines
    OBVIOUS
  <2>1. CASE text[i] \in OtherLines
    BY <2>1, OtherLinesAreNoPairs
  <2>2. CASE text[i] \in P
    <3>1. text[i] \in AccountPairs
      BY <1>1, <2>2
    <3>2. /\ PairOn(text[i]) = text[i]
          /\ SplitPair(text[i]) <=> text[i][2] # NoText
          /\ Effective(text[i]) <=> text[i][2] # NoText
      BY <3>1, AccountTexts
    <3> QED BY <2>2, <3>1, <3>2 DEF OtherLines
  <2> QED BY <1>6, <2>1, <2>2
<1> HIDE DEF Q
<1>8. /\ Made(read, Q, OtherLines)
      /\ \A i \in 1..n : Effective(text[i]) => Holds(read, PairOn(text[i]))
  BY <1>6, <1>7, TextRead
<1>9. Unique(read)
  BY <1>4, <1>5, UniqueRead
<1> HIDE DEF read
<1>10. Q \subseteq P /\ \A pair : pair \in Q <=> pair \in P /\ pair[2] # NoText
  BY DEF Q
<1>11. Regular(read)
  <2>1. read.m_mValues \in Seq(AccountPairs)
    BY <1>1, <1>8, <1>10 DEF Made
  <2> QED BY <1>8, <1>9, <2>1 DEF Regular, Made
<1>12. ASSUME NEW pair, Holds(read, pair) PROVE Holds(config, pair) /\ pair[2] # NoText
  BY <1>2, <1>8, <1>10, <1>12 DEF Holds, Made
<1>13. ASSUME NEW pair, Holds(config, pair), pair[2] # NoText PROVE Holds(read, pair)
  <2>1. pair \in P /\ pair \in AccountPairs
    BY <1>1, <1>2, <1>13
  <2>2. PICK i \in 1..n : text[i] = pair
    BY <1>4, <1>6, <2>1 DEF Stands
  <2>3. Effective(pair) /\ PairOn(pair) = pair
    BY <1>13, <2>1, AccountTexts
  <2> QED BY <1>8, <2>2, <2>3
<1> QED BY <1>11, <1>12, <1>13 DEF read, text

-----------------------------------------------------------------------------
(* What a number opens with *)

LEMMA PinIs ==
  ASSUME NEW config, NEW pin \in AccountPins, GetValue(config, CONFIG_ID) = {EncryptedId(pin)}
  PROVE  PinOf(config) = {pin}
<1>1. ASSUME NEW p \in AccountPins, {EncryptedId(p)} = {EncryptedId(pin)} PROVE p = pin
  <2>1. EncryptedId(p) = EncryptedId(pin)
    BY <1>1
  <2>2. EncryptedId(p)[1] = p /\ EncryptedId(pin)[1] = pin
    BY DEF EncryptedId
  <2> QED BY <2>1, <2>2
<1> QED BY <1>1 DEF PinOf

LEMMA TokenIs ==
  ASSUME NEW config, NEW token, GetValue(config, CONFIG_TOKEN) = {token}
  PROVE  TokenOf(config) = token
BY DEF TokenOf

\* Written and read again, a number opens as before.
LEMMA OpensAgain ==
  ASSUME NEW config, Regular(config)
  PROVE  LET read == FromString(IntoString(config)) IN
         Regular(read) /\ PinOf(read) = PinOf(config) /\ TokenOf(read) = TokenOf(config)
<1> DEFINE read == FromString(IntoString(config))
<1>1. /\ Regular(read)
      /\ \A pair : Holds(read, pair) <=> Holds(config, pair) /\ pair[2] # NoText
  BY ReadAgain
<1> HIDE DEF read
<1>2. ASSUME NEW name
      PROVE  \/ GetValue(read, name) = GetValue(config, name)
             \/ GetValue(config, name) = {NoText} /\ GetValue(read, name) = {}
  <2>1. CASE \E value : Holds(config, <<name, value>>)
    <3>1. PICK value : Holds(config, <<name, value>>)
      BY <2>1
    <3>2. GetValue(config, name) = {value}
      BY <3>1, HeldIsRead
    <3>3. CASE value # NoText
      <4>1. Holds(read, <<name, value>>)
        BY <1>1, <3>1, <3>3
      <4> QED BY <1>1, <3>2, <4>1, HeldIsRead
    <3>4. CASE value = NoText
      <4>1. ASSUME NEW other, Holds(read, <<name, other>>) PROVE FALSE
        <5>1. Holds(config, <<name, other>>) /\ other # NoText
          BY <1>1, <4>1
        <5>2. GetValue(config, name) = {other}
          BY <5>1, HeldIsRead
        <5> QED BY <3>2, <3>4, <5>1, <5>2
      <4>2. GetValue(read, name) = {}
        BY <1>1, <4>1, HeldIsRead
      <4> QED BY <3>2, <3>4, <4>2
    <3> QED BY <3>3, <3>4
  <2>2. CASE \A value : ~Holds(config, <<name, value>>)
    <3>1. \A value : ~Holds(read, <<name, value>>)
      BY <1>1, <2>2
    <3> QED BY <1>1, <2>2, <3>1, HeldIsRead
  <2> QED BY <2>1, <2>2
<1>3. PinOf(read) = PinOf(config)
  <2>1. \A pin \in AccountPins : EncryptedId(pin) # NoText
    BY AccountAssumption DEF AccountValues
  <2>2. ASSUME NEW pin \in AccountPins
        PROVE  GetValue(read, CONFIG_ID) = {EncryptedId(pin)} <=>
                 GetValue(config, CONFIG_ID) = {EncryptedId(pin)}
    BY <1>2, <2>1
  <2> QED BY <2>2 DEF PinOf
<1>4. TokenOf(read) = TokenOf(config)
  <2>1. CASE GetValue(read, CONFIG_TOKEN) = GetValue(config, CONFIG_TOKEN)
    BY <2>1 DEF TokenOf
  <2>2. CASE GetValue(config, CONFIG_TOKEN) = {NoText} /\ GetValue(read, CONFIG_TOKEN) = {}
    <3>1. TokenOf(config) = NoText
      BY <2>2, TokenIs
    <3>2. TokenOf(read) = NoText
      BY <2>2 DEF TokenOf
    <3> QED BY <3>1, <3>2
  <2> QED BY <1>2, <2>1, <2>2
<1> QED BY <1>1, <1>3, <1>4 DEF read

\* SetValue changes what its name is read as, and nothing else.
LEMMA ValueChanged ==
  ASSUME NEW config, Regular(config), NEW name \in AccountNames, NEW value \in AccountValues \cup {NoText}
  PROVE  LET new == SetValue(config, name, value) IN
         /\ Regular(new) /\ GetValue(new, name) = {value}
         /\ \A other : other # name => GetValue(new, other) = GetValue(config, other)
<1> DEFINE new == SetValue(config, name, value)
           pair == <<name, value>>
<1>1. pair \in AccountPairs /\ {name, value} \cap LongTexts = {} /\ Trimmed(value) = value
  <2>1. pair \in AccountPairs
    BY DEF AccountPairs
  <2>2. name \notin LongTexts /\ (value # NoText => value \notin {NoText, Blank} \cup LongTexts)
    BY AccountAssumption
  <2> QED BY <2>1, <2>2, ConfigAssumption DEF Trimmed
<1>2. /\ Made(new, AccountPairs, OtherLines)
      /\ Holds(new, pair)
      /\ \A p : p[1] # name => (Holds(new, p) <=> Holds(config, p))
      /\ Unique(new)
  <2>1. {name, Trimmed(value)} \cap LongTexts = {} /\ <<name, Trimmed(value)>> \in AccountPairs
    BY <1>1
  <2>2. /\ Made(new, AccountPairs, OtherLines)
        /\ Holds(new, <<name, Trimmed(value)>>)
        /\ \A p : p[1] # name => (Holds(new, p) <=> Holds(config, p))
        /\ Unique(config) => Unique(new)
    BY <2>1, ValueSet DEF Regular
  <2> QED BY <1>1, <2>2 DEF Regular
<1> HIDE DEF new
<1>3. Regular(new)
  BY <1>2 DEF Regular
<1>4. GetValue(new, name) = {value}
  BY <1>2, <1>3, HeldIsRead
<1>5. ASSUME NEW other, other # name PROVE GetValue(new, other) = GetValue(config, other)
  <2>1. \A v : Holds(new, <<other, v>>) <=> Holds(config, <<other, v>>)
    BY <1>2, <1>5
  <2>2. CASE \E v : Holds(config, <<other, v>>)
    BY <1>3, <2>1, <2>2, HeldIsRead
  <2>3. CASE \A v : ~Holds(config, <<other, v>>)
    BY <1>3, <2>1, <2>3, HeldIsRead
  <2> QED BY <2>2, <2>3
<1> QED BY <1>3, <1>4, <1>5 DEF new

\* The config that AddNumber writes opens with its pin, and has no token.
LEMMA NewAccountOpens ==
  ASSUME NEW pin \in AccountPins
  PROVE  LET config == NewAccount(pin).m_Config IN
         Regular(config) /\ PinOf(config) = {pin} /\ TokenOf(config) = NoText
<1>1. Regular(NewConfig)
  BY NewConfigMade DEF Regular, Unique, NewConfig
<1>2. PICK a : a = SetValue(NewConfig, CONFIG_ID, EncryptedId(pin))
  OBVIOUS
<1>3. Regular(a) /\ GetValue(a, CONFIG_ID) = {EncryptedId(pin)}
  BY <1>1, <1>2, ValueChanged DEF AccountNames, AccountValues
<1>4. PICK b : b = SetValue(a, CONFIG_NAME, NoText)
  OBVIOUS
<1>5. Regular(b) /\ GetValue(b, CONFIG_ID) = {EncryptedId(pin)}
  BY <1>3, <1>4, ValueChanged DEF AccountNames, CONFIG_ID, CONFIG_NAME
<1>6. PICK c : c = SetValue(b, CONFIG_TOKEN, NoText)
  OBVIOUS
<1>7. Regular(c) /\ GetValue(c, CONFIG_ID) = {EncryptedId(pin)} /\ GetValue(c, CONFIG_TOKEN) = {NoText}
  BY <1>5, <1>6, ValueChanged DEF AccountNames, CONFIG_ID, CONFIG_TOKEN
<1>8. NewAccount(pin).m_Config = c
  BY <1>2, <1>4, <1>6 DEF NewAccount
<1> QED BY <1>7, <1>8, PinIs, TokenIs

\* What ChangePin makes of a config.
LEMMA ChangedPinOpens ==
  ASSUME NEW config, Regular(config), NEW newPin \in AccountPins
  PROVE  LET new == SetValue(IdAfterChange(config, newPin), CONFIG_NAME, NoText) IN
         Regular(new) /\ PinOf(new) = {newPin} /\ TokenOf(new) = TokenOf(config)
<1>1. PICK a : a = IdAfterChange(config, newPin)
  OBVIOUS
<1>2. /\ Regular(a) /\ GetValue(a, CONFIG_ID) = {EncryptedId(newPin)}
      /\ GetValue(a, CONFIG_TOKEN) = GetValue(config, CONFIG_TOKEN)
  BY <1>1, ValueChanged DEF IdAfterChange, AccountNames, AccountValues, CONFIG_ID, CONFIG_TOKEN
<1>3. PICK b : b = SetValue(a, CONFIG_NAME, NoText)
  OBVIOUS
<1>4. /\ Regular(b) /\ GetValue(b, CONFIG_ID) = {EncryptedId(newPin)}
      /\ GetValue(b, CONFIG_TOKEN) = GetValue(config, CONFIG_TOKEN)
  BY <1>2, <1>3, ValueChanged DEF AccountNames, CONFIG_ID, CONFIG_NAME, CONFIG_TOKEN
<1>5. TokenOf(b) = TokenOf(config)
  BY <1>4 DEF TokenOf
<1> QED BY <1>1, <1>3, <1>4, <1>5, PinIs

\* What StoreToken makes of a config.
LEMMA ChangedTokenOpens ==
  ASSUME NEW config, Regular(config), NEW token \in AccountTokens \cup {NoText}
  PROVE  LET new == SetValue(config, CONFIG_TOKEN, token) IN
         Regular(new) /\ PinOf(new) = PinOf(config) /\ TokenOf(new) = token
<1>1. PICK b : b = SetValue(config, CONFIG_TOKEN, token)
  OBVIOUS
<1>2. /\ Regular(b) /\ GetValue(b, CONFIG_TOKEN) = {token}
      /\ GetValue(b, CONFIG_ID) = GetValue(config, CONFIG_ID)
  BY <1>1, ValueChanged DEF AccountNames, AccountValues, CONFIG_ID, CONFIG_TOKEN
<1>3. PinOf(b) = PinOf(config)
  BY <1>2 DEF PinOf
<1> QED BY <1>1, <1>2, <1>3, TokenIs

\* A config that opens with one of these pins and has one of these tokens.
Known(config, pins, tokens) ==
  PinOf(config) # {} /\ PinOf(config) \subseteq pins /\ TokenOf(config) \in tokens

FileKnown(file, pins, tokens) ==
  file.is = "whole" =>
    Regular(FromString(file.text)) /\ Known(FromString(file.text), pins, tokens)

\* The pin and the token that an account has of its own are those of its config.
Agrees(acc) ==
  /\ acc = [m_strPin |-> acc.m_strPin, m_strToken |-> acc.m_strToken, m_Config |-> acc.m_Config]
  /\ Regular(acc.m_Config)
  /\ acc.m_strPin # NoText => acc.m_strPin \in PinOf(acc.m_Config)
  /\ acc.m_strToken = TokenOf(acc.m_Config)

\* What the number may open with: what was promised, and what was tried since.
MayOpen == tried.pins \cup {acked.pin}
MayHave == tried.tokens \cup {acked.token}

\* Until AddNumber has made the folder nothing is promised: its pin has to be the one that the
\* file opens with when it is.
BeingAdded ==
  step = "add" =>
    \E pin \in AccountPins :
      account = NewAccount(pin) /\ FileKnown(accFile, {pin}, {NoText})

OpensInv ==
  /\ tried = [pins |-> tried.pins, tokens |-> tried.tokens]
  /\ FileKnown(accFile, MayOpen, MayHave)
  /\ account # NoAccount => Agrees(account) /\ Known(account.m_Config, MayOpen, MayHave)
  /\ BeingAdded
  /\ step # "idle" => ~acked.there
  /\ acked.there => inFolder.there

LEMMA KnownAmongMore ==
  ASSUME NEW config, NEW pins, NEW tokens, Known(config, pins, tokens),
         NEW morePins, NEW moreTokens, pins \subseteq morePins, tokens \subseteq moreTokens
  PROVE  Known(config, morePins, moreTokens)
BY DEF Known

LEMMA FileKnownAmongMore ==
  ASSUME NEW file, NEW pins, NEW tokens, FileKnown(file, pins, tokens),
         NEW morePins, NEW moreTokens, pins \subseteq morePins, tokens \subseteq moreTokens
  PROVE  FileKnown(file, morePins, moreTokens)
BY KnownAmongMore DEF FileKnown

LEMMA TornIsKnown ==
  ASSUME NEW pins, NEW tokens
  PROVE  FileKnown(Torn, pins, tokens) /\ FileKnown(Missing, pins, tokens)
BY DEF FileKnown, Torn, Missing

\* A config written as a whole opens as it did in memory.
LEMMA WrittenIsKnown ==
  ASSUME NEW config, Regular(config), NEW pins, NEW tokens, Known(config, pins, tokens)
  PROVE  FileKnown(Whole(IntoString(config)), pins, tokens)
<1>1. PICK text : text = IntoString(config)
  OBVIOUS
<1>2. Whole(text).text = text
  BY DEF Whole
<1>3. /\ Regular(FromString(text)) /\ PinOf(FromString(text)) = PinOf(config)
      /\ TokenOf(FromString(text)) = TokenOf(config)
  BY <1>1, OpensAgain
<1> QED BY <1>1, <1>2, <1>3 DEF FileKnown, Known

LEMMA NewAccountAgrees ==
  ASSUME NEW pin \in AccountPins
  PROVE  /\ Agrees(NewAccount(pin)) /\ NewAccount(pin).m_strPin = pin
         /\ Known(NewAccount(pin).m_Config, {pin}, {NoText})
         /\ PinOf(NewAccount(pin).m_Config) = {pin} /\ TokenOf(NewAccount(pin).m_Config) = NoText
<1>1. PICK config : config = NewAccount(pin).m_Config
  OBVIOUS
<1>2. Regular(config) /\ PinOf(config) = {pin} /\ TokenOf(config) = NoText
  BY <1>1, NewAccountOpens
<1>3. NewAccount(pin) = [m_strPin |-> pin, m_strToken |-> NoText, m_Config |-> config]
  BY <1>1 DEF NewAccount
<1> QED BY <1>1, <1>2, <1>3 DEF Agrees, Known

\* A write that succeeds as far as the call knows.
LEMMA StoredOpens ==
  ASSUME NEW acc, Agrees(acc), Stored(acc), NEW pins, NEW tokens, Known(acc.m_Config, pins, tokens)
  PROVE  FileKnown(accFile', pins, tokens) /\ account' = acc /\ inFolder' = inFolder
<1>1. Regular(acc.m_Config)
  BY DEF Agrees
<1>2. FileKnown(Whole(IntoString(acc.m_Config)), pins, tokens)
  BY <1>1, WrittenIsKnown
<1>3. accFile' = Whole(IntoString(acc.m_Config)) \/ accFile' = Torn
  BY DEF Stored
<1> QED BY <1>2, <1>3, TornIsKnown DEF Stored

\* A call that fails to write: what it tried is known from here on, on disk and in memory.
LEMMA NotStoredOpens ==
  ASSUME NEW acc, Agrees(acc), PinOf(acc.m_Config) # {}, NEW kept, NEW since, NotStored(acc, kept, since),
         FileKnown(accFile, since.pins \cup {acked.pin}, since.tokens \cup {acked.token}),
         kept \in {NoAccount, acc}
  PROVE  /\ tried' = [pins |-> tried'.pins, tokens |-> tried'.tokens]
         /\ FileKnown(accFile', MayOpen', MayHave')
         /\ account' # NoAccount => Agrees(account') /\ Known(account'.m_Config, MayOpen', MayHave')
         /\ UNCHANGED <<inFolder, step, acked>>
<1>1. UNCHANGED <<inFolder, step, acked>>
  BY DEF NotStored
<1>2. PICK pins, tokens : /\ pins = since.pins \cup PinOf(acc.m_Config)
                          /\ tokens = since.tokens \cup {TokenOf(acc.m_Config)}
  OBVIOUS
<1>3. tried' = [pins |-> pins, tokens |-> tokens]
  BY <1>2 DEF NotStored
<1>4. /\ tried' = [pins |-> tried'.pins, tokens |-> tried'.tokens]
      /\ MayOpen' = pins \cup {acked.pin} /\ MayHave' = tokens \cup {acked.token}
  BY <1>1, <1>3 DEF MayOpen, MayHave
<1>5. PICK open, have : open = pins \cup {acked.pin} /\ have = tokens \cup {acked.token}
  OBVIOUS
<1>6. FileKnown(accFile, open, have)
  <2>1. since.pins \cup {acked.pin} \subseteq open /\ since.tokens \cup {acked.token} \subseteq have
    BY <1>2, <1>5
  <2> QED BY <2>1, FileKnownAmongMore
<1>7. Known(acc.m_Config, open, have)
  BY <1>2, <1>5 DEF Known
<1>8. FileKnown(Whole(IntoString(acc.m_Config)), open, have)
  BY <1>7, WrittenIsKnown DEF Agrees
<1>9. /\ accFile' \in {accFile, Torn, Whole(IntoString(acc.m_Config))}
      /\ account' = kept \/ account' = NoAccount
  BY DEF NotStored
<1>10. FileKnown(accFile', open, have)
  BY <1>6, <1>8, <1>9, TornIsKnown
<1>11. account' # NoAccount => Agrees(account') /\ Known(account'.m_Config, open, have)
  BY <1>7, <1>9
<1> QED BY <1>1, <1>4, <1>5, <1>10, <1>11

LEMMA AddNumberOpens ==
  ASSUME FilesInv, OpensInv, NEW pin \in AccountPins, AddNumber(pin)
  PROVE  OpensInv'
<1>1. PICK acc : acc = NewAccount(pin)
  OBVIOUS
<1>2. /\ Agrees(acc) /\ Known(acc.m_Config, {pin}, {NoText})
      /\ PinOf(acc.m_Config) = {pin}
  BY <1>1, NewAccountAgrees
<1>3. ~acked.there /\ accFile = Missing
  BY DEF AddNumber, Missing, FilesInv, AddedHasFile
<1>4. CASE /\ Stored(acc)
           /\ step' = "add"
           /\ acked' = NothingAcked
           /\ tried' = [pins |-> {pin}, tokens |-> {NoText}]
  <2>1. FileKnown(accFile', {pin}, {NoText}) /\ account' = acc
    BY <1>2, <1>4, StoredOpens
  <2>2. tried'.pins = {pin} /\ tried'.tokens = {NoText} /\ ~acked'.there
    BY <1>4 DEF NothingAcked
  <2>3. {pin} \subseteq MayOpen' /\ {NoText} \subseteq MayHave'
    BY <2>2 DEF MayOpen, MayHave
  <2>4. FileKnown(accFile', MayOpen', MayHave')
    BY <2>1, <2>3, FileKnownAmongMore
  <2>5. Known(acc.m_Config, MayOpen', MayHave')
    BY <1>2, <2>3, KnownAmongMore
  <2>6. BeingAdded'
    BY <1>1, <2>1 DEF BeingAdded
  <2> QED BY <1>2, <1>4, <2>1, <2>2, <2>4, <2>5, <2>6 DEF OpensInv
<1>5. CASE NotStored(acc, NoAccount, NothingTried)
  <2>1. FileKnown(accFile, NothingTried.pins \cup {acked.pin}, NothingTried.tokens \cup {acked.token})
    BY <1>3, TornIsKnown
  <2>2. /\ tried' = [pins |-> tried'.pins, tokens |-> tried'.tokens]
        /\ FileKnown(accFile', MayOpen', MayHave')
        /\ account' # NoAccount => Agrees(account') /\ Known(account'.m_Config, MayOpen', MayHave')
        /\ UNCHANGED <<inFolder, step, acked>>
    BY <1>2, <1>5, <2>1, NotStoredOpens
  <2>3. step' = "idle"
    BY <2>2 DEF AddNumber
  <2> QED BY <1>3, <2>2, <2>3 DEF OpensInv, BeingAdded
<1> QED BY <1>1, <1>4, <1>5 DEF AddNumber

\* What was added is promised with the pin that its file, when it is whole, opens with.
LEMMA CreateInFolderOpens == FilesInv /\ OpensInv /\ CreateInFolder => OpensInv'
<1> SUFFICES ASSUME FilesInv, OpensInv, CreateInFolder PROVE OpensInv'
  OBVIOUS
<1>1. step = "add" /\ step' = "idle" /\ accFile' = accFile /\ account' = account /\ ~acked.there
  BY DEF CreateInFolder, FilesInv, AddedHasFile
<1>2. PICK pin \in AccountPins : account = NewAccount(pin) /\ FileKnown(accFile, {pin}, {NoText})
  BY <1>1 DEF OpensInv, BeingAdded
<1>3. /\ Agrees(account) /\ account.m_strPin = pin
      /\ Known(account.m_Config, {pin}, {NoText})
  BY <1>2, NewAccountAgrees
<1>4. CASE /\ inFolder' = [inFolder EXCEPT !.there = TRUE]
           /\ acked' = [there |-> TRUE, pin |-> account.m_strPin, token |-> NoText]
           /\ tried' = NothingTried
  <2>1. inFolder'.there
    BY <1>4 DEF FilesInv, FilesTypeOK
  <2>2. acked'.pin = pin /\ acked'.token = NoText
    BY <1>3, <1>4
  <2>3. tried' = [pins |-> tried'.pins, tokens |-> tried'.tokens]
    BY <1>4 DEF NothingTried
  <2>4. {pin} \subseteq MayOpen' /\ {NoText} \subseteq MayHave'
    BY <2>2 DEF MayOpen, MayHave
  <2>5. FileKnown(accFile', MayOpen', MayHave')
    BY <1>1, <1>2, <2>4, FileKnownAmongMore
  <2>6. Known(account.m_Config, MayOpen', MayHave')
    BY <1>3, <2>4, KnownAmongMore
  <2> QED BY <1>1, <1>3, <2>1, <2>3, <2>5, <2>6 DEF OpensInv, BeingAdded
<1>5. CASE UNCHANGED <<inFolder, acked, tried>>
  BY <1>1, <1>5 DEF OpensInv, BeingAdded, MayOpen, MayHave
<1> QED BY <1>4, <1>5 DEF CreateInFolder

\* What was promised and tried stays, the file too, and the account is one that agrees.
LEMMA AccountChanges ==
  ASSUME OpensInv, step = "idle", step' = "idle", UNCHANGED <<accFile, acked, tried>>,
         acked.there => inFolder'.there,
         account' # NoAccount => Agrees(account') /\ Known(account'.m_Config, MayOpen, MayHave)
  PROVE  OpensInv'
<1>1. MayOpen' = MayOpen /\ MayHave' = MayHave
  BY DEF MayOpen, MayHave
<1> QED BY <1>1 DEF OpensInv, BeingAdded

\* The account that is loaded is the one that was written.
LEMMA LoadAccountOpens == OpensInv /\ LoadAccount => OpensInv'
<1> SUFFICES ASSUME OpensInv, LoadAccount PROVE OpensInv'
  OBVIOUS
<1>1. PICK config : config = FromString(accFile.text)
  OBVIOUS
<1>2. account' = IF accFile.is # "whole" THEN NoAccount
                 ELSE [m_strPin |-> NoText, m_Config |-> config, m_strToken |-> TokenOf(config)]
  BY <1>1 DEF LoadAccount
<1>3. accFile.is = "whole" => Regular(config) /\ Known(config, MayOpen, MayHave)
  BY <1>1 DEF OpensInv, FileKnown
<1>4. account' # NoAccount => Agrees(account') /\ Known(account'.m_Config, MayOpen, MayHave)
  BY <1>2, <1>3 DEF Agrees
<1> QED BY <1>4, AccountChanges DEF LoadAccount, OpensInv

LEMMA CheckPinOpens ==
  ASSUME OpensInv, NEW pin \in AccountPins, CheckPin(pin)
  PROVE  OpensInv'
<1>1. /\ Agrees(account) /\ Known(account.m_Config, MayOpen, MayHave)
      /\ pin \in PinOf(account.m_Config)
  BY DEF CheckPin, Opens, OpensInv, Agrees
<1>2. account' = [m_strPin |-> pin, m_strToken |-> account.m_strToken, m_Config |-> account.m_Config]
  BY <1>1 DEF CheckPin, Agrees
<1>3. Agrees(account') /\ Known(account'.m_Config, MayOpen, MayHave)
  BY <1>1, <1>2 DEF Agrees
<1> QED BY <1>3, AccountChanges DEF CheckPin, OpensInv

\* A new pin is promised when the call answers, tried when it fails; so is a token.
LEMMA ChangePinOpens ==
  ASSUME FilesInv, OpensInv, NEW pin \in AccountPins, NEW newPin \in AccountPins, ChangePin(pin, newPin)
  PROVE  OpensInv'
<1> DEFINE changed == [account EXCEPT
                         !.m_strPin = newPin,
                         !.m_Config = SetValue(IdAfterChange(@, newPin), CONFIG_NAME, NoText)]
<1>1. PICK config : config = SetValue(IdAfterChange(account.m_Config, newPin), CONFIG_NAME, NoText)
  OBVIOUS
<1>2. PICK acc : acc = changed
  OBVIOUS
<1>3. step = "idle" /\ account # NoAccount /\ Agrees(account) /\ Known(account.m_Config, MayOpen, MayHave)
  BY DEF ChangePin, Opens, OpensInv
<1>4. Regular(config) /\ PinOf(config) = {newPin} /\ TokenOf(config) = TokenOf(account.m_Config)
  BY <1>1, <1>3, ChangedPinOpens DEF Agrees
<1>5. acc = [m_strPin |-> newPin, m_strToken |-> account.m_strToken, m_Config |-> config]
  BY <1>1, <1>2, <1>3 DEF Agrees
<1>6. Agrees(acc) /\ PinOf(acc.m_Config) = {newPin} /\ TokenOf(acc.m_Config) \in MayHave
  BY <1>3, <1>4, <1>5 DEF Agrees, Known
<1>7. CASE /\ Stored(acc)
           /\ acked' = [acked EXCEPT !.pin = newPin]
           /\ tried' = [tried EXCEPT !.pins = {}] /\ UNCHANGED step
  <2>1. /\ acked'.pin = newPin /\ acked'.token = acked.token /\ acked'.there = acked.there
        /\ tried'.tokens = tried.tokens
        /\ tried' = [pins |-> tried'.pins, tokens |-> tried'.tokens]
    BY <1>7 DEF FilesInv, FilesTypeOK, OpensInv
  <2>2. newPin \in MayOpen' /\ MayHave' = MayHave
    BY <2>1 DEF MayOpen, MayHave
  <2>3. Known(acc.m_Config, MayOpen', MayHave')
    BY <1>6, <2>2 DEF Known
  <2>4. FileKnown(accFile', MayOpen', MayHave') /\ account' = acc /\ inFolder' = inFolder
    BY <1>6, <1>7, <2>3, StoredOpens
  <2> QED BY <1>3, <1>6, <1>7, <2>1, <2>3, <2>4 DEF OpensInv, BeingAdded
<1>8. CASE NotStored(acc, acc, tried)
  <2>1. FileKnown(accFile, tried.pins \cup {acked.pin}, tried.tokens \cup {acked.token})
    BY DEF OpensInv, MayOpen, MayHave
  <2>2. /\ tried' = [pins |-> tried'.pins, tokens |-> tried'.tokens]
        /\ FileKnown(accFile', MayOpen', MayHave')
        /\ account' # NoAccount => Agrees(account') /\ Known(account'.m_Config, MayOpen', MayHave')
        /\ UNCHANGED <<inFolder, step, acked>>
    BY <1>6, <1>8, <2>1, NotStoredOpens
  <2> QED BY <1>3, <2>2 DEF OpensInv, BeingAdded
<1> QED BY <1>2, <1>7, <1>8 DEF ChangePin

LEMMA StoreTokenOpens ==
  ASSUME FilesInv, OpensInv, NEW token \in AccountTokens \cup {NoText}, StoreToken(token)
  PROVE  OpensInv'
<1> DEFINE changed == [account EXCEPT !.m_strToken = token,
                                      !.m_Config = SetValue(@, CONFIG_TOKEN, token)]
<1>1. PICK config : config = SetValue(account.m_Config, CONFIG_TOKEN, token)
  OBVIOUS
<1>2. PICK acc : acc = changed
  OBVIOUS
<1>3. step = "idle" /\ account # NoAccount /\ Agrees(account) /\ Known(account.m_Config, MayOpen, MayHave)
  BY DEF StoreToken, OpensInv
<1>4. Regular(config) /\ PinOf(config) = PinOf(account.m_Config) /\ TokenOf(config) = token
  BY <1>1, <1>3, ChangedTokenOpens DEF Agrees
<1>5. acc = [m_strPin |-> account.m_strPin, m_strToken |-> token, m_Config |-> config]
  BY <1>1, <1>2, <1>3 DEF Agrees
<1>6. /\ Agrees(acc) /\ PinOf(acc.m_Config) # {} /\ PinOf(acc.m_Config) \subseteq MayOpen
      /\ TokenOf(acc.m_Config) = token
  BY <1>3, <1>4, <1>5 DEF Agrees, Known
<1>7. CASE /\ Stored(acc)
           /\ acked' = [acked EXCEPT !.token = token]
           /\ tried' = [tried EXCEPT !.tokens = {}] /\ UNCHANGED step
  <2>1. /\ acked'.pin = acked.pin /\ acked'.token = token /\ acked'.there = acked.there
        /\ tried'.pins = tried.pins
        /\ tried' = [pins |-> tried'.pins, tokens |-> tried'.tokens]
    BY <1>7 DEF FilesInv, FilesTypeOK, OpensInv
  <2>2. MayOpen' = MayOpen /\ token \in MayHave'
    BY <2>1 DEF MayOpen, MayHave
  <2>3. Known(acc.m_Config, MayOpen', MayHave')
    BY <1>6, <2>2 DEF Known
  <2>4. FileKnown(accFile', MayOpen', MayHave') /\ account' = acc /\ inFolder' = inFolder
    BY <1>6, <1>7, <2>3, StoredOpens
  <2> QED BY <1>3, <1>6, <1>7, <2>1, <2>3, <2>4 DEF OpensInv, BeingAdded
<1>8. CASE NotStored(acc, acc, tried)
  <2>1. FileKnown(accFile, tried.pins \cup {acked.pin}, tried.tokens \cup {acked.token})
    BY DEF OpensInv, MayOpen, MayHave
  <2>2. /\ tried' = [pins |-> tried'.pins, tokens |-> tried'.tokens]
        /\ FileKnown(accFile', MayOpen', MayHave')
        /\ account' # NoAccount => Agrees(account') /\ Known(account'.m_Config, MayOpen', MayHave')
        /\ UNCHANGED <<inFolder, step, acked>>
    BY <1>6, <1>8, <2>1, NotStoredOpens
  <2> QED BY <1>3, <2>2 DEF OpensInv, BeingAdded
<1> QED BY <1>2, <1>7, <1>8 DEF StoreToken

\* A deletion promises nothing: what the file opened with is among what was tried.
LEMMA DeleteConfigOpens ==
  ASSUME OpensInv, NEW pin \in AccountPins, DeleteConfig(pin)
  PROVE  OpensInv'
<1>1. /\ account # NoAccount /\ Agrees(account) /\ Known(account.m_Config, MayOpen, MayHave)
      /\ pin \in PinOf(account.m_Config)
  BY DEF DeleteConfig, Opens, OpensInv, Agrees
<1>2. account' = [m_strPin |-> pin, m_strToken |-> account.m_strToken, m_Config |-> account.m_Config]
  BY <1>1 DEF DeleteConfig, Agrees
<1>3. Agrees(account') /\ account'.m_Config = account.m_Config
  BY <1>1, <1>2 DEF Agrees
<1>4. tried' = [pins |-> tried'.pins, tokens |-> tried'.tokens] /\ ~acked'.there /\ step' = "delete"
  BY DEF DeleteConfig, NothingAcked
<1>5. MayOpen \subseteq MayOpen' /\ MayHave \subseteq MayHave'
  BY DEF DeleteConfig, MayOpen, MayHave
<1>6. Known(account.m_Config, MayOpen', MayHave')
  BY <1>1, <1>5, KnownAmongMore
<1>7. FileKnown(accFile', MayOpen', MayHave')
  <2>1. accFile' = Missing \/ accFile' = accFile
    BY DEF DeleteConfig
  <2>2. FileKnown(accFile, MayOpen', MayHave')
    BY <1>5, FileKnownAmongMore DEF OpensInv
  <2> QED BY <2>1, <2>2, TornIsKnown
<1> QED BY <1>3, <1>4, <1>6, <1>7 DEF OpensInv, BeingAdded

\* The end of a deletion, and a process that stops in one or in AddNumber.
LEMMA AccountLeaves ==
  ASSUME OpensInv, step' = "idle", account' = NoAccount, UNCHANGED <<accFile, acked, tried>>,
         ~acked.there
  PROVE  OpensInv'
<1>1. MayOpen' = MayOpen /\ MayHave' = MayHave
  BY DEF MayOpen, MayHave
<1> QED BY <1>1 DEF OpensInv, BeingAdded

LEMMA OpensInitInv == AccountInit => OpensInv
<1> SUFFICES ASSUME AccountInit PROVE OpensInv
  OBVIOUS
<1>1. FileKnown(accFile, MayOpen, MayHave)
  BY TornIsKnown DEF AccountInit
<1> QED BY <1>1 DEF AccountInit, OpensInv, BeingAdded, NothingAcked, NothingTried

LEMMA OpensStep == FilesInv /\ OpensInv /\ [AccountNext]_accountVars => OpensInv'
<1> SUFFICES ASSUME FilesInv, OpensInv, [AccountNext]_accountVars PROVE OpensInv'
  OBVIOUS
<1>1. CASE DropAccount
  BY <1>1, AccountChanges DEF DropAccount, OpensInv
<1>2. CASE StoreMsg
  BY <1>2, AccountChanges DEF StoreMsg, OpensInv
<1>3. CASE DeleteFolder
  BY <1>3, AccountLeaves DEF DeleteFolder, OpensInv
<1>4. CASE Stop
  <2>1. ~acked.there
    BY <1>4 DEF Stop, OpensInv, FilesInv, AddedHasFile
  <2> QED BY <1>4, <2>1, AccountLeaves DEF Stop
<1>5. CASE UNCHANGED accountVars
  BY <1>5 DEF accountVars, OpensInv, BeingAdded, MayOpen, MayHave
<1> QED BY <1>1, <1>2, <1>3, <1>4, <1>5, AddNumberOpens, CreateInFolderOpens, LoadAccountOpens,
           CheckPinOpens, ChangePinOpens, StoreTokenOpens, DeleteConfigOpens DEF AccountNext

\* A number opens with the pin and the token of the last call that succeeded, or of one that
\* failed since, from its file or from memory, whatever writes failed and wherever the process
\* stopped; and a number that was added keeps its file and its folder.
THEOREM OpensAfterFaults == AccountSpec => []OpensAsAnswered
<1>1. FilesInv /\ OpensInv => OpensAsAnswered
  BY DEF OpensInv, FilesInv, AddedHasFile, OpensAsAnswered, FileKnown, Known, KnownConfig, Agrees,
         MayOpen, MayHave, Missing
<1> QED BY <1>1, FilesInitInv, FilesStep, OpensInitInv, OpensStep, PTL DEF AccountSpec
=============================================================================
