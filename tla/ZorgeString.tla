---------------------------- MODULE ZorgeString ----------------------------
(***************************************************************************)
(* The string that every part of the server is written with                *)
(* (Core/ZorgeString.cpp): a buffer of m_nAlloc bytes, of which m_nUsed    *)
(* and a zero byte are the text.  Text says what its callers may rely on.  *)
(*                                                                         *)
(* A buffer is kept with all its bytes, so that one byte too many, a zero  *)
(* byte left out or an old byte read again show.  Format is not modelled.  *)
(* A memcpy to lower addresses of the same buffer is taken to copy upwards.*)
(***************************************************************************)
EXTENDS Integers, Sequences
LOCAL INSTANCE SequencesExt
LOCAL INSTANCE FiniteSetsExt

CONSTANTS
  Chars,      \* codes of characters, none 0
  MaxText,    \* bound: the longest text
  MaxArg,     \* bound: the longest argument
  AllocUnit,  \* 16 in the code
  AllocSteps  \* what SetAllocStep is called with

VARIABLE str  \* m_szData (all its bytes; null when there are none), m_nUsed, m_nAllocStep

Nul == 0
OldByte == -1   \* what fresh memory holds

Texts == UNION {[1..n -> Chars] : n \in 0..MaxArg}
WordArgs == Texts \ {<<>>}

NullString == [m_szData |-> <<>>, m_nUsed |-> 0, m_nAllocStep |-> 0]
m_nAlloc(s) == Len(s.m_szData)

NewBuffer(n) == SubSeq([i \in 1..n |-> OldByte], 1, n)

\* memcpy of some bytes to a place; what does not fit is lost.
Write(cells, at, bytes) ==
  LET all == SubSeq(cells, 1, at) \o bytes \o SubSeq(cells, at + Len(bytes) + 1, Len(cells))
  IN SubSeq(all, 1, Len(cells))

\* The text up to the zero byte, as strlen sees it; it runs into what follows the buffer when
\* there is no zero byte.
CString(cells) ==
  LET ends == {i \in DOMAIN cells : cells[i] = Nul}
  IN IF cells = <<>> THEN <<>>
     ELSE IF ends = {} THEN Append(cells, OldByte)
     ELSE SubSeq(cells, 1, Min(ends) - 1)

\* operator const char*.
Chars0(s) == CString(s.m_szData)

-----------------------------------------------------------------------------
(* Setting and appending *)

AllocFor_Exact(n) == IF n = 0 THEN AllocUnit ELSE ((n + AllocUnit - 1) \div AllocUnit) * AllocUnit
AllocFor(n) == (n \div AllocUnit + 1) * AllocUnit

SetEmpty(s) == [s EXCEPT !.m_nUsed = 0, !.m_szData = Write(@, 0, <<Nul>>)]

\* The size is that of nLen even when the text is shorter.
SetData(s, t, n) ==
  LET nLen == IF n = 0 THEN Len(t) ELSE n
      nLenToCopy == Min({Len(t), nLen})
      size == IF AllocFor(nLen) < s.m_nAllocStep THEN AllocFor(s.m_nAllocStep) ELSE AllocFor(nLen)
      cells == IF nLenToCopy >= m_nAlloc(s) THEN NewBuffer(size) ELSE s.m_szData
  IN IF nLenToCopy = 0 THEN SetEmpty(s)
     ELSE [s EXCEPT !.m_nUsed = nLenToCopy,
                    !.m_szData = Write(cells, 0, Append(SubSeq(t, 1, nLenToCopy), Nul))]

AppendData(s, t) ==
  LET room == m_nAlloc(s) - s.m_nUsed - 1
      larger == Write(NewBuffer(AllocFor(s.m_nUsed + Len(t) + s.m_nAllocStep)), 0,
                      SubSeq(s.m_szData, 1, s.m_nUsed))
  IN IF m_nAlloc(s) = 0 THEN SetData(s, t, 0)
     ELSE [s EXCEPT !.m_nUsed = @ + Len(t),
                    !.m_szData = Write(IF room > Len(t) THEN @ ELSE larger, s.m_nUsed, Append(t, Nul))]

FromText(t) == SetData(NullString, t, 0)

\* The copy constructor, with all the bytes of the other.
Copy(s) == [s EXCEPT !.m_nAllocStep = 0]

IsEqual(s, o) == s.m_szData # <<>> /\ o.m_szData # <<>> /\ Chars0(s) = Chars0(o)

Assign(s, o) == IF IsEqual(s, o) THEN s ELSE Copy(o)

GetBuffer(s, n) ==
  IF m_nAlloc(s) >= n THEN s ELSE [s EXCEPT !.m_nUsed = 0, !.m_szData = Write(NewBuffer(n), 0, <<Nul>>)]

-----------------------------------------------------------------------------
(* Changes in place *)

\* As long as there is a character before the zero byte, from the left.
LeadingSpaces(t) == Min({i \in 1..(Len(t) + 1) : i > Len(t) \/ t[i] # 32}) - 1

UsedBytes(s, from) == SubSeq(s.m_szData, from + 1, s.m_nUsed)

TrimLeft(s) ==
  LET found == LeadingSpaces(Chars0(s)) IN
  IF s.m_nUsed = 0 \/ found = 0 THEN s
  ELSE IF found = s.m_nUsed THEN SetEmpty(s)
  ELSE [s EXCEPT !.m_nUsed = @ - found, !.m_szData = Write(@, 0, Append(UsedBytes(s, found), Nul))]

\* Backwards to a character that is no space; with none it would leave the buffer, but every
\* caller is Trim.
TrimRight(s) ==
  IF s.m_nUsed = 0 THEN s
  ELSE LET last == Max({i \in 1..s.m_nUsed : s.m_szData[i] # 32})
       IN [s EXCEPT !.m_nUsed = last,
                    !.m_szData = Write(@, last, [i \in 1..(s.m_nUsed - last) |-> Nul])]

Trim(s) == TrimRight(TrimLeft(s))

Chop_NoEnd(s) == IF s.m_nUsed = 0 THEN s ELSE [s EXCEPT !.m_nUsed = @ - 1]
Chop(s) ==
  IF s.m_nUsed = 0 THEN s
  ELSE [s EXCEPT !.m_nUsed = @ - 1, !.m_szData = Write(@, s.m_nUsed - 1, <<Nul>>)]

\* The bytes up to the zero byte move down by one.
ChopBegin(s) ==
  IF s.m_nUsed = 0 THEN s
  ELSE [s EXCEPT !.m_nUsed = @ - 1,
                 !.m_szData = Write(Write(@, 0, Tail(Chars0(s))), s.m_nUsed - 1, <<Nul>>)]

Upper(c) == IF c \in 97..122 THEN c - 32 ELSE c
Lower(c) == IF c \in 65..90 THEN c + 32 ELSE c
ChangeEach(s, Change(_)) ==
  [s EXCEPT !.m_szData = Write(@, 0, [i \in DOMAIN Chars0(s) |-> Change(Chars0(s)[i])])]

MakeUpper(s) == IF s.m_nUsed = 0 THEN s ELSE ChangeEach(s, Upper)
MakeLower(s) == IF s.m_nUsed = 0 THEN s ELSE ChangeEach(s, Lower)

ReplaceChar(s, c, d) == LET Change(e) == IF e = c THEN d ELSE e IN ChangeEach(s, Change)

\* Comparing goes on to the end of the word or of the text.
StartsAt(t, i, word) == i + Len(word) - 1 <= Len(t) /\ SubSeq(t, i, i + Len(word) - 1) = word

\* The scan of Replace and of CountForReplace: matches found, and the text they leave; "skip"
\* is how much of the last match is to come.
Scan(t, source, target) ==
  LET Scanned(r, i) ==
        IF r.skip > 0 THEN [r EXCEPT !.skip = @ - 1]
        ELSE IF StartsAt(t, i, source)
        THEN [skip |-> Len(source) - 1, count |-> r.count + 1, out |-> r.out \o target]
        ELSE [r EXCEPT !.out = Append(@, t[i])]
  IN FoldLeft(Scanned, [skip |-> 0, count |-> 0, out |-> <<>>], [i \in DOMAIN t |-> i])

CopySize(s, source, target) ==
  s.m_nUsed + 1 + (IF Len(target) > Len(source)
                   THEN Scan(Chars0(s), source, target).count * (Len(target) - Len(source)) ELSE 0)

\* In place when the lengths are equal, through a copy otherwise.
Replace(s, source, target) ==
  LET result == Scan(Chars0(s), source, target) IN
  IF s.m_szData = <<>> THEN s
  ELSE IF Len(source) = Len(target) THEN [s EXCEPT !.m_szData = Write(@, 0, result.out)]
  ELSE IF Len(target) > Len(source) /\ result.count = 0 THEN s
  ELSE SetData(s, CString(Write(NewBuffer(CopySize(s, source, target)), 0, Append(result.out, Nul))), 0)

-----------------------------------------------------------------------------
(* Questions *)

Left(s, n) ==
  IF n = 0 \/ s.m_nUsed = 0 THEN NullString
  ELSE IF n >= s.m_nUsed THEN Copy(s) ELSE FromText(SubSeq(s.m_szData, 1, n))

Right(s, n) ==
  IF s.m_nUsed = 0 \/ n >= s.m_nUsed THEN NullString
  ELSE IF n = 0 THEN Copy(s) ELSE FromText(UsedBytes(s, s.m_nUsed - n))

Mid(s, n, m) ==
  IF s.m_nUsed = 0 \/ n >= s.m_nUsed \/ m = 0 THEN NullString
  ELSE FromText(SubSeq(s.m_szData, n + 1, IF n + m > s.m_nUsed THEN s.m_nUsed ELSE n + m))

Found(places) == IF places = {} THEN -1 ELSE Min(places) - 1

\* Find of a character and of a word, from a position; the first position is 0.
FindChar(s, c, n) ==
  IF s.m_nUsed = 0 \/ n >= s.m_nUsed THEN -1
  ELSE Found({i \in DOMAIN Chars0(s) : i > n /\ Chars0(s)[i] = c})

FindWord(s, word) == IF s.m_nUsed = 0 THEN -1 ELSE Found({i \in DOMAIN Chars0(s) : StartsAt(Chars0(s), i, word)})

\* Goes on while as much is left as the word has, or to the zero byte: what it returns there
\* is the length.
FindWordFrom(s, word, n) ==
  LET places == {i \in (n + 1)..Len(Chars0(s)) : StartsAt(Chars0(s), i, word)} IN
  IF s.m_nUsed = 0 \/ n + Len(word) > s.m_nUsed THEN -1
  ELSE IF places # {} THEN Min(places) - 1
  ELSE IF Len(word) > 1 THEN -1 ELSE s.m_nUsed

ReverseFind(s, c) ==
  LET places == {i \in 1..s.m_nUsed : s.m_szData[i] = c}
  IN IF places = {} THEN -1 ELSE Max(places) - 1

ByteAt(cells, i) == IF i \in DOMAIN cells THEN cells[i] ELSE OldByte
GetAt(s, n) == IF s.m_nUsed = 0 \/ n > s.m_nUsed THEN 0 ELSE ByteAt(s.m_szData, n + 1)
IsFirstChar(s, c) == s.m_nUsed # 0 /\ s.m_szData[1] = c
IsLastChar(s, c) == s.m_nUsed # 0 /\ s.m_szData[s.m_nUsed] = c

\* strcmp: up to the first byte that differs, the zero byte included.
StrCmp(t, u) ==
  LET a == Append(t, Nul)
      b == Append(u, Nul)
      i == Min({k \in 1..Min({Len(a), Len(b)}) : a[k] # b[k] \/ a[k] = Nul})
  IN IF a[i] < b[i] THEN -1 ELSE IF a[i] > b[i] THEN 1 ELSE 0

Compare(s, o) == IF s.m_szData = <<>> \/ o.m_szData = <<>> THEN -1 ELSE StrCmp(Chars0(s), Chars0(o))

CompareNoCase(s, t) ==
  IF s.m_szData = <<>> THEN -1 ELSE StrCmp(Chars0(MakeUpper(FromText(t))), Chars0(MakeUpper(Copy(s))))

\* A token grows by one character at a time.
Split(s, c) ==
  LET Taken(r, ch) == IF ch = c THEN [out |-> Append(r.out, r.one), one |-> NullString]
                     ELSE [r EXCEPT !.one = AppendData(@, <<ch>>)]
      r == FoldLeft(Taken, [out |-> <<>>, one |-> NullString], Chars0(s))
      tokens == IF r.one.m_nUsed = 0 THEN r.out ELSE Append(r.out, r.one)
  IN [k \in DOMAIN tokens |-> Chars0(tokens[k])]

\* What callers see, of the places and words that Text asks for.
Observed ==
  LET places == 0..(str.m_nUsed + 1)
      words == {word \in WordArgs : Len(word) <= str.m_nUsed + 1}
      searches == {<<word, n>> \in words \X places :
                     Len(word) > 1 \/ FindChar(str, word[1], n) # -1}
  IN
  [length |-> str.m_nUsed,
   left |-> [n \in places |-> Chars0(Left(str, n))],
   right |-> [n \in 1..(str.m_nUsed - 1) |-> Chars0(Right(str, n))],
   mid |-> [n, m \in places |-> Chars0(Mid(str, n, m))],
   at |-> [n \in places |-> GetAt(str, n)],
   isFirst |-> [c \in Chars |-> IsFirstChar(str, c)],
   isLast |-> [c \in Chars |-> IsLastChar(str, c)],
   find |-> [word \in words |-> FindWord(str, word)],
   findFrom |-> [s \in searches |-> FindWordFrom(str, s[1], s[2])],
   findChar |-> [c \in Chars, n \in places |-> FindChar(str, c, n)],
   reverseFind |-> [c \in Chars |-> ReverseFind(str, c)],
   order |-> [word \in words |-> Compare(str, FromText(word))],
   isNoCase |-> [word \in words |-> CompareNoCase(str, word) = 0],
   split |-> [c \in Chars |-> Split(str, c)]]

-----------------------------------------------------------------------------
StringInit == str = NullString

\* The bound on texts.
Becomes(s) == s.m_nUsed <= MaxText /\ str' = s

StringNext ==
  \/ \E t \in Texts :
       \/ \E n \in 0..MaxArg : Becomes(SetData(str, t, n))
       \/ Becomes(AppendData(str, t))
       \/ Becomes(Assign(str, FromText(t)))
  \/ Becomes(NullString) \/ Becomes(SetEmpty(str)) \/ Becomes(Copy(str)) \/ Becomes(AppendData(str, Chars0(str)))
  \/ \E n \in 0..MaxText : Becomes(GetBuffer(str, n))
  \/ \E n \in AllocSteps : Becomes([str EXCEPT !.m_nAllocStep = n])
  \/ Becomes(Trim(str)) \/ Becomes(Chop(str)) \/ Becomes(ChopBegin(str))
  \/ Becomes(MakeUpper(str)) \/ Becomes(MakeLower(str))
  \/ \E c, d \in Chars : Becomes(ReplaceChar(str, c, d))
  \/ \E source, target \in WordArgs : Becomes(Replace(str, source, target))

StringSpec == StringInit /\ [][StringNext]_str

-----------------------------------------------------------------------------
(* Properties *)

T == INSTANCE Text WITH text <- Chars0(str), answers <- Observed

\* Whatever was done to a string before - a buffer kept full to its last byte, grown in
\* steps, reserved and not filled, or with old bytes after the end - its next change and its
\* answers are those of the text it holds, but for the questions that Text leaves out.
ImplementsText == T!TextSpec
=============================================================================
