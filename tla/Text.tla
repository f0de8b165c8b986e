-------------------------------- MODULE Text --------------------------------
(***************************************************************************)
(* What a CZorgeString is for its callers (Core/Includes/ZorgeString.h): a *)
(* text that operations change and that answers questions, as the comments *)
(* on the operations say.  Three questions are not asked.  A comparison    *)
(* with the empty text tells a string never set from one made empty.       *)
(* Right(0) is the whole text and Right of the whole length nothing, and   *)
(* Find of a word of one character that is not there from a position on    *)
(* returns the length: the comments promise the trailing characters        *)
(* (ZorgeString.cpp:462) and -1 (:585).                                    *)
(***************************************************************************)
EXTENDS Integers, Sequences
LOCAL INSTANCE SequencesExt
LOCAL INSTANCE FiniteSetsExt

CONSTANTS Chars, MaxText, MaxArg

VARIABLES text, answers

Space == 32
UpperCase(c) == IF c \in 97..122 THEN c - 32 ELSE c
LowerCase(c) == IF c \in 65..90 THEN c + 32 ELSE c

Args == UNION {[1..n -> Chars] : n \in 0..MaxArg}
Words == Args \ {<<>>}

Each(t, Change(_)) == [i \in DOMAIN t |-> Change(t[i])]

-----------------------------------------------------------------------------
(* Questions *)

MatchesAt(t, i, word) == i + Len(word) - 1 <= Len(t) /\ SubSeq(t, i, i + Len(word) - 1) = word
Matches(t, word) == {i \in DOMAIN t : MatchesAt(t, i, word)}

\* "Return -1 if not found. Index starts from 0", also where the search starts.
PlaceFrom(t, word, n) ==
  LET found == {i \in Matches(t, word) : i > n}
  IN IF found # {} THEN Min(found) - 1 ELSE -1

LastPlaceOf(t, c) == IF Matches(t, <<c>>) = {} THEN -1 ELSE Max(Matches(t, <<c>>)) - 1

\* strcmp: -1, 0 or 1.
Order(t, u) ==
  LET differ == {i \in 1..Max({Len(t), Len(u)}) :
                   i > Len(t) \/ i > Len(u) \/ (i <= Len(t) /\ i <= Len(u) /\ t[i] # u[i])}
  IN IF differ = {} THEN 0
     ELSE LET i == Min(differ)
          IN IF i > Len(t) THEN -1 ELSE IF i > Len(u) THEN 1 ELSE IF t[i] < u[i] THEN -1 ELSE 1

\* The parts between separators; what is after the last one counts when it is not empty.
Parts(t, c) ==
  LET cuts == SetToSortSeq(Matches(t, <<c>>), <)
      Start(k) == IF k = 1 THEN 1 ELSE cuts[k - 1] + 1
      closed == [k \in DOMAIN cuts |-> SubSeq(t, Start(k), cuts[k] - 1)]
      rest == SubSeq(t, Start(Len(cuts) + 1), Len(t))
  IN IF rest = <<>> THEN closed ELSE Append(closed, rest)

\* The questions reach one place and one character past the end.
Answers(t) ==
  LET places == 0..(Len(t) + 1)
      words == {word \in Words : Len(word) <= Len(t) + 1}
      searches == {<<word, n>> \in words \X places : Len(word) > 1 \/ PlaceFrom(t, word, n) # -1}
  IN
  [length |-> Len(t),
   left |-> [n \in places |-> SubSeq(t, 1, Min({n, Len(t)}))],
   right |-> [n \in 1..(Len(t) - 1) |-> SubSeq(t, Len(t) - n + 1, Len(t))],
   mid |-> [n, m \in places |-> SubSeq(t, n + 1, Min({n + m, Len(t)}))],
   at |-> [n \in places |-> IF n < Len(t) THEN t[n + 1] ELSE 0],
   isFirst |-> [c \in Chars |-> t # <<>> /\ Head(t) = c],
   isLast |-> [c \in Chars |-> t # <<>> /\ t[Len(t)] = c],
   find |-> [word \in words |-> PlaceFrom(t, word, 0)],
   findFrom |-> [s \in searches |-> PlaceFrom(t, s[1], s[2])],
   findChar |-> [c \in Chars, n \in places |-> PlaceFrom(t, <<c>>, n)],
   reverseFind |-> [c \in Chars |-> LastPlaceOf(t, c)],
   order |-> [word \in words |-> Order(t, word)],
   isNoCase |-> [word \in words |-> Each(word, UpperCase) = Each(t, UpperCase)],
   split |-> [c \in Chars |-> Parts(t, c)]]

-----------------------------------------------------------------------------
(* Changes *)

Trimmed(t) ==
  LET kept == {i \in DOMAIN t : t[i] # Space}
  IN IF kept = {} THEN <<>> ELSE SubSeq(t, Min(kept), Max(kept))

\* The matches from the left that do not overlap are replaced.
Replaced(t, word, other) ==
  LET from[i \in 1..(Len(t) + 1)] ==
        IF i > Len(t) THEN <<>>
        ELSE IF MatchesAt(t, i, word) THEN other \o from[i + Len(word)]
        ELSE <<t[i]>> \o from[i + 1]
  IN from[1]

Become(t) == Len(t) <= MaxText /\ text' = t

TextInit == text = <<>>

TextNext ==
  \/ \E t \in Args : Become(t) \/ Become(text \o t)
  \/ Become(text \o text)
  \/ Become(Trimmed(text))
  \/ text # <<>> /\ (Become(Front(text)) \/ Become(Tail(text)))
  \/ Become(Each(text, UpperCase)) \/ Become(Each(text, LowerCase))
  \/ \E word, other \in Words : Become(Replaced(text, word, other))

TextSpec == TextInit /\ [][TextNext]_text /\ [](answers = Answers(text))
=============================================================================
