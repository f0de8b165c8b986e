------------------------------- MODULE Config -------------------------------
(***************************************************************************)
(* The configuration texts of the repository and of each account           *)
(* (Core/Config.cpp): "name=value" lines with the comment lines that go    *)
(* before them.                                                            *)
(*                                                                         *)
(* A text is a sequence of lines: <<name, value>> is a line with a '=' and *)
(* no '#' at its start, <<remark>> any other line, <<>> an empty one.  A   *)
(* name or a value is abstract up to what the parser tells apart: nothing, *)
(* white space only, and what is too long after trimming.                  *)
(***************************************************************************)
EXTENDS Naturals, SequencesExt

CONSTANTS
  NoText,    \* of length 0
  Blank,     \* white space only
  LongTexts  \* longer than MAX_NAME_LEN or MAX_VALUE_LEN

ASSUME ConfigAssumption == NoText # Blank /\ {NoText, Blank} \cap LongTexts = {}

EmptyLine == <<>>

\* Clear.  m_mComments is a function of the names that have comments.
NewConfig == [m_mValues |-> <<>>, m_mComments |-> [name \in {} |-> <<>>]]

Trimmed(text) == IF text = Blank THEN NoText ELSE text

\* SplitPair, on a line as it is in the file: before the names are trimmed.
SplitPair(line) == Len(line) = 2 /\ line[1] # NoText /\ line[2] # NoText

CommentsOf(config, name) ==
  IF name \in DOMAIN config.m_mComments THEN config.m_mComments[name] ELSE <<>>

\* map::insert: the comments of a name that has some stay.
InsertComments(comments, name, lines) ==
  IF lines = <<>> \/ name \in DOMAIN comments THEN comments
  ELSE [m \in DOMAIN comments \cup {name} |-> IF m = name THEN lines ELSE comments[m]]

\* A line too long loses what was read before it.
TakeLine_Clears(read, line) ==
  IF SplitPair(line) /\ {line[1], line[2]} \cap LongTexts # {}
  THEN [config |-> NewConfig, strComments |-> <<>>]
  ELSE IF ~SplitPair(line) THEN [read EXCEPT !.strComments = Append(@, line)]
  ELSE [config |-> [m_mValues |-> Append(read.config.m_mValues, <<Trimmed(line[1]), Trimmed(line[2])>>),
                    m_mComments |-> InsertComments(read.config.m_mComments, Trimmed(line[1]), read.strComments)],
        strComments |-> <<>>]

\* One line of FromString; strComments are the lines since the last pair.
TakeLine(read, line) ==
  IF ~SplitPair(line) THEN [read EXCEPT !.strComments = Append(@, line)]
  ELSE IF {Trimmed(line[1]), Trimmed(line[2])} \cap LongTexts # {} THEN [read EXCEPT !.strComments = <<>>]
  ELSE LET name == Trimmed(line[1]) IN
       [config |->
          [m_mValues |-> Append(read.config.m_mValues, <<name, Trimmed(line[2])>>),
           m_mComments |-> InsertComments(read.config.m_mComments, name, read.strComments)],
        strComments |-> <<>>]

FromString(text) == FoldLeft(TakeLine, [config |-> NewConfig, strComments |-> <<>>], text).config

\* CConfig::ToString; an empty line goes after every pair.
IntoString(config) ==
  FlattenSeq([i \in DOMAIN config.m_mValues |->
    CommentsOf(config, config.m_mValues[i][1]) \o <<config.m_mValues[i], EmptyLine>>])

\* Where a name is first found: a place, or none.  SetValue and GetValue take this one.
FirstPlace(config, name) ==
  {i \in DOMAIN config.m_mValues :
     /\ config.m_mValues[i][1] = name
     /\ \A k \in 1..(i - 1) : config.m_mValues[k][1] # name}

\* What GetValue writes to strOut when it returns true, and nothing when it returns false.
GetValue(config, name) == {config.m_mValues[i][2] : i \in FirstPlace(config, name)}

SetValue(config, name, value) ==
  IF {name, Trimmed(value)} \cap LongTexts # {} THEN config
  ELSE IF FirstPlace(config, name) = {}
  THEN [config EXCEPT !.m_mValues = Append(@, <<name, Trimmed(value)>>)]
  ELSE [config EXCEPT !.m_mValues =
         [i \in DOMAIN @ |-> IF i \in FirstPlace(config, name) THEN <<name, Trimmed(value)>> ELSE @[i]]]

SetComment(config, name, comment) ==
  IF name \in LongTexts \/ FirstPlace(config, name) = {} THEN config
  ELSE [config EXCEPT !.m_mComments =
         [m \in DOMAIN @ \cup {name} |->
            IF m = name THEN Append(CommentsOf(config, name), <<comment>>) ELSE @[m]]]
=============================================================================
