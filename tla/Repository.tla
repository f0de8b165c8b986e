----------------------------- MODULE Repository -----------------------------
(***************************************************************************)
(* The life of a storage: SetRoot, Init and Login of CStorage              *)
(* (Core/Storage.cpp) and the text of its config file, which the operator  *)
(* may edit by hand at any time.                                           *)
(*                                                                         *)
(* Login runs alone: the daemon calls it before its threads start, the     *)
(* shell has one thread.  The storage keeps its password in four places,   *)
(* set one after the other, and each remembers here whose it is.  One of   *)
(* the limits of the caches stands for the four, the port for the          *)
(* parameters that only the daemon reads.                                  *)
(***************************************************************************)
EXTENDS Config

CONSTANTS
  Keys,      \* storage passwords
  RepoGuids,
  Port, Limit,            \* the values that Init writes
  OtherValue, Remark,     \* what the operator writes
  NoFile,
  MaxEdits

VARIABLES
  repoFile,  \* the lines of <root>/config, or NoFile
  storage,   \* m_Status, and the password of m_Coder, of m_strKey and the coder pool, of
             \*   m_arLetter, and of the file names that SetPsw and MsgBlockInitText cipher
  m_Config,
  succeeded,       \* whether the last Login or Init succeeded
  written,   \* history: the value that Init wrote for each parameter
  edited,    \* history: the parameters the operator touched since
  edits      \* the edits so far

repositoryVars == <<repoFile, storage, m_Config, succeeded, written, edited, edits>>

NoKey == "no key"
Names == {"Repo.Id", "Repo.Key", "Listener.Port", "Blocks.Cache.Mem.KB"}

\* EncryptToHexChars; another password does not decipher to the same id.
Encrypted(key, guid) == <<key, guid>>

Default(key, guid) ==
  [name \in Names |->
     CASE name = "Repo.Id" -> guid
       [] name = "Repo.Key" -> Encrypted(key, guid)
       [] name = "Listener.Port" -> Port
       [] OTHER -> Limit]

\* What Default gives a parameter; the program writes nothing that is empty or too long.
Values == {Port, Limit} \cup RepoGuids \cup {Encrypted(key, guid) : key \in Keys, guid \in RepoGuids}
ASSUME ValuesAssumption == (Names \cup Values) \cap ({NoText, Blank} \cup LongTexts) = {}

\* A value and a comment for each parameter, two comments for the limits.
GenerateConfigFile(default) ==
  LET Parameter(config, name) == SetComment(SetValue(config, name, default[name]), name, Remark)
      identity == Parameter(Parameter(NewConfig, "Repo.Id"), "Repo.Key")
      limits == Parameter(Parameter(identity, "Listener.Port"), "Blocks.Cache.Mem.KB")
  IN SetComment(limits, "Blocks.Cache.Mem.KB", Remark)

StatusOfRoot(file) == IF file = NoFile THEN "NotInit" ELSE "ReadyToOpen"

\* A new process that called SetRoot.
NewStorage(file) ==
  [m_Status |-> StatusOfRoot(file), m_Coder |-> NoKey, m_strKey |-> NoKey,
   m_arLetter |-> NoKey, names |-> NoKey]

RepositoryInit ==
  /\ repoFile = NoFile
  /\ storage = NewStorage(NoFile)
  /\ m_Config = NewConfig
  /\ succeeded = FALSE
  /\ written = [name \in {} |-> NoText]
  /\ edited = {}
  /\ edits = 0

-----------------------------------------------------------------------------
(* Login *)

\* The status that Login starts its work in.
LoginStatus_AsItIs(file) == IF storage.m_Status = "NotInit" THEN StatusOfRoot(file) ELSE storage.m_Status
LoginStatus(file) == IF storage.m_Status = "ReadyToOpen" THEN "ReadyToOpen" ELSE StatusOfRoot(file)

IdDeciphers(config, key) ==
  \E guid \in GetValue(config, "Repo.Id") : GetValue(config, "Repo.Key") = {Encrypted(key, guid)}

\* The root folder holds no config file: the storage ends without its new key.
LoginNotInit(file) ==
  /\ LoginStatus(file) = "NotInit"
  /\ storage' = [storage EXCEPT !.m_Status = "NotInit"]
  /\ succeeded' = FALSE
  /\ UNCHANGED m_Config

\* The file went away since SetRoot: NotInit when the root is empty, Error when it is not.
LoginGone(key, file) ==
  /\ LoginStatus(file) # "NotInit"
  /\ file = NoFile
  /\ \E status \in {"NotInit", "Error"} :
       storage' = [storage EXCEPT !.m_Status = status, !.m_Coder = key, !.m_strKey = key]
  /\ succeeded' = FALSE
  /\ UNCHANGED m_Config

\* m_Status is Open before the limits are read; without one of them Login throws.
LoginRead(key, file) ==
  /\ LoginStatus(file) # "NotInit"
  /\ file # NoFile
  /\ m_Config' = FromString(file)
  /\ LET right == IdDeciphers(m_Config', key)
         complete == right /\ GetValue(m_Config', "Blocks.Cache.Mem.KB") # {}
     IN /\ storage' = [m_Status |-> IF right THEN "Open" ELSE LoginStatus(file),
                       m_Coder |-> key, m_strKey |-> key,
                       m_arLetter |-> IF right THEN key ELSE storage.m_arLetter,
                       names |-> IF complete THEN key ELSE storage.names]
        /\ succeeded' = complete

LoginOn(key, file) == LoginNotInit(file) \/ LoginGone(key, file) \/ LoginRead(key, file)

Login(key) ==
  /\ LoginOn(key, repoFile)
  /\ UNCHANGED <<repoFile, written, edited, edits>>

-----------------------------------------------------------------------------
(* Init *)

NameOn(line) == IF Len(line) = 2 THEN {line[1]} ELSE {}

MayInit == repoFile = NoFile \/ storage.m_Status = "Open"

\* A write that stops short counts as the whole: the file ends before its last pair.
InitStored(key, guid) ==
  LET default == Default(key, guid)
      text == IntoString(GenerateConfigFile(default))
  IN \E n \in {Len(text), Len(text) - 2} :
       /\ repoFile' = SubSeq(text, 1, n)
       /\ edited' = Names \ UNION {NameOn(text[i]) : i \in 1..n}
       /\ written' = default
       /\ LoginOn(key, repoFile')
       /\ UNCHANGED edits

\* A file of the old storage could not be deleted: maybe the config is gone.
InitNotClean ==
  /\ repoFile' \in {repoFile, NoFile}
  /\ succeeded' = FALSE
  /\ UNCHANGED <<storage, m_Config, written, edited, edits>>

\* The new config could not be stored: the file is not there, or it is empty.
InitNotStored(key, guid) ==
  /\ m_Config' = GenerateConfigFile(Default(key, guid))
  /\ repoFile' \in {NoFile, <<>>}
  /\ storage' = [storage EXCEPT !.m_Coder = key]
  /\ succeeded' = FALSE
  /\ edited' = Names
  /\ UNCHANGED <<written, edits>>

InitStorage(key) ==
  /\ MayInit
  /\ InitNotClean \/ \E guid \in RepoGuids : InitStored(key, guid) \/ InitNotStored(key, guid)

-----------------------------------------------------------------------------
(* The operator *)

\* What a hand writes: for the key, which Login needs, and for a parameter.
HandLines ==
  {EmptyLine, <<Remark>>} \cup
  {<<name, value>> : name \in {"Repo.Key", "Blocks.Cache.Mem.KB"},
                     value \in {OtherValue, NoText, Blank} \cup LongTexts}

Edit(file, names) ==
  /\ repoFile' = file
  /\ edited' = edited \cup names
  /\ edits' = edits + 1
  /\ UNCHANGED <<storage, m_Config, succeeded, written>>

\* A line is replaced, put before another, or taken out; the file is deleted.
EditByHand ==
  /\ repoFile # NoFile
  /\ edits < MaxEdits
  /\ \/ Edit(NoFile, Names)
     \/ \E i \in DOMAIN repoFile, line \in HandLines :
          \/ Edit([repoFile EXCEPT ![i] = line], NameOn(repoFile[i]) \cup NameOn(line))
          \/ Edit(InsertAt(repoFile, i, line), NameOn(line))
     \/ \E i \in DOMAIN repoFile : Edit(RemoveAt(repoFile, i), NameOn(repoFile[i]))

\* The process ends and another starts.
Restart ==
  /\ storage' = NewStorage(repoFile)
  /\ m_Config' = NewConfig
  /\ succeeded' = FALSE
  /\ UNCHANGED <<repoFile, written, edited, edits>>

RepositoryNext ==
  \/ \E key \in Keys : Login(key) \/ InitStorage(key)
  \/ EditByHand
  \/ Restart

RepositorySpec == RepositoryInit /\ [][RepositoryNext]_repositoryVars

-----------------------------------------------------------------------------
(* Properties *)

\* A hand that spoils one parameter of the config file - blank, too long, twice, no line at
\* all - costs that parameter only: the others read as Init wrote them.
EditIsLocal ==
  repoFile # NoFile =>
    LET read == FromString(repoFile)
    IN \A name \in Names \ edited : GetValue(read, name) = {written[name]}

\* An open storage works with one password: the one that deciphers its id, in the coders and
\* in the table of file names, and in the names of account files unless Login threw late.
OpenHasOneKey ==
  storage.m_Status = "Open" =>
    /\ storage.m_arLetter = storage.m_strKey
    /\ succeeded => storage.names = storage.m_strKey /\ IdDeciphers(m_Config, storage.m_strKey)
=============================================================================
