---------------------------- MODULE AccountFiles ----------------------------
(***************************************************************************)
(* What a number keeps on disk, its config file and its folder of mail,    *)
(* when writes fail and the process stops (CAccount in Core/Account.cpp,   *)
(* AddNumber and FindAccount in Storage.cpp, the files in SysUtils.cpp).   *)
(* The text of the file is that of Config.                                 *)
(*                                                                         *)
(* The calls on one number run one at a time under its lock (Storage); a   *)
(* call that a wrong pin refuses is not a step.  The file is ciphered as a *)
(* whole with the repository's key: one that is not whole does not         *)
(* decipher.  A message is known by the owner it was sent to: the gen-th   *)
(* account of the number.                                                  *)
(***************************************************************************)
EXTENDS Config

CONSTANTS
  AccountPins, AccountTokens,
  NoAccount,
  MaxAdds, MaxDrops, MaxFaults

VARIABLES
  accFile,   \* the file g_strConfigEncr: Missing, Torn, or Whole with a text
  inFolder,  \* the folder g_strMsgInEncr: whether it is there, and the owners of its mail
  account,   \* the CAccount in the cache, or NoAccount
  step,      \* the call under way between two of its effects, or "idle"
  gen,       \* the accounts added so far
  acked,     \* history: what the last calls that succeeded promised
  tried,     \* history: the pins and tokens of calls that failed since
  faults, drops

accountVars == <<accFile, inFolder, account, step, gen, acked, tried, faults, drops>>

\* A file that is not there, one that is empty or ends too early, and one as it was written.
Missing == [is |-> "missing", text |-> <<>>]
Torn == [is |-> "torn", text |-> <<>>]
Whole(text) == [is |-> "whole", text |-> text]

CONFIG_ID == "Id"
CONFIG_NAME == "Name"
CONFIG_TOKEN == "Token"

\* A GUID ciphered with the pin: no other pin deciphers it.
EncryptedId(pin) == <<pin>>

\* The names are not empty, nor are an id and a token, which are as long as a GUID makes them.
AccountNames == {CONFIG_ID, CONFIG_NAME, CONFIG_TOKEN}
AccountValues == {EncryptedId(pin) : pin \in AccountPins} \cup AccountTokens
ASSUME AccountAssumption ==
  (AccountNames \cup AccountValues) \cap ({NoText, Blank} \cup LongTexts) = {}

PinOf(config) == {pin \in AccountPins : GetValue(config, CONFIG_ID) = {EncryptedId(pin)}}

TokenOf(config) ==
  IF GetValue(config, CONFIG_TOKEN) = {} THEN NoText
  ELSE CHOOSE token \in GetValue(config, CONFIG_TOKEN) : TRUE

NothingAcked == [there |-> FALSE, pin |-> NoText, token |-> NoText]
NothingTried == [pins |-> {}, tokens |-> {}]

AccountInit ==
  /\ accFile = Missing
  /\ inFolder = [there |-> FALSE, mail |-> {}]
  /\ account = NoAccount
  /\ step = "idle"
  /\ gen = 0
  /\ acked = NothingAcked
  /\ tried = NothingTried
  /\ faults = 0
  /\ drops = 0

Opens(pin) ==
  /\ account # NoAccount
  /\ IF account.m_strPin = NoText THEN pin \in PinOf(account.m_Config) ELSE pin = account.m_strPin

Fault == faults < MaxFaults /\ faults' = faults + 1

-----------------------------------------------------------------------------
(* The file *)

\* MemToFile empties the file, then writes once, and takes a write that stops short for a
\* whole one.
Stored(acc) ==
  /\ account' = acc
  /\ \/ accFile' = Whole(IntoString(acc.m_Config)) /\ UNCHANGED faults
     \/ accFile' = Torn /\ Fault
  /\ UNCHANGED <<inFolder, drops>>

\* The file does not open, or nothing is written after it was emptied; or the process stops
\* before, in or after the write.  "kept" is what stays in the cache, "since" what was tried
\* before.
NotStored(acc, kept, since) ==
  /\ Fault
  /\ \/ account' = kept /\ accFile' \in {accFile, Torn}
     \/ account' = NoAccount /\ accFile' \in {accFile, Torn, Whole(IntoString(acc.m_Config))}
  /\ tried' = [pins |-> since.pins \cup PinOf(acc.m_Config),
               tokens |-> since.tokens \cup {TokenOf(acc.m_Config)}]
  /\ UNCHANGED <<inFolder, step, acked, drops>>

-----------------------------------------------------------------------------
(* Adding and finding a number *)

NewAccount(pin) ==
  [m_strPin |-> pin, m_strToken |-> NoText,
   m_Config |-> SetValue(SetValue(SetValue(NewConfig, CONFIG_ID, EncryptedId(pin)),
                                  CONFIG_NAME, NoText), CONFIG_TOKEN, NoText)]

\* AddNumber up to the account in the cache.
AddNumber(pin) ==
  /\ step = "idle"
  /\ accFile = Missing /\ account = NoAccount
  /\ gen < MaxAdds
  /\ gen' = gen + 1
  /\ \/ /\ Stored(NewAccount(pin))
        /\ step' = "add"
        /\ acked' = NothingAcked
        /\ tried' = [pins |-> {pin}, tokens |-> {NoText}]
     \/ NotStored(NewAccount(pin), NoAccount, NothingTried)

\* MkDir takes a folder that exists for one it made.
FolderIsFree_Always == TRUE
FolderIsFree == ~inFolder.there

\* The rest of AddNumber; when it fails the call fails, and the account stays.
CreateInFolder ==
  /\ step = "add"
  /\ step' = "idle"
  /\ \/ /\ FolderIsFree
        /\ inFolder' = [inFolder EXCEPT !.there = TRUE]
        /\ acked' = [there |-> TRUE, pin |-> account.m_strPin, token |-> NoText]
        /\ tried' = NothingTried
        /\ UNCHANGED faults
     \/ ~FolderIsFree /\ UNCHANGED <<inFolder, acked, tried, faults>>
     \/ FolderIsFree /\ Fault /\ UNCHANGED <<inFolder, acked, tried>>
  /\ UNCHANGED <<accFile, account, gen, drops>>

\* FindAccount, of any call, when the account is not in the cache: the call fails when the
\* file is not there or does not decipher.
LoadAccount ==
  /\ step = "idle"
  /\ account = NoAccount
  /\ LET config == FromString(accFile.text) IN
     account' = IF accFile.is # "whole" THEN NoAccount
                ELSE [m_strPin |-> NoText, m_Config |-> config, m_strToken |-> TokenOf(config)]
  /\ UNCHANGED <<accFile, inFolder, step, gen, acked, tried, faults, drops>>

\* The cache drops the account, or the process stops between two calls.
DropAccount ==
  /\ step = "idle"
  /\ account # NoAccount
  /\ drops < MaxDrops
  /\ drops' = drops + 1
  /\ account' = NoAccount
  /\ UNCHANGED <<accFile, inFolder, step, gen, acked, tried, faults>>

-----------------------------------------------------------------------------
(* The calls on an account in the cache *)

\* OpenNumber, and what every call with a pin does first.
CheckPin(pin) ==
  /\ step = "idle"
  /\ Opens(pin)
  /\ account' = [account EXCEPT !.m_strPin = pin]
  /\ UNCHANGED <<accFile, inFolder, step, gen, acked, tried, faults, drops>>

\* A message comes in: in the folder, when there is one.
StoreMsg ==
  /\ step = "idle"
  /\ account # NoAccount /\ inFolder.there
  /\ inFolder' = [inFolder EXCEPT !.mail = @ \cup {gen}]
  /\ UNCHANGED <<accFile, account, step, gen, acked, tried, faults, drops>>

IdAfterChange_Kept(config, newPin) == config
IdAfterChange(config, newPin) == SetValue(config, CONFIG_ID, EncryptedId(newPin))

\* The pin and the id change in memory before the file is written.
ChangePin(pin, newPin) ==
  /\ step = "idle"
  /\ Opens(pin) /\ pin # newPin
  /\ LET acc == [account EXCEPT
                   !.m_strPin = newPin,
                   !.m_Config = SetValue(IdAfterChange(@, newPin), CONFIG_NAME, NoText)]
     IN \/ /\ Stored(acc)
           /\ acked' = [acked EXCEPT !.pin = newPin]
           /\ tried' = [tried EXCEPT !.pins = {}]
           /\ UNCHANGED step
        \/ NotStored(acc, acc, tried)
  /\ UNCHANGED gen

\* NewToken, and DeleteToken with no token: both need no pin.
StoreToken(token) ==
  /\ step = "idle"
  /\ account # NoAccount
  /\ LET acc == [account EXCEPT !.m_strToken = token,
                                !.m_Config = SetValue(@, CONFIG_TOKEN, token)]
     IN \/ /\ Stored(acc)
           /\ acked' = [acked EXCEPT !.token = token]
           /\ tried' = [tried EXCEPT !.tokens = {}]
           /\ UNCHANGED step
        \/ NotStored(acc, acc, tried)
  /\ UNCHANGED gen

-----------------------------------------------------------------------------
(* Deleting a number *)

\* The config goes, or is renamed, or (when both fail) stays.
DeleteConfig(pin) ==
  /\ step = "idle"
  /\ Opens(pin)
  /\ step' = "delete"
  /\ account' = [account EXCEPT !.m_strPin = pin]
  /\ \/ accFile' = Missing /\ UNCHANGED faults
     \/ UNCHANGED accFile /\ Fault
  /\ acked' = NothingAcked
  /\ tried' = [pins |-> tried.pins \cup {acked.pin}, tokens |-> tried.tokens \cup {acked.token}]
  /\ UNCHANGED <<inFolder, gen, drops>>

\* DeleteFilesTree leaves what it cannot delete, RmDir then leaves the folder; the call
\* succeeds all the same.
DeleteFolder ==
  /\ step = "delete"
  /\ step' = "idle"
  /\ account' = NoAccount
  /\ \/ inFolder' = [there |-> FALSE, mail |-> {}] /\ UNCHANGED faults
     \/ Fault /\ \E left \in SUBSET inFolder.mail : inFolder' = [inFolder EXCEPT !.mail = left]
  /\ UNCHANGED <<accFile, gen, acked, tried, drops>>

\* The process stops in AddNumber or in Delete, with some of the mail deleted.
Stop ==
  /\ step # "idle"
  /\ Fault
  /\ step' = "idle"
  /\ account' = NoAccount
  /\ \/ UNCHANGED inFolder
     \/ step = "delete" /\ \E left \in SUBSET inFolder.mail : inFolder' = [inFolder EXCEPT !.mail = left]
  /\ UNCHANGED <<accFile, gen, acked, tried, drops>>

AccountNext ==
  \/ \E pin \in AccountPins :
       \/ AddNumber(pin) \/ CheckPin(pin) \/ DeleteConfig(pin)
       \/ \E newPin \in AccountPins : ChangePin(pin, newPin)
  \/ \E token \in AccountTokens \cup {NoText} : StoreToken(token)
  \/ CreateInFolder \/ LoadAccount \/ DropAccount \/ StoreMsg \/ DeleteFolder \/ Stop

AccountSpec == AccountInit /\ [][AccountNext]_accountVars

-----------------------------------------------------------------------------
(* Properties *)

KnownConfig(config) ==
  /\ PinOf(config) # {} /\ PinOf(config) \subseteq tried.pins \cup {acked.pin}
  /\ TokenOf(config) \in tried.tokens \cup {acked.token}

\* What the number opens with, from its file after any stops and loads or from memory, is
\* the pin and the token of the last call that succeeded, or of one that failed since; a
\* number that was added keeps its file and its folder.
OpensAsAnswered ==
  step = "idle" =>
    /\ accFile.is = "whole" => KnownConfig(FromString(accFile.text))
    /\ account # NoAccount =>
         /\ KnownConfig(account.m_Config)
         /\ account.m_strPin # NoText => account.m_strPin \in PinOf(account.m_Config)
         /\ account.m_strToken = TokenOf(account.m_Config)
    /\ acked.there => accFile # Missing /\ inFolder.there

\* Whoever adds a number and is told so finds no mail of the owner before, whatever Delete
\* left behind.
AddedIsEmpty == acked.there => inFolder.mail \subseteq {gen}
=============================================================================
