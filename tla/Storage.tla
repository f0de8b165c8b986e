------------------------------- MODULE Storage -------------------------------
(***************************************************************************)
(* The calls that the workers of the pool make to CStorage, on several     *)
(* numbers at once (Core/Storage.cpp and Account.cpp): CAccountLocker lets *)
(* one call at a time work on a number, CAccountCache keeps the accounts   *)
(* in memory and CBlocksCache their message blocks; both caches drop items *)
(* that are not locked.  What a call does under the locks of its number    *)
(* and nobody else can see is one step.                                    *)
(*                                                                         *)
(* A message block is reduced to whether it holds mail (MsgBlock has its   *)
(* records); an inbox on disk exists or not.  The id of a number, ciphered *)
(* with its pin, is the set of the pins that decipher it: what is          *)
(* deciphered is compared with nothing, so that a wrong pin whose padding  *)
(* happens to fit is one of them.  Writes to files do not fail and the     *)
(* process does not stop.                                                  *)
(***************************************************************************)
EXTENDS Naturals, FiniteSets

CONSTANTS
  Workers,  \* the threads of the pool
  Numbers,
  Pins,
  Tokens    \* GUIDs

ASSUME StorageAssumption == "free" \notin Workers /\ "none" \notin Pins \cup Tokens

VARIABLES
  config,    \* on disk: number -> pin (that CONFIG_ID is ciphered with), id, token
  inbox,     \* on disk: number -> what its folder holds
  accounts,  \* m_mAccounts: number -> by, pin (m_strPin), id (CONFIG_ID in m_Config), token
  blocks,    \* CBlocksCache::m_mItems: number -> by, box
  m_Map,     \* CAccountLocker: the numbers locked
  worker     \* each worker: pc, call, num, key (the pin or token of the request)

vars == <<config, inbox, accounts, blocks, m_Map, worker>>

None == "none"
\* No thread has the item locked (m_bLocked is false).
Free == "free"

Remove(f, n) == [m \in DOMAIN f \ {n} |-> f[m]]
Put(f, n, v) == [m \in DOMAIN f \cup {n} |-> IF m = n THEN v ELSE f[m]]

Idle == [pc |-> "idle", call |-> None, num |-> None, key |-> None]

Init ==
  /\ config = [n \in {} |-> None]
  /\ inbox = [n \in {} |-> None]
  /\ accounts = [n \in {} |-> None]
  /\ blocks = [n \in {} |-> None]
  /\ m_Map = {}
  /\ worker = [w \in Workers |-> Idle]

Num(w) == worker[w].num
Account(w) == accounts[Num(w)]
At(w, pc, calls) == worker[w].pc = pc /\ worker[w].call \in calls
\* The pin or token of a request is looked at in the first steps of a call only.
KeyNeeded == {"lock", "find", "use"}
Goto(w, pc) ==
  worker' = [worker EXCEPT ![w].pc = pc, ![w].key = IF pc \in KeyNeeded THEN @ ELSE None]

OwnerCalls == {"delete", "open", "inbox", "changePin"}
\* "look" is FindNumber and CheckNumToken.
LookCalls == {"look", "getToken"}
TokenCalls == {"newToken", "deleteToken"}
Calls == {"add", "send"} \cup OwnerCalls \cup TokenCalls \cup LookCalls

\* The calls that return a reference to m_strToken.
RefCalls == {"getToken", "newToken"}

\* What a request of this call may carry.
Keys(call) ==
  IF call \in TokenCalls \cup LookCalls THEN {None} ELSE IF call = "send" THEN Pins \cup Tokens ELSE Pins

-----------------------------------------------------------------------------
(* The locks of a call *)

Begin(w) ==
  /\ worker[w].pc = "idle"
  /\ \E call \in Calls, n \in Numbers : \E key \in Keys(call) :
       worker' = [worker EXCEPT ![w] = [pc |-> "lock", call |-> call, num |-> n, key |-> key]]
  /\ UNCHANGED <<config, inbox, accounts, blocks, m_Map>>

\* CLockerGuard: polls until nobody has the number.
Lock(w) ==
  /\ worker[w].pc = "lock"
  /\ Num(w) \notin m_Map
  /\ m_Map' = m_Map \cup {Num(w)}
  /\ Goto(w, "find")
  /\ UNCHANGED <<config, inbox, accounts, blocks>>

LoadedAccount(n) ==
  [by |-> Free, pin |-> None, id |-> config[n].id, token |-> config[n].token]

\* FindAccount: the account of the cache, or a new one made from the config file.
FindAccount(w) ==
  /\ At(w, "find", (Calls \ {"add"}) \cup {"deliver"})
  /\ \/ /\ Num(w) \in DOMAIN accounts
        /\ Account(w).by = Free
        /\ accounts' = [accounts EXCEPT ![Num(w)].by = w]
        /\ Goto(w, "use")
     \/ /\ Num(w) \notin DOMAIN accounts
        /\ Num(w) \in DOMAIN config
        /\ accounts' = Put(accounts, Num(w), [LoadedAccount(Num(w)) EXCEPT !.by = w])
        /\ Goto(w, "use")
     \/ /\ Num(w) \notin DOMAIN accounts \cup DOMAIN config
        /\ Goto(w, "unlock")
        /\ UNCHANGED accounts
  /\ UNCHANGED <<config, inbox, blocks, m_Map>>

MapAfterUnlock_Kept(n) == m_Map
MapAfterUnlock(n) == m_Map \ {n}

\* The destructors of the guards, at the return of the call or at an exception:
\* the account is released, then the number.
Unlock(w) ==
  /\ worker[w].pc \in {"unlock", "release"}
  /\ accounts' = IF worker[w].pc = "release" THEN [accounts EXCEPT ![Num(w)].by = Free]
                 ELSE accounts
  /\ m_Map' = MapAfterUnlock(Num(w))
  /\ \/ /\ worker[w].call = "checked"
        /\ \E to \in Numbers :
             worker' = [worker EXCEPT ![w].pc = "lock", ![w].call = "deliver", ![w].num = to]
     \/ /\ worker[w].call \in RefCalls /\ worker[w].pc = "release"
        /\ Goto(w, "copy")
     \/ /\ worker[w].call # "checked"
        /\ ~(worker[w].call \in RefCalls /\ worker[w].pc = "release")
        /\ worker' = [worker EXCEPT ![w] = Idle]
  /\ UNCHANGED <<config, inbox, blocks>>

-----------------------------------------------------------------------------
(* The pin *)

\* CAccount::CheckPin.
TokenOpens(a, key, send) == send /\ key = a.token
PinOpens(a, key) == a.pin = key \/ (a.pin = None /\ key \in a.id)
Opens(a, key, send) == TokenOpens(a, key, send) \/ PinOpens(a, key)

\* A GUID ciphered with the pin, as the set of the pins that decipher it.
EncryptedIds(pin) == {id \in SUBSET Pins : pin \in id}

\* A pin that deciphered the id is remembered, and is the only one from then on.
AfterCheck(a, key, send) ==
  IF a.pin = None /\ ~TokenOpens(a, key, send) THEN [a EXCEPT !.pin = key] ELSE a

Passes(w) == Opens(Account(w), worker[w].key, worker[w].call = "send")
Checked(w) == AfterCheck(Account(w), worker[w].key, worker[w].call = "send")

\* "Invalid pin": the exception leaves through the guards.
RefusePin(w) ==
  /\ At(w, "use", OwnerCalls \cup {"send"})
  /\ ~Passes(w)
  /\ Goto(w, "release")
  /\ UNCHANGED <<config, inbox, accounts, blocks, m_Map>>

Open(w) ==
  /\ At(w, "use", {"open"})
  /\ Passes(w)
  /\ accounts' = [accounts EXCEPT ![Num(w)] = Checked(w)]
  /\ Goto(w, "release")
  /\ UNCHANGED <<config, inbox, blocks, m_Map>>

-----------------------------------------------------------------------------
(* AddNumber *)

NumberExists(n) == n \in DOMAIN config \cup DOMAIN accounts

RefuseNumber(w) ==
  /\ At(w, "find", {"add"})
  /\ NumberExists(Num(w))
  /\ Goto(w, "unlock")
  /\ UNCHANGED <<config, inbox, accounts, blocks, m_Map>>

\* The config file is written, the account cached and released again.
AddNumber(w) ==
  LET n == Num(w)
      pin == worker[w].key
  IN  /\ At(w, "find", {"add"})
      /\ ~NumberExists(n)
      /\ \E id \in EncryptedIds(pin) :
           /\ config' = Put(config, n, [pin |-> pin, id |-> id, token |-> None])
           /\ accounts' = Put(accounts, n, [by |-> Free, pin |-> pin, id |-> id, token |-> None])
      /\ Goto(w, "folder")
      /\ UNCHANGED <<inbox, blocks, m_Map>>

\* pAcc->CreateInFolder, on the account that was released.
CreateInFolder(w) ==
  /\ At(w, "folder", {"add"})
  /\ inbox' = IF Num(w) \in DOMAIN inbox THEN inbox ELSE Put(inbox, Num(w), "empty")
  /\ Goto(w, "unlock")
  /\ UNCHANGED <<config, accounts, blocks, m_Map>>

-----------------------------------------------------------------------------
(* DeleteNumber *)

DeleteFiles(w) ==
  /\ At(w, "use", {"delete"})
  /\ Passes(w)
  /\ accounts' = [accounts EXCEPT ![Num(w)] = Checked(w)]
  /\ config' = Remove(config, Num(w))
  /\ inbox' = Remove(inbox, Num(w))
  /\ Goto(w, "delete block")
  /\ UNCHANGED <<blocks, m_Map>>

DeletedBlock_Kept(n) == blocks
DeletedBlock(n) == Remove(blocks, n)

DeleteBlock(w) ==
  /\ At(w, "delete block", {"delete"})
  /\ blocks' = DeletedBlock(Num(w))
  /\ Goto(w, "delete account")
  /\ UNCHANGED <<config, inbox, accounts, m_Map>>

Evictable_Locked(cache) == DOMAIN cache
\* Release and ReleaseHandles: which and how many of the items that nobody has
\* locked go depends on their times of access and on counters, left open here.
Evictable(cache) == {n \in DOMAIN cache : cache[n].by = Free}

\* CAccountCache::Delete; then Guard.Set(0).
DeleteAccount(w) ==
  /\ At(w, "delete account", {"delete"})
  /\ \E gone \in SUBSET (Evictable(accounts) \ {Num(w)}) :
       accounts' = [n \in DOMAIN accounts \ (gone \cup {Num(w)}) |-> accounts[n]]
  /\ Goto(w, "unlock")
  /\ UNCHANGED <<config, inbox, blocks, m_Map>>

-----------------------------------------------------------------------------
(* The calls on the inbox: GetIds, GetMsgCount, ReadMessage, DeleteMessage, and *)
(* SendMsg, which checks the sender first and then works on the receiver.       *)

\* The end of the first scope of SendMsg.
CheckSender(w) ==
  /\ At(w, "use", {"send"})
  /\ Passes(w)
  /\ accounts' = [accounts EXCEPT ![Num(w)] = Checked(w)]
  /\ worker' = [worker EXCEPT ![w].pc = "release", ![w].call = "checked", ![w].key = None]
  /\ UNCHANGED <<config, inbox, blocks, m_Map>>

OpenInbox(w) ==
  /\ \/ /\ At(w, "use", {"inbox"})
        /\ Passes(w)
        /\ accounts' = [accounts EXCEPT ![Num(w)] = Checked(w)]
     \/ At(w, "use", {"deliver"}) /\ UNCHANGED accounts
  /\ Goto(w, "find block")
  /\ UNCHANGED <<config, inbox, blocks, m_Map>>

\* CBlocksCache::Find, or AddAndLock, which may drop other blocks.
FindBlock(w) ==
  LET n == Num(w)
  IN  /\ At(w, "find block", {"inbox", "deliver"})
      /\ \/ /\ n \in DOMAIN blocks
            /\ blocks[n].by = Free
            /\ blocks' = [blocks EXCEPT ![n].by = w]
         \/ /\ n \notin DOMAIN blocks
            /\ n \in DOMAIN inbox
            /\ \E gone \in SUBSET Evictable(blocks) :
                 blocks' = Put([m \in DOMAIN blocks \ gone |-> blocks[m]], n,
                               [by |-> w, box |-> inbox[n]])
      /\ Goto(w, "block")
      /\ UNCHANGED <<config, inbox, accounts, m_Map>>

ReleasedBlock_Kept(w, box) == [by |-> w, box |-> box]
ReleasedBlock(w, box) == [by |-> Free, box |-> box]

\* The call works on the block, which writes through to its file, and releases it.
UseBlock(w) ==
  LET n == Num(w)
  IN  /\ At(w, "block", {"inbox", "deliver"})
      /\ \E box \in IF worker[w].call = "deliver" THEN {"mail"} ELSE {blocks[n].box, "empty"} :
           /\ blocks' = [blocks EXCEPT ![n] = ReleasedBlock(w, box)]
           /\ inbox' = [inbox EXCEPT ![n] = box]
      /\ Goto(w, "release")
      /\ UNCHANGED <<config, accounts, m_Map>>

-----------------------------------------------------------------------------
(* The pin and the token *)

ChangedAccount_OldPin(a, pin, id) == [a EXCEPT !.id = id]
ChangedAccount(a, pin, id) == [a EXCEPT !.pin = pin, !.id = id]

\* A new pin that is the one remembered changes nothing.
ChangePin(w) ==
  LET n == Num(w)
  IN  /\ At(w, "use", {"changePin"})
      /\ Passes(w)
      /\ \/ accounts' = [accounts EXCEPT ![n] = Checked(w)] /\ UNCHANGED config
         \/ \E pin \in Pins \ {Checked(w).pin} : \E id \in EncryptedIds(pin) :
              /\ accounts' = [accounts EXCEPT ![n] = ChangedAccount(Checked(w), pin, id)]
              /\ config' = [config EXCEPT ![n] = [@ EXCEPT !.pin = pin, !.id = id]]
      /\ Goto(w, "release")
      /\ UNCHANGED <<inbox, blocks, m_Map>>

StoredToken_Lost(c, token) == c
StoredToken(c, token) == [c EXCEPT !.token = token]

\* NewToken and DeleteToken; no pin is asked for.
SetToken(w) ==
  LET n == Num(w)
  IN  /\ At(w, "use", {"newToken", "deleteToken"})
      /\ \E token \in IF worker[w].call = "newToken" THEN Tokens ELSE {None} :
           /\ accounts' = [accounts EXCEPT ![n].token = token]
           /\ config' = [config EXCEPT ![n] = StoredToken(@, token)]
      /\ Goto(w, "release")
      /\ UNCHANGED <<inbox, blocks, m_Map>>

\* FindNumber, CheckNumToken and GetNumToken change nothing.
Look(w) ==
  /\ At(w, "use", LookCalls)
  /\ Goto(w, "release")
  /\ UNCHANGED <<config, inbox, accounts, blocks, m_Map>>

\* The caller copies the string after the locks are gone.
CopyToken(w) ==
  /\ At(w, "copy", RefCalls)
  /\ worker' = [worker EXCEPT ![w] = Idle]
  /\ UNCHANGED <<config, inbox, accounts, blocks, m_Map>>

-----------------------------------------------------------------------------

\* The rest of a call that has begun.
Step(w) ==
  \/ Lock(w) \/ FindAccount(w) \/ Unlock(w)
  \/ RefusePin(w) \/ Open(w)
  \/ RefuseNumber(w) \/ AddNumber(w) \/ CreateInFolder(w)
  \/ DeleteFiles(w) \/ DeleteBlock(w) \/ DeleteAccount(w)
  \/ CheckSender(w) \/ OpenInbox(w) \/ FindBlock(w) \/ UseBlock(w)
  \/ ChangePin(w) \/ SetToken(w) \/ Look(w) \/ CopyToken(w)

Next == \E w \in Workers : Begin(w) \/ Step(w)

Spec == Init /\ [][Next]_vars

-----------------------------------------------------------------------------
(* Properties *)

\* Where a call has the lock of its number, and where it works on an account that
\* a guard keeps locked in the cache.
Guarded == {"use", "find block", "block", "delete block", "delete account", "release"}
Locked == Guarded \cup {"find", "folder", "unlock"}

\* Two calls never work on one number at a time, and the locker knows exactly the
\* numbers that calls work on: no return or exception leaves one locked.
LockerExact ==
  /\ \A v, w \in Workers :
       v # w /\ worker[v].pc \in Locked /\ worker[w].pc \in Locked => Num(v) # Num(w)
  /\ m_Map = {Num(w) : w \in {v \in Workers : worker[v].pc \in Locked}}

\* The caches never report "Core is busy": a call that holds the lock of its number
\* finds the account and the block of this number free.
NeverBusy ==
  \A w \in Workers :
    /\ worker[w].pc = "find" /\ Num(w) \in DOMAIN accounts => Account(w).by = Free
    /\ worker[w].pc = "find block" /\ Num(w) \in DOMAIN blocks => blocks[Num(w)].by = Free

\* An account is not freed under a call whose guard keeps it, by the deletion of
\* another number.
GuardedIsCached ==
  \A w \in Workers :
    worker[w].pc \in Guarded => Num(w) \in DOMAIN accounts /\ Account(w).by = w

\* What the caches hold of a number that no call works on is what its files hold, so
\* that it does not matter whether an item was dropped, and a number added again
\* finds nothing of its former owner.
CachesAgree ==
  \A n \in Numbers \ m_Map :
    /\ n \in DOMAIN config <=> n \in DOMAIN inbox
    /\ n \in DOMAIN accounts =>
         /\ n \in DOMAIN config
         /\ accounts[n].id = config[n].id
         /\ accounts[n].pin \in {None} \cup config[n].id
         /\ accounts[n].token = config[n].token
    /\ n \in DOMAIN blocks => n \in DOMAIN inbox /\ blocks[n].box = inbox[n]

\* The check in memory follows the config file as it is at this moment, through changes of
\* pin, drops, loads, and a number deleted and added again.  Who passes has a pin that
\* deciphers the id in the file or, in SendMsg, the token in it, which always passes; the
\* pin that the id is ciphered with is refused only after another one that deciphers it.
CheckFollowsFile ==
  \A w \in Workers :
    At(w, "use", OwnerCalls \cup {"send"}) =>
      LET file == config[Num(w)]
          key == worker[w].key
          hasToken == worker[w].call = "send" /\ key = file.token
      IN  /\ Passes(w) => key \in file.id \/ hasToken
          /\ hasToken => Passes(w)
          /\ key = file.pin => Passes(w) \/ Account(w).pin \in file.id \ {file.pin}
=============================================================================
