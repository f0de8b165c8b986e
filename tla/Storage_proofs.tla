--------------------------- MODULE Storage_proofs ---------------------------
(***************************************************************************)
(* The calls on the storage keep out of each other's way, for any number   *)
(* of workers and numbers, whatever the caches drop.                       *)
(*                                                                         *)
(* The invariant is stated number by number: one that no call has locked   *)
(* is in order (NumberOK), and one that a call has locked is as this call  *)
(* left it (CallOK).  A step of a call touches its own number only, and    *)
(* drops others from the caches only where nobody holds them.              *)
(***************************************************************************)
EXTENDS Storage, TLAPS

Places == {"idle", "lock", "copy"} \cup Locked

WorkerTypes ==
  worker \in [Workers -> [pc : Places, call : Calls \cup {"checked", "deliver", None},
                          num : Numbers \cup {None}, key : Pins \cup Tokens \cup {None}]]

\* What a call works on, and the pin it came with.
RequestOK(w) ==
  /\ worker[w].pc # "idle" => Num(w) \in Numbers
  /\ worker[w].pc \in KeyNeeded =>
       /\ worker[w].call \in OwnerCalls \cup {"add"} => worker[w].key \in Pins
       /\ worker[w].call = "send" => worker[w].key \in Pins \cup Tokens

Boxes == {"empty", "mail"}

NumberTyped(n) ==
  /\ n \in DOMAIN config =>
       /\ config[n] \in [pin : Pins, id : SUBSET Pins, token : Tokens \cup {None}]
       /\ config[n].pin \in config[n].id
  /\ n \in DOMAIN inbox => inbox[n] \in Boxes
  /\ n \in DOMAIN accounts =>
       accounts[n] \in [by : Workers \cup {Free}, pin : Pins \cup {None}, id : SUBSET Pins,
                        token : Tokens \cup {None}]
  /\ n \in DOMAIN blocks => blocks[n] \in [by : Workers \cup {Free}, box : Boxes]

AccountAgrees(n) ==
  n \in DOMAIN accounts =>
    /\ n \in DOMAIN config
    /\ accounts[n].id = config[n].id
    /\ accounts[n].pin \in {None} \cup config[n].id
    /\ accounts[n].token = config[n].token

BlockAgrees(n) == n \in DOMAIN blocks => n \in DOMAIN inbox /\ blocks[n].box = inbox[n]

Agrees(n) ==
  /\ n \in DOMAIN config <=> n \in DOMAIN inbox
  /\ AccountAgrees(n)
  /\ BlockAgrees(n)

AccountIsFree(n) == n \in DOMAIN accounts => accounts[n].by = Free
BlockIsFree(n) == n \in DOMAIN blocks => blocks[n].by = Free

NumberOK(n) == NumberTyped(n) /\ Agrees(n) /\ AccountIsFree(n) /\ BlockIsFree(n)

\* The files and the caches of the number of a call, where the call is.
FilesOK(w) ==
  /\ worker[w].pc = "folder" =>
       /\ Num(w) \in DOMAIN config /\ Num(w) \notin DOMAIN inbox \cup DOMAIN blocks
       /\ AccountAgrees(Num(w))
  /\ worker[w].pc = "delete block" => Num(w) \notin DOMAIN config \cup DOMAIN inbox
  /\ worker[w].pc = "delete account" => Num(w) \notin DOMAIN config \cup DOMAIN inbox \cup DOMAIN blocks
  /\ worker[w].pc \notin {"folder", "delete block", "delete account"} => Agrees(Num(w))

CallOK(w) ==
  /\ NumberTyped(Num(w))
  /\ IF worker[w].pc \in Guarded THEN Num(w) \in DOMAIN accounts /\ Account(w).by = w
     ELSE AccountIsFree(Num(w))
  /\ IF worker[w].pc = "block" THEN Num(w) \in DOMAIN blocks /\ blocks[Num(w)].by = w
     ELSE BlockIsFree(Num(w))
  /\ FilesOK(w)

StorageInv ==
  /\ WorkerTypes
  /\ \A w \in Workers : RequestOK(w)
  /\ LockerExact
  /\ \A n \in Numbers \ m_Map : NumberOK(n)
  /\ \A w \in Workers : worker[w].pc \in Locked => CallOK(w)

-----------------------------------------------------------------------------
(* What a step leaves alone *)

\* The other numbers keep their files and what is locked in the caches; what is not may go.
SameNumber(m) ==
  /\ m \in DOMAIN config' <=> m \in DOMAIN config
  /\ m \in DOMAIN config' => config'[m] = config[m]
  /\ m \in DOMAIN inbox' <=> m \in DOMAIN inbox
  /\ m \in DOMAIN inbox' => inbox'[m] = inbox[m]
  /\ m \in DOMAIN accounts' => m \in DOMAIN accounts /\ accounts'[m] = accounts[m]
  /\ m \in DOMAIN accounts /\ accounts[m].by # Free => m \in DOMAIN accounts'
  /\ m \in DOMAIN blocks' => m \in DOMAIN blocks /\ blocks'[m] = blocks[m]
  /\ m \in DOMAIN blocks /\ blocks[m].by # Free => m \in DOMAIN blocks'

OthersKept(n) == \A m \in Numbers \ {n} : SameNumber(m)

\* Only this worker moves, and stays with its number.
OnlyMoves(w) ==
  /\ \A v \in Workers \ {w} : worker'[v] = worker[v]
  /\ worker'[w].num = worker[w].num
  /\ WorkerTypes'
  /\ RequestOK(w)'

LEMMA NumberKept ==
  ASSUME NEW m, SameNumber(m), NumberOK(m)
  PROVE  NumberOK(m)'
BY DEF SameNumber, NumberOK, NumberTyped, Agrees, AccountAgrees, BlockAgrees, AccountIsFree, BlockIsFree

LEMMA CallKept ==
  ASSUME NEW v \in Workers, NEW n, Num(v) = n, worker'[v] = worker[v], SameNumber(n), CallOK(v)
  PROVE  CallOK(v)'
<1>1. worker'[v].pc = worker[v].pc /\ Num(v)' = n
  BY DEF Num
<1>2. NumberTyped(n)'
  BY DEF CallOK, NumberTyped, SameNumber
<1>3. IF worker[v].pc \in Guarded THEN n \in DOMAIN accounts' /\ accounts'[n].by = v
      ELSE AccountIsFree(n)'
  BY StorageAssumption DEF CallOK, SameNumber, AccountIsFree, Account, Free
<1>4. IF worker[v].pc = "block" THEN n \in DOMAIN blocks' /\ blocks'[n].by = v
      ELSE BlockIsFree(n)'
  BY StorageAssumption DEF CallOK, SameNumber, BlockIsFree, Free
<1>5. AccountAgrees(n) => AccountAgrees(n)'
  BY DEF SameNumber, AccountAgrees
<1>6. Agrees(n) => Agrees(n)'
  BY <1>5 DEF SameNumber, Agrees, BlockAgrees
<1>7. FilesOK(v)'
  BY <1>1, <1>5, <1>6 DEF CallOK, FilesOK, SameNumber
<1> QED BY <1>1, <1>2, <1>3, <1>4, <1>7 DEF CallOK, Account

LEMMA GotoMoves ==
  ASSUME StorageInv, NEW w \in Workers, worker[w].pc # "idle", NEW q \in Places, Goto(w, q),
         q \in KeyNeeded => worker[w].pc \in KeyNeeded
  PROVE  OnlyMoves(w) /\ worker'[w].pc = q /\ worker'[w].call = worker[w].call
<1> PICK k : k = IF q \in KeyNeeded THEN worker[w].key ELSE None
  OBVIOUS
<1>1. /\ worker' = [worker EXCEPT ![w].pc = q, ![w].key = k]
      /\ k \in Pins \cup Tokens \cup {None}
  BY DEF StorageInv, WorkerTypes, Goto
<1> QED BY <1>1 DEF StorageInv, WorkerTypes, RequestOK, Num, OnlyMoves

\* The numbers locked are those of the calls between Lock and Unlock.
LEMMA LockerKept ==
  ASSUME StorageInv, NEW w \in Workers, OnlyMoves(w), m_Map' = m_Map,
         worker[w].pc \in Locked <=> worker'[w].pc \in Locked
  PROVE  LockerExact'
<1>1. \A v \in Workers : Num(v)' = Num(v) /\ (worker'[v].pc \in Locked <=> worker[v].pc \in Locked)
  BY DEF OnlyMoves, Num
<1> QED BY <1>1 DEF StorageInv, LockerExact, Num

\* A step of a call that has its number locked, and keeps it.
LEMMA StepKeeps ==
  ASSUME StorageInv, NEW w \in Workers, worker[w].pc \in Locked, worker'[w].pc \in Locked,
         OnlyMoves(w), m_Map' = m_Map, OthersKept(Num(w)), CallOK(w)'
  PROVE  StorageInv'
<1>1. LockerExact'
  BY LockerKept
<1>2. Num(w) \in m_Map /\ Num(w) \in Numbers
  BY DEF StorageInv, LockerExact, RequestOK, Locked, Guarded
<1>3. ASSUME NEW n \in Numbers \ m_Map
      PROVE  NumberOK(n)'
  BY <1>2, <1>3, NumberKept DEF StorageInv, OthersKept
<1>4. ASSUME NEW v \in Workers, v # w, worker'[v].pc \in Locked
      PROVE  CallOK(v)'
  <2>1. worker'[v] = worker[v] /\ worker[v].pc \in Locked
    BY <1>4 DEF OnlyMoves
  <2>2. Num(v) # Num(w) /\ Num(v) \in Numbers
    BY <1>4, <2>1 DEF StorageInv, LockerExact, RequestOK, Locked, Guarded
  <2> QED BY <2>1, <2>2, CallKept DEF StorageInv, OthersKept
<1>5. \A v \in Workers : RequestOK(v)'
  BY DEF StorageInv, OnlyMoves, RequestOK, Num
<1> QED BY <1>1, <1>3, <1>4, <1>5 DEF StorageInv, OnlyMoves

-----------------------------------------------------------------------------
(* The steps of a call that has its number *)

\* The account of a call that checks a pin stays as good as it was.
LEMMA CheckedAgrees ==
  ASSUME StorageInv, NEW w \in Workers, At(w, "use", OwnerCalls \cup {"send"}), Passes(w)
  PROVE  /\ Checked(w) \in [by : Workers \cup {Free}, pin : Pins \cup {None}, id : SUBSET Pins,
                            token : Tokens \cup {None}]
         /\ Checked(w).by = Account(w).by
         /\ Checked(w).id = Account(w).id /\ Checked(w).token = Account(w).token
         /\ Checked(w).pin \in {None} \cup Account(w).id
<1>1. /\ CallOK(w) /\ RequestOK(w) /\ Num(w) \in DOMAIN accounts
      /\ worker[w].key # None
  BY StorageAssumption DEF KeyNeeded, StorageInv, At, Locked, Guarded, CallOK, RequestOK, None
<1>2. /\ Account(w) \in [by : Workers \cup {Free}, pin : Pins \cup {None}, id : SUBSET Pins,
                         token : Tokens \cup {None}]
      /\ Account(w).pin \in {None} \cup Account(w).id
  BY <1>1 DEF CallOK, NumberTyped, FilesOK, Agrees, AccountAgrees, At, Account
<1> QED BY <1>1, <1>2 DEF Checked, AfterCheck, Passes, Opens, TokenOpens, PinOpens

LEMMA QuietStep ==
  ASSUME StorageInv, NEW w \in Workers,
         \/ RefusePin(w) \/ RefuseNumber(w) \/ Look(w)
         \/ OpenInbox(w) /\ UNCHANGED accounts
  PROVE  StorageInv'
<1> PICK n : n = Num(w) OBVIOUS
<1>1. /\ CallOK(w) /\ UNCHANGED <<config, inbox, accounts, blocks, m_Map>>
      /\ \/ worker[w].pc = "find" /\ Goto(w, "unlock")
         \/ worker[w].pc = "use" /\ Goto(w, "release")
         \/ worker[w].pc = "use" /\ Goto(w, "find block")
  BY DEF StorageInv, RefusePin, RefuseNumber, Look, OpenInbox, At, Locked, Guarded
<1>2. PICK q \in {"unlock", "release", "find block"} :
        /\ Goto(w, q)
        /\ \/ worker[w].pc = "find" /\ q = "unlock"
           \/ worker[w].pc = "use" /\ q \in {"release", "find block"}
  BY <1>1
<1>3. OnlyMoves(w) /\ worker'[w].pc = q
  BY <1>2, GotoMoves DEF KeyNeeded, Places, Locked, Guarded
<1>4. OthersKept(n)
  BY <1>1 DEF OthersKept, SameNumber
<1>5. CallOK(w)'
  BY <1>1, <1>2, <1>3 DEF CallOK, FilesOK, Guarded, OnlyMoves, Num, Account, NumberTyped, Agrees,
     AccountAgrees, BlockAgrees, AccountIsFree, BlockIsFree
<1> QED BY <1>1, <1>2, <1>3, <1>4, <1>5, StepKeeps DEF Locked, Guarded

\* A step that writes the account of the call back to the cache, with no pin or token changed.
LEMMA CheckedStep ==
  ASSUME StorageInv, NEW w \in Workers, At(w, "use", OwnerCalls \cup {"send"}), Passes(w),
         accounts' = [accounts EXCEPT ![Num(w)] = Checked(w)],
         UNCHANGED <<config, inbox, blocks, m_Map>>,
         OnlyMoves(w), worker'[w].pc \in {"release", "find block"}
  PROVE  StorageInv'
<1> PICK n : n = Num(w) OBVIOUS
<1>1. CallOK(w) /\ worker[w].pc = "use" /\ Num(w)' = n
  BY DEF StorageInv, At, Locked, Guarded, OnlyMoves, Num
<1>2. OthersKept(n)
  BY DEF OthersKept, SameNumber
<1>3. n \in DOMAIN accounts' /\ accounts'[n] = Checked(w) /\ n \in DOMAIN accounts /\ accounts[n].by = w
  BY <1>1 DEF CallOK, Guarded, Account
<1>4. NumberTyped(n)'
  BY <1>1, <1>3, CheckedAgrees DEF CallOK, NumberTyped
<1>5. Agrees(n)'
  BY ZenonT(60), <1>1, <1>3, CheckedAgrees DEF CallOK, FilesOK, Agrees, AccountAgrees, BlockAgrees, Account
<1>6. accounts'[n].by = w /\ BlockIsFree(n)'
  BY <1>1, <1>3, CheckedAgrees DEF CallOK, BlockIsFree, Account
<1>7. CallOK(w)'
  BY <1>1, <1>3, <1>4, <1>5, <1>6 DEF CallOK, FilesOK, Guarded, Account
<1> QED BY <1>1, <1>2, <1>7, StepKeeps DEF Locked, Guarded

LEMMA FindAccountStep ==
  ASSUME StorageInv, NEW w \in Workers, FindAccount(w)
  PROVE  StorageInv'
<1> PICK n : n = Num(w) OBVIOUS
<1>1. CallOK(w) /\ worker[w].pc = "find" /\ NumberTyped(n) /\ Agrees(n) /\ AccountIsFree(n) /\ BlockIsFree(n)
  BY DEF StorageInv, FindAccount, At, Locked, Guarded, CallOK, FilesOK
<1>2. CASE n \in DOMAIN accounts /\ accounts' = [accounts EXCEPT ![n].by = w] /\ Goto(w, "use")
  <2>1. OnlyMoves(w) /\ worker'[w].pc = "use"
    BY <1>1, <1>2, GotoMoves DEF KeyNeeded, Places, Locked, Guarded
  <2>2. OthersKept(n)
    BY <1>2 DEF FindAccount, OthersKept, SameNumber
  <2>3. CallOK(w)'
    BY <1>1, <1>2, <2>1 DEF FindAccount, CallOK, FilesOK, Guarded, OnlyMoves, Num, Account, NumberTyped,
       Agrees, AccountAgrees, BlockAgrees, BlockIsFree
  <2> QED BY <1>1, <2>1, <2>2, <2>3, StepKeeps DEF FindAccount, Locked, Guarded
<1>3. CASE /\ n \notin DOMAIN accounts /\ n \in DOMAIN config
           /\ accounts' = Put(accounts, n, [LoadedAccount(n) EXCEPT !.by = w]) /\ Goto(w, "use")
  <2>1. OnlyMoves(w) /\ worker'[w].pc = "use"
    BY <1>1, <1>3, GotoMoves DEF KeyNeeded, Places, Locked, Guarded
  <2>2. OthersKept(n)
    BY <1>3 DEF FindAccount, OthersKept, SameNumber, Put
  <2>3. /\ n \in DOMAIN accounts'
        /\ accounts'[n] = [by |-> w, pin |-> None, id |-> config[n].id, token |-> config[n].token]
    BY <1>3 DEF Put, LoadedAccount
  <2>4. CallOK(w)'
    BY <1>1, <1>3, <2>1, <2>3 DEF FindAccount, CallOK, FilesOK, Guarded, OnlyMoves, Num, Account,
       NumberTyped, Agrees, AccountAgrees, BlockAgrees, BlockIsFree
  <2> QED BY <1>1, <2>1, <2>2, <2>4, StepKeeps DEF FindAccount, Locked, Guarded
<1>4. CASE UNCHANGED accounts /\ Goto(w, "unlock")
  <2>1. OnlyMoves(w) /\ worker'[w].pc = "unlock"
    BY <1>1, <1>4, GotoMoves DEF KeyNeeded, Places, Locked, Guarded
  <2>2. OthersKept(n)
    BY <1>4 DEF FindAccount, OthersKept, SameNumber
  <2>3. CallOK(w)'
    BY <1>1, <1>4, <2>1 DEF FindAccount, CallOK, FilesOK, Guarded, OnlyMoves, Num, Account, NumberTyped,
       Agrees, AccountAgrees, BlockAgrees, AccountIsFree, BlockIsFree
  <2> QED BY <1>1, <2>1, <2>2, <2>3, StepKeeps DEF FindAccount, Locked, Guarded
<1> QED BY <1>2, <1>3, <1>4 DEF FindAccount

LEMMA AddNumberStep ==
  ASSUME StorageInv, NEW w \in Workers, AddNumber(w)
  PROVE  StorageInv'
<1> PICK n : n = Num(w) OBVIOUS
<1>1. /\ CallOK(w) /\ RequestOK(w) /\ WorkerTypes
      /\ worker[w].pc = "find"
  BY DEF StorageInv, AddNumber, At, Locked, Guarded
<1>2. OnlyMoves(w) /\ worker'[w].pc = "folder" /\ Num(w)' = n
  BY <1>1, GotoMoves DEF KeyNeeded, AddNumber, Places, Locked, Guarded, OnlyMoves, Num
<1>3. OthersKept(n)
  BY DEF AddNumber, OthersKept, SameNumber, Put
<1>4. PICK id \in EncryptedIds(worker[w].key) :
        /\ n \in DOMAIN config' /\ config'[n] = [pin |-> worker[w].key, id |-> id, token |-> None]
        /\ n \in DOMAIN accounts'
        /\ accounts'[n] = [by |-> Free, pin |-> worker[w].key, id |-> id, token |-> None]
        /\ UNCHANGED <<inbox, blocks>>
  BY DEF AddNumber, Put
<1>5. worker[w].key \in Pins /\ n \notin DOMAIN inbox \cup DOMAIN blocks
  BY <1>1 DEF KeyNeeded, AddNumber, At, NumberExists, RequestOK, CallOK, FilesOK, Agrees, BlockAgrees
<1>6. CallOK(w)'
  BY <1>2, <1>4, <1>5 DEF CallOK, FilesOK, Guarded, NumberTyped, EncryptedIds, AccountAgrees,
     AccountIsFree, BlockIsFree
<1> QED BY <1>1, <1>2, <1>3, <1>6, StepKeeps DEF AddNumber, Locked, Guarded

LEMMA CreateInFolderStep ==
  ASSUME StorageInv, NEW w \in Workers, CreateInFolder(w)
  PROVE  StorageInv'
<1> PICK n : n = Num(w) OBVIOUS
<1>1. /\ CallOK(w) /\ RequestOK(w) /\ WorkerTypes
      /\ worker[w].pc = "folder"
  BY DEF StorageInv, CreateInFolder, At, Locked, Guarded
<1>2. OnlyMoves(w) /\ worker'[w].pc = "unlock" /\ Num(w)' = n
  BY <1>1, GotoMoves DEF KeyNeeded, CreateInFolder, Places, Locked, Guarded, OnlyMoves, Num
<1>3. OthersKept(n)
  BY DEF CreateInFolder, OthersKept, SameNumber, Put
<1>4. /\ n \in DOMAIN inbox' /\ inbox'[n] = "empty"
      /\ UNCHANGED <<config, accounts, blocks>>
  BY <1>1 DEF CreateInFolder, Put, CallOK, FilesOK
<1>5. CallOK(w)'
  BY <1>1, <1>2, <1>4 DEF CallOK, FilesOK, Guarded, NumberTyped, Agrees, AccountAgrees, BlockAgrees,
     AccountIsFree, BlockIsFree, Boxes
<1> QED BY <1>1, <1>2, <1>3, <1>5, StepKeeps DEF CreateInFolder, Locked, Guarded

LEMMA DeleteFilesStep ==
  ASSUME StorageInv, NEW w \in Workers, DeleteFiles(w)
  PROVE  StorageInv'
<1> PICK n : n = Num(w) OBVIOUS
<1>1. /\ CallOK(w) /\ RequestOK(w) /\ WorkerTypes
      /\ worker[w].pc = "use"
  BY DEF StorageInv, DeleteFiles, At, Locked, Guarded
<1>2. OnlyMoves(w) /\ worker'[w].pc = "delete block" /\ Num(w)' = n
  BY <1>1, GotoMoves DEF KeyNeeded, DeleteFiles, Places, Locked, Guarded, OnlyMoves, Num
<1>3. OthersKept(n)
  BY DEF DeleteFiles, OthersKept, SameNumber, Remove
<1>4. /\ n \in DOMAIN accounts' /\ accounts'[n] = Checked(w)
      /\ n \in DOMAIN accounts /\ Account(w).by = w
      /\ n \notin DOMAIN config' \cup DOMAIN inbox' /\ UNCHANGED blocks
  BY <1>1 DEF DeleteFiles, Remove, CallOK, Guarded
<1>5. Checked(w).by = w /\ NumberTyped(n)'
  BY <1>1, <1>4, CheckedAgrees DEF DeleteFiles, At, OwnerCalls, CallOK, NumberTyped
<1>6. CallOK(w)'
  BY <1>1, <1>2, <1>4, <1>5 DEF CallOK, FilesOK, Guarded, Account, BlockIsFree
<1> QED BY <1>1, <1>2, <1>3, <1>6, StepKeeps DEF DeleteFiles, Locked, Guarded

LEMMA DeleteBlockStep ==
  ASSUME StorageInv, NEW w \in Workers, DeleteBlock(w)
  PROVE  StorageInv'
<1> PICK n : n = Num(w) OBVIOUS
<1>1. /\ CallOK(w) /\ RequestOK(w) /\ WorkerTypes
      /\ worker[w].pc = "delete block"
  BY DEF StorageInv, DeleteBlock, At, Locked, Guarded
<1>2. OnlyMoves(w) /\ worker'[w].pc = "delete account" /\ Num(w)' = n
  BY <1>1, GotoMoves DEF KeyNeeded, DeleteBlock, Places, Locked, Guarded, OnlyMoves, Num
<1>3. OthersKept(n)
  BY DEF DeleteBlock, DeletedBlock, OthersKept, SameNumber, Remove
<1>4. n \notin DOMAIN blocks' /\ UNCHANGED <<config, inbox, accounts>>
  BY DEF DeleteBlock, DeletedBlock, Remove
<1>5. CallOK(w)'
  BY <1>1, <1>2, <1>4 DEF CallOK, FilesOK, Guarded, Account, NumberTyped, BlockIsFree
<1> QED BY <1>1, <1>2, <1>3, <1>5, StepKeeps DEF DeleteBlock, Locked, Guarded

LEMMA DeleteAccountStep ==
  ASSUME StorageInv, NEW w \in Workers, DeleteAccount(w)
  PROVE  StorageInv'
<1> PICK n : n = Num(w) OBVIOUS
<1>1. /\ CallOK(w) /\ RequestOK(w) /\ WorkerTypes
      /\ worker[w].pc = "delete account"
  BY DEF StorageInv, DeleteAccount, At, Locked, Guarded
<1>2. OnlyMoves(w) /\ worker'[w].pc = "unlock" /\ Num(w)' = n
  BY <1>1, GotoMoves DEF KeyNeeded, DeleteAccount, Places, Locked, Guarded, OnlyMoves, Num
<1>3. PICK gone \in SUBSET (Evictable(accounts) \ {n}) :
        accounts' = [m \in DOMAIN accounts \ (gone \cup {n}) |-> accounts[m]]
  BY DEF DeleteAccount
<1>4. OthersKept(n)
  BY <1>3 DEF DeleteAccount, Evictable, OthersKept, SameNumber
<1>5. n \notin DOMAIN accounts' /\ UNCHANGED <<config, inbox, blocks>>
  BY <1>3 DEF DeleteAccount
<1>6. CallOK(w)'
  BY <1>1, <1>2, <1>5 DEF CallOK, FilesOK, Guarded, NumberTyped, Agrees, AccountAgrees, BlockAgrees,
     AccountIsFree, BlockIsFree
<1> QED BY <1>1, <1>2, <1>4, <1>6, StepKeeps DEF DeleteAccount, Locked, Guarded

LEMMA FindBlockStep ==
  ASSUME StorageInv, NEW w \in Workers, FindBlock(w)
  PROVE  StorageInv'
<1> PICK n : n = Num(w) OBVIOUS
<1>1. /\ CallOK(w) /\ RequestOK(w) /\ WorkerTypes
      /\ worker[w].pc = "find block"
  BY DEF StorageInv, FindBlock, At, Locked, Guarded
<1>2. OnlyMoves(w) /\ worker'[w].pc = "block" /\ Num(w)' = n
  BY <1>1, GotoMoves DEF KeyNeeded, FindBlock, Places, Locked, Guarded, OnlyMoves, Num
<1>3. n \in DOMAIN accounts /\ Agrees(n) /\ NumberTyped(n) /\ UNCHANGED <<config, inbox, accounts>>
  BY <1>1 DEF FindBlock, CallOK, FilesOK, Guarded
<1>4. CASE n \in DOMAIN blocks /\ blocks' = [blocks EXCEPT ![n].by = w]
  <2>1. OthersKept(n)
    BY <1>3, <1>4 DEF OthersKept, SameNumber
  <2>2. CallOK(w)'
    BY <1>1, <1>2, <1>3, <1>4 DEF CallOK, FilesOK, Guarded, Account, NumberTyped, Agrees, AccountAgrees,
       BlockAgrees
  <2> QED BY <1>1, <1>2, <2>1, <2>2, StepKeeps DEF FindBlock, Locked, Guarded
<1>5. ASSUME n \notin DOMAIN blocks, n \in DOMAIN inbox, NEW gone \in SUBSET Evictable(blocks),
             blocks' = Put([m \in DOMAIN blocks \ gone |-> blocks[m]], n, [by |-> w, box |-> inbox[n]])
      PROVE  StorageInv'
  <2>1. OthersKept(n)
    BY <1>3, <1>5 DEF OthersKept, SameNumber, Put, Evictable
  <2>2. n \in DOMAIN blocks' /\ blocks'[n] = [by |-> w, box |-> inbox[n]]
    BY <1>5 DEF Put
  <2>3. NumberTyped(n)'
    BY <1>3, <1>5, <2>2 DEF NumberTyped
  <2>4. Agrees(n)'
    BY <1>3, <1>5, <2>2 DEF Agrees, AccountAgrees, BlockAgrees
  <2>5. n \in DOMAIN accounts' /\ accounts'[n].by = w
    BY <1>1, <1>3 DEF CallOK, Guarded, Account
  <2>6. CallOK(w)'
    BY <1>2, <2>2, <2>3, <2>4, <2>5 DEF CallOK, FilesOK, Guarded, Account
  <2> QED BY <1>1, <1>2, <2>1, <2>6, StepKeeps DEF FindBlock, Locked, Guarded
<1> QED BY <1>4, <1>5 DEF FindBlock

LEMMA UseBlockStep ==
  ASSUME StorageInv, NEW w \in Workers, UseBlock(w)
  PROVE  StorageInv'
<1> PICK n : n = Num(w) OBVIOUS
<1>1. /\ CallOK(w) /\ RequestOK(w) /\ WorkerTypes
      /\ worker[w].pc = "block"
  BY DEF StorageInv, UseBlock, At, Locked, Guarded
<1>2. OnlyMoves(w) /\ worker'[w].pc = "release" /\ Num(w)' = n
  BY <1>1, GotoMoves DEF KeyNeeded, UseBlock, Places, Locked, Guarded, OnlyMoves, Num
<1>3. /\ n \in DOMAIN blocks /\ Agrees(n) /\ n \in DOMAIN inbox /\ NumberTyped(n)
      /\ UNCHANGED <<config, accounts>>
  BY <1>1 DEF UseBlock, CallOK, FilesOK, Agrees, BlockAgrees
<1>4. PICK box \in Boxes :
        /\ blocks' = [blocks EXCEPT ![n] = [by |-> Free, box |-> box]]
        /\ inbox' = [inbox EXCEPT ![n] = box]
  BY <1>3 DEF UseBlock, ReleasedBlock, Boxes, NumberTyped
<1>5. OthersKept(n)
  BY <1>3, <1>4 DEF OthersKept, SameNumber
<1>6. CallOK(w)'
  BY <1>1, <1>2, <1>3, <1>4 DEF CallOK, FilesOK, Guarded, Account, NumberTyped, Agrees, AccountAgrees,
     BlockAgrees, BlockIsFree
<1> QED BY <1>1, <1>2, <1>5, <1>6, StepKeeps DEF UseBlock, Locked, Guarded

LEMMA ChangePinStep ==
  ASSUME StorageInv, NEW w \in Workers, ChangePin(w)
  PROVE  StorageInv'
<1> PICK n : n = Num(w) OBVIOUS
<1>1. /\ CallOK(w) /\ RequestOK(w) /\ WorkerTypes
      /\ worker[w].pc = "use"
  BY DEF StorageInv, ChangePin, At, Locked, Guarded
<1>2. OnlyMoves(w) /\ worker'[w].pc = "release" /\ Num(w)' = n
  BY <1>1, GotoMoves DEF KeyNeeded, ChangePin, Places, Locked, Guarded, OnlyMoves, Num
<1>3. /\ n \in DOMAIN accounts /\ n \in DOMAIN config /\ Account(w).by = w /\ Agrees(n) /\ NumberTyped(n)
      /\ UNCHANGED <<inbox, blocks>>
  BY <1>1 DEF ChangePin, CallOK, FilesOK, Guarded, Agrees, AccountAgrees
<1>4. CASE accounts' = [accounts EXCEPT ![n] = Checked(w)] /\ UNCHANGED config
  BY <1>1, <1>2, <1>4, CheckedStep DEF ChangePin, At, OwnerCalls
<1>5. ASSUME NEW pin \in Pins, NEW id \in EncryptedIds(pin),
             accounts' = [accounts EXCEPT ![n] = ChangedAccount(Checked(w), pin, id)],
             config' = [config EXCEPT ![n] = [@ EXCEPT !.pin = pin, !.id = id]]
      PROVE  StorageInv'
  <2>1. /\ Checked(w).by = w /\ Checked(w).token = config[n].token
        /\ Checked(w) \in [by : Workers \cup {Free}, pin : Pins \cup {None}, id : SUBSET Pins,
                           token : Tokens \cup {None}]
    BY <1>3, CheckedAgrees DEF ChangePin, At, OwnerCalls, Agrees, AccountAgrees, Account
  <2>2. /\ n \in DOMAIN accounts'
        /\ accounts'[n] = [by |-> w, pin |-> pin, id |-> id, token |-> config[n].token]
    BY <1>3, <1>5, <2>1 DEF ChangedAccount
  <2>3. OthersKept(n)
    BY <1>3, <1>5 DEF OthersKept, SameNumber
  <2>4. n \in DOMAIN config' /\ config'[n] = [pin |-> pin, id |-> id, token |-> config[n].token]
    BY <1>3, <1>5 DEF NumberTyped
  <2>5. NumberTyped(n)'
    BY <1>3, <1>5, <2>2, <2>4 DEF NumberTyped, EncryptedIds
  <2>6. Agrees(n)'
    <3>1. pin \in {None} \cup id
      BY <1>5 DEF EncryptedIds
    <3>2. AccountAgrees(n)'
      BY <2>2, <2>4, <3>1 DEF AccountAgrees
    <3> QED BY <1>3, <2>4, <3>2 DEF Agrees, BlockAgrees
  <2>7. CallOK(w)'
    BY <1>1, <1>2, <1>3, <2>2, <2>4, <2>5, <2>6 DEF CallOK, FilesOK, Guarded, Account, BlockIsFree
  <2> QED BY <1>1, <1>2, <2>3, <2>7, StepKeeps DEF ChangePin, Locked, Guarded
<1> QED BY <1>4, <1>5 DEF ChangePin

LEMMA SetTokenStep ==
  ASSUME StorageInv, NEW w \in Workers, SetToken(w)
  PROVE  StorageInv'
<1> PICK n : n = Num(w) OBVIOUS
<1>1. /\ CallOK(w) /\ RequestOK(w) /\ WorkerTypes
      /\ worker[w].pc = "use"
  BY DEF StorageInv, SetToken, At, Locked, Guarded
<1>2. OnlyMoves(w) /\ worker'[w].pc = "release" /\ Num(w)' = n
  BY <1>1, GotoMoves DEF KeyNeeded, SetToken, Places, Locked, Guarded, OnlyMoves, Num
<1>3. /\ n \in DOMAIN accounts /\ n \in DOMAIN config /\ accounts[n].by = w /\ Agrees(n) /\ NumberTyped(n)
      /\ UNCHANGED <<inbox, blocks>>
  BY <1>1 DEF SetToken, CallOK, FilesOK, Guarded, Agrees, AccountAgrees, Account
<1>4. PICK token \in Tokens \cup {None} :
        /\ accounts' = [accounts EXCEPT ![n].token = token]
        /\ config' = [config EXCEPT ![n].token = token]
  BY <1>3 DEF SetToken, StoredToken
<1>5. OthersKept(n)
  BY <1>3, <1>4 DEF OthersKept, SameNumber
<1>6. CallOK(w)'
  BY <1>1, <1>2, <1>3, <1>4 DEF CallOK, FilesOK, Guarded, Account, NumberTyped, Agrees, AccountAgrees,
     BlockAgrees, BlockIsFree
<1> QED BY <1>1, <1>2, <1>5, <1>6, StepKeeps DEF SetToken, Locked, Guarded

LEMMA PinStep ==
  ASSUME StorageInv, NEW w \in Workers,
         \/ Open(w) \/ CheckSender(w)
         \/ OpenInbox(w) /\ At(w, "use", {"inbox"}) /\ Passes(w) /\ accounts' = [accounts EXCEPT ![Num(w)] = Checked(w)]
  PROVE  StorageInv'
<1>1. CASE CheckSender(w)
  <2>1. OnlyMoves(w) /\ worker'[w].pc = "release"
    BY ZenonT(60), <1>1 DEF CheckSender, StorageInv, OnlyMoves, WorkerTypes, RequestOK, Num, At, Places, Locked, Guarded,
       Calls, OwnerCalls
  <2> QED BY <1>1, <2>1, CheckedStep DEF CheckSender, At
<1>2. ASSUME NEW q \in {"release", "find block"}, Goto(w, q), worker[w].pc = "use"
      PROVE  OnlyMoves(w) /\ worker'[w].pc = q
  BY <1>2, GotoMoves DEF KeyNeeded, Places, Locked, Guarded
<1>3. CASE Open(w)
  BY <1>2, <1>3, CheckedStep DEF Open, At, OwnerCalls
<1>4. CASE OpenInbox(w) /\ At(w, "use", {"inbox"}) /\ Passes(w) /\ accounts' = [accounts EXCEPT ![Num(w)] = Checked(w)]
  BY <1>2, <1>4, CheckedStep DEF OpenInbox, At, OwnerCalls
<1> QED BY <1>1, <1>3, <1>4

-----------------------------------------------------------------------------
(* The steps that take a number, leave it, or have none *)

LEMMA OutsideStep ==
  ASSUME StorageInv, NEW w \in Workers, Begin(w) \/ CopyToken(w)
  PROVE  StorageInv'
<1>1. /\ worker[w].pc \notin Locked /\ worker'[w].pc \notin Locked
      /\ \A v \in Workers \ {w} : worker'[v] = worker[v]
      /\ UNCHANGED <<config, inbox, accounts, blocks, m_Map>>
  <2>1. CASE Begin(w)
    <3>1. /\ worker[w].pc = "idle" /\ worker'[w].pc = "lock"
          /\ \A v \in Workers \ {w} : worker'[v] = worker[v]
      BY <2>1 DEF StorageInv, WorkerTypes, Begin
    <3> QED BY <2>1, <3>1 DEF Begin, Locked, Guarded
  <2>2. CASE CopyToken(w)
    <3>1. /\ worker[w].pc = "copy" /\ worker'[w].pc = "idle"
          /\ \A v \in Workers \ {w} : worker'[v] = worker[v]
      BY <2>2 DEF StorageInv, WorkerTypes, CopyToken, At, Idle
    <3> QED BY <2>2, <3>1 DEF CopyToken, Locked, Guarded
  <2> QED BY <2>1, <2>2
<1>2. WorkerTypes' /\ RequestOK(w)'
  <2>1. CASE Begin(w)
    <3>1. PICK call \in Calls, n \in Numbers : \E key \in Keys(call) :
            worker' = [worker EXCEPT ![w] = [pc |-> "lock", call |-> call, num |-> n, key |-> key]]
      BY <2>1 DEF Begin
    <3>2. PICK key \in Keys(call) :
            worker' = [worker EXCEPT ![w] = [pc |-> "lock", call |-> call, num |-> n, key |-> key]]
      BY <3>1
    <3>3. /\ key \in Pins \cup Tokens \cup {None}
          /\ call \in OwnerCalls \cup {"add"} => key \in Pins
          /\ call = "send" => key \in Pins \cup Tokens
      BY <3>2 DEF Keys, OwnerCalls, TokenCalls, LookCalls
    <3> QED BY <3>2, <3>3 DEF StorageInv, WorkerTypes, RequestOK, Num, Places
  <2>2. CASE CopyToken(w)
    BY <2>2 DEF CopyToken, StorageInv, WorkerTypes, RequestOK, Num, Places, Idle, OwnerCalls, None
  <2> QED BY <2>1, <2>2
<1>3. LockerExact'
  BY <1>1 DEF StorageInv, LockerExact, Num
<1>4. \A v \in Workers : RequestOK(v)'
  BY <1>1, <1>2 DEF StorageInv, RequestOK, Num
<1>5. \A n \in Numbers \ m_Map' : NumberOK(n)'
  BY <1>1, NumberKept DEF StorageInv, SameNumber
<1>6. ASSUME NEW v \in Workers, worker'[v].pc \in Locked
      PROVE  CallOK(v)'
  <2>1. worker'[v] = worker[v] /\ CallOK(v)
    BY <1>1, <1>6 DEF StorageInv
  <2>2. SameNumber(Num(v))
    BY <1>1 DEF SameNumber
  <2> QED BY <2>1, <2>2, CallKept
<1> QED BY <1>2, <1>3, <1>4, <1>5, <1>6 DEF StorageInv

LEMMA LockStep ==
  ASSUME StorageInv, NEW w \in Workers, Lock(w)
  PROVE  StorageInv'
<1> PICK n : n = Num(w) OBVIOUS
<1>1. /\ worker[w].pc = "lock" /\ n \in Numbers \ m_Map /\ m_Map' = m_Map \cup {n}
      /\ UNCHANGED <<config, inbox, accounts, blocks>>
  BY DEF StorageInv, Lock, RequestOK
<1>2. OnlyMoves(w) /\ worker'[w].pc = "find" /\ Num(w)' = n
  BY <1>1, GotoMoves DEF KeyNeeded, Lock, Places, Locked, Guarded, OnlyMoves, Num
<1>3. \A v \in Workers :
        Num(v)' = Num(v) /\ (worker'[v].pc \in Locked <=> worker[v].pc \in Locked \/ v = w)
  BY <1>1, <1>2 DEF OnlyMoves, Num, Locked
<1>4. LockerExact'
  <2>1. \A v \in Workers : worker[v].pc \in Locked => Num(v) # n
    BY <1>1 DEF StorageInv, LockerExact
  <2>2. \A u, v \in Workers :
          u # v /\ worker'[u].pc \in Locked /\ worker'[v].pc \in Locked => Num(u)' # Num(v)'
    BY <1>3, <2>1 DEF StorageInv, LockerExact
  <2>3. m_Map' = {Num(v)' : v \in {u \in Workers : worker'[u].pc \in Locked}}
    BY <1>1, <1>3 DEF StorageInv, LockerExact
  <2> QED BY <2>2, <2>3 DEF LockerExact
<1>5. \A m : SameNumber(m)
  BY <1>1 DEF SameNumber
<1>6. \A m \in Numbers \ m_Map' : NumberOK(m)'
  BY <1>1, <1>5, NumberKept DEF StorageInv
<1>7. ASSUME NEW v \in Workers, worker'[v].pc \in Locked
      PROVE  CallOK(v)'
  <2>1. CASE v # w
    BY <1>3, <1>5, <1>7, <2>1, <1>2, CallKept DEF StorageInv, OnlyMoves
  <2>2. NumberOK(n)'
    BY <1>1, <1>5, NumberKept DEF StorageInv
  <2>3. CallOK(w)'
    BY <1>2, <2>2 DEF CallOK, FilesOK, NumberOK, Guarded
  <2> QED BY <2>1, <2>3
<1>8. \A v \in Workers : RequestOK(v)'
  BY DEF KeyNeeded, StorageInv, RequestOK, Num, Lock, Goto, WorkerTypes
<1> QED BY <1>2, <1>4, <1>6, <1>7, <1>8 DEF StorageInv, OnlyMoves

LEMMA UnlockStep ==
  ASSUME StorageInv, NEW w \in Workers, Unlock(w)
  PROVE  StorageInv'
<1> PICK n : n = Num(w) OBVIOUS
<1>1. /\ worker[w].pc \in {"unlock", "release"} /\ worker[w].pc \in Locked /\ CallOK(w)
      /\ n \in Numbers /\ m_Map' = m_Map \ {n}
      /\ UNCHANGED <<config, inbox, blocks>>
  BY DEF StorageInv, Unlock, MapAfterUnlock, RequestOK, Locked, Guarded
<1>2. /\ worker'[w].pc \in {"lock", "copy", "idle"}
      /\ \A v \in Workers \ {w} : worker'[v] = worker[v]
      /\ WorkerTypes' /\ RequestOK(w)'
  <2>1. CASE /\ worker[w].call = "checked"
             /\ \E to \in Numbers :
                  worker' = [worker EXCEPT ![w].pc = "lock", ![w].call = "deliver", ![w].num = to]
    <3>1. PICK to \in Numbers :
            worker' = [worker EXCEPT ![w].pc = "lock", ![w].call = "deliver", ![w].num = to]
      BY <2>1
    <3> QED BY ZenonT(60), <3>1 DEF StorageInv, WorkerTypes, RequestOK, Num, Places, OwnerCalls
  <2>2. CASE Goto(w, "copy")
    <3>1. worker' = [worker EXCEPT ![w].pc = "copy", ![w].key = None]
      BY <2>2 DEF Goto, KeyNeeded
    <3> QED BY ZenonT(60), <1>1, <3>1 DEF KeyNeeded, StorageInv, WorkerTypes, RequestOK, Num, Places
  <2>3. CASE worker' = [worker EXCEPT ![w] = Idle]
    BY <2>3 DEF Idle, StorageInv, WorkerTypes, RequestOK, Num, Places, OwnerCalls, None
  <2> QED BY <2>1, <2>2, <2>3 DEF Unlock
<1>3. \A v \in Workers \ {w} :
        Num(v)' = Num(v) /\ (worker[v].pc \in Locked => Num(v) # n)
  BY <1>1, <1>2 DEF StorageInv, LockerExact, Num
<1>4. LockerExact'
  <2>1. worker'[w].pc \notin Locked
    BY <1>2 DEF Locked, Guarded
  <2>2. \A u, v \in Workers :
          u # v /\ worker'[u].pc \in Locked /\ worker'[v].pc \in Locked => Num(u)' # Num(v)'
    BY <1>2, <1>3, <2>1 DEF StorageInv, LockerExact
  <2>3. m_Map' = {Num(v)' : v \in {u \in Workers : worker'[u].pc \in Locked}}
    BY <1>1, <1>2, <1>3, <2>1 DEF StorageInv, LockerExact
  <2> QED BY <2>2, <2>3 DEF LockerExact
<1>5. \A m \in Numbers \ {n} : SameNumber(m)
  BY <1>1 DEF Unlock, SameNumber
<1>6. NumberOK(n)'
  <2>1. Agrees(n) /\ NumberTyped(n) /\ BlockIsFree(n)
    BY <1>1 DEF CallOK, FilesOK
  <2>2. CASE worker[w].pc = "unlock"
    BY <1>1, <2>1, <2>2 DEF Unlock, CallOK, Guarded, NumberOK, NumberTyped, Agrees, AccountAgrees, BlockAgrees,
       AccountIsFree, BlockIsFree
  <2>3. CASE worker[w].pc = "release"
    <3>1. accounts' = [accounts EXCEPT ![n].by = Free]
      BY <2>3 DEF Unlock
    <3>2. NumberTyped(n)'
      BY <1>1, <2>1, <3>1 DEF NumberTyped
    <3>3. Agrees(n)' /\ BlockIsFree(n)'
      BY <1>1, <2>1, <3>1 DEF NumberTyped, Agrees, AccountAgrees, BlockAgrees, BlockIsFree
    <3>4. AccountIsFree(n)'
      BY <2>1, <3>1 DEF NumberTyped, AccountIsFree
    <3> QED BY <3>2, <3>3, <3>4 DEF NumberOK
  <2> QED BY <1>1, <2>2, <2>3
<1>7. \A m \in Numbers \ m_Map' : NumberOK(m)'
  BY <1>1, <1>5, <1>6, NumberKept DEF StorageInv
<1>8. ASSUME NEW v \in Workers, worker'[v].pc \in Locked
      PROVE  CallOK(v)'
  <2>1. v # w /\ worker'[v] = worker[v] /\ worker[v].pc \in Locked
    BY <1>2, <1>8 DEF Locked, Guarded
  <2>2. Num(v) \in Numbers \ {n}
    BY <1>3, <2>1 DEF StorageInv, RequestOK, Locked, Guarded
  <2> QED BY <1>5, <2>1, <2>2, CallKept DEF StorageInv
<1>9. \A v \in Workers : RequestOK(v)'
  BY <1>2 DEF StorageInv, RequestOK, Num
<1> QED BY <1>2, <1>4, <1>7, <1>8, <1>9 DEF StorageInv

-----------------------------------------------------------------------------
(* The invariant, and what follows from it *)

LEMMA StorageInit == Init => StorageInv
<1> SUFFICES ASSUME Init PROVE StorageInv
  OBVIOUS
<1>1. \A w \in Workers : worker[w] = Idle
  BY DEF Init
<1>2. WorkerTypes /\ \A w \in Workers : RequestOK(w)
  BY <1>1 DEF Init, Idle, WorkerTypes, RequestOK, Places, OwnerCalls, None
<1>3. \A w \in Workers : worker[w].pc \notin Locked
  <2>1. \A w \in Workers : worker[w].pc = "idle"
    BY <1>1 DEF Idle
  <2> QED BY <2>1 DEF Locked, Guarded
<1>4. LockerExact
  BY <1>3 DEF LockerExact, Init
<1>5. \A n \in Numbers : NumberOK(n)
  BY DEF Init, NumberOK, NumberTyped, Agrees, AccountAgrees, BlockAgrees, AccountIsFree, BlockIsFree
<1> QED BY <1>2, <1>3, <1>4, <1>5 DEF StorageInv

LEMMA StorageNext == StorageInv /\ [Next]_vars => StorageInv'
<1> SUFFICES ASSUME StorageInv, [Next]_vars PROVE StorageInv'
  OBVIOUS
<1>1. ASSUME NEW w \in Workers, Begin(w) \/ CopyToken(w) PROVE StorageInv'
  BY <1>1, OutsideStep
<1>2. ASSUME NEW w \in Workers, Lock(w) \/ Unlock(w) \/ FindAccount(w) PROVE StorageInv'
  BY <1>2, LockStep, UnlockStep, FindAccountStep
<1>3. ASSUME NEW w \in Workers, RefusePin(w) \/ RefuseNumber(w) \/ Look(w) PROVE StorageInv'
  BY <1>3, QuietStep
<1>4. ASSUME NEW w \in Workers, Open(w) \/ CheckSender(w) PROVE StorageInv'
  BY <1>4, PinStep
<1>5. ASSUME NEW w \in Workers, OpenInbox(w) PROVE StorageInv'
  BY <1>5, PinStep, QuietStep DEF OpenInbox
<1>6. ASSUME NEW w \in Workers, AddNumber(w) \/ CreateInFolder(w) PROVE StorageInv'
  BY <1>6, AddNumberStep, CreateInFolderStep
<1>7. ASSUME NEW w \in Workers, DeleteFiles(w) \/ DeleteBlock(w) \/ DeleteAccount(w) PROVE StorageInv'
  BY <1>7, DeleteFilesStep, DeleteBlockStep, DeleteAccountStep
<1>8. ASSUME NEW w \in Workers, FindBlock(w) \/ UseBlock(w) PROVE StorageInv'
  BY <1>8, FindBlockStep, UseBlockStep
<1>9. ASSUME NEW w \in Workers, ChangePin(w) \/ SetToken(w) PROVE StorageInv'
  BY <1>9, ChangePinStep, SetTokenStep
<1>10. CASE UNCHANGED vars
  <2>1. \A m : SameNumber(m)
    BY <1>10 DEF vars, SameNumber
  <2>2. \A n \in Numbers \ m_Map' : NumberOK(n)'
    BY <1>10, <2>1, NumberKept DEF vars, StorageInv
  <2>3. \A v \in Workers : worker'[v].pc \in Locked => CallOK(v)'
    BY <1>10, <2>1, CallKept DEF vars, StorageInv
  <2> QED BY <1>10, <2>2, <2>3 DEF vars, StorageInv, WorkerTypes, RequestOK, LockerExact, Num
<1> QED BY <1>1, <1>2, <1>3, <1>4, <1>5, <1>6, <1>7, <1>8, <1>9, <1>10 DEF Next, Step

LEMMA StorageInvariant == Spec => []StorageInv
<1>1. Init => StorageInv
  BY StorageInit
<1>2. StorageInv /\ [Next]_vars => StorageInv'
  BY StorageNext
<1> QED BY <1>1, <1>2, PTL DEF Spec

\* Two calls never work on one number at a time, and no return or exception leaves a number
\* locked (CAccountLocker, CLockerGuard).
THEOREM OneCallPerNumber == Spec => []LockerExact
<1>1. StorageInv => LockerExact
  BY DEF StorageInv
<1> QED BY <1>1, StorageInvariant, PTL

\* A call that holds the lock of its number never finds its account or its block locked, so
\* that "Core is busy" is not reported (CAccountCache::Find, CBlocksCache::Find).
THEOREM CoreIsNeverBusy == Spec => []NeverBusy
<1>1. ASSUME StorageInv, NEW w \in Workers, worker[w].pc = "find", Num(w) \in DOMAIN accounts
      PROVE  Account(w).by = Free
  BY <1>1 DEF StorageInv, CallOK, AccountIsFree, Account, Locked, Guarded
<1>2. ASSUME StorageInv, NEW w \in Workers, worker[w].pc = "find block", Num(w) \in DOMAIN blocks
      PROVE  blocks[Num(w)].by = Free
  BY <1>2 DEF StorageInv, CallOK, BlockIsFree, Locked, Guarded
<1>3. StorageInv => NeverBusy
  BY <1>1, <1>2 DEF NeverBusy
<1> QED BY <1>3, StorageInvariant, PTL

\* The account that a guard keeps is not freed under its call when another call makes the cache
\* drop accounts (CAccountCache::Release).
THEOREM GuardKeepsAccount == Spec => []GuardedIsCached
<1>1. ASSUME StorageInv, NEW w \in Workers, worker[w].pc \in Guarded
      PROVE  Num(w) \in DOMAIN accounts /\ Account(w).by = w
  BY <1>1 DEF StorageInv, CallOK, Locked
<1>2. StorageInv => GuardedIsCached
  BY <1>1 DEF GuardedIsCached
<1> QED BY <1>2, StorageInvariant, PTL

\* What the caches hold of a number that no call works on is what its files hold, whatever was
\* dropped, deleted and added again.
THEOREM CachesAreTransparent == Spec => []CachesAgree
<1>1. StorageInv => CachesAgree
  BY DEF StorageInv, CachesAgree, NumberOK, Agrees, AccountAgrees, BlockAgrees
<1> QED BY <1>1, StorageInvariant, PTL

\* CheckPin on the account in memory lets nobody through but who has a pin that deciphers the id
\* in the config file of the number at this moment or, in SendMsg, its token; and the pin that the
\* id is ciphered with is refused only where another that deciphers it was let through before.
THEOREM PinCheckFollowsFile == Spec => []CheckFollowsFile
<1>1. ASSUME StorageInv, NEW w \in Workers, At(w, "use", OwnerCalls \cup {"send"}),
             NEW file, file = config[Num(w)], NEW key, key = worker[w].key
      PROVE  /\ Passes(w) => key \in file.id \/ (worker[w].call = "send" /\ key = file.token)
             /\ worker[w].call = "send" /\ key = file.token => Passes(w)
             /\ key = file.pin => Passes(w) \/ Account(w).pin \in file.id \ {file.pin}
  <2>1. /\ CallOK(w) /\ RequestOK(w) /\ Num(w) \in DOMAIN accounts
        /\ key # None
    BY <1>1, StorageAssumption DEF KeyNeeded, StorageInv, At, Locked, Guarded, CallOK, RequestOK, None
  <2>2. /\ Account(w).id = file.id /\ Account(w).token = file.token
        /\ Account(w).pin \in {None} \cup file.id
        /\ file.pin \in file.id
    BY <1>1, <2>1 DEF CallOK, NumberTyped, FilesOK, Agrees, AccountAgrees, At, Account
  <2> QED BY <1>1, <2>1, <2>2 DEF Passes, Opens, TokenOpens, PinOpens
<1>2. StorageInv => CheckFollowsFile
  BY <1>1 DEF CheckFollowsFile
<1> QED BY <1>2, StorageInvariant, PTL
=============================================================================
