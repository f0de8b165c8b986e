--------------------------- MODULE Caches_proofs ----------------------------
(***************************************************************************)
(* What the workers of the daemon share: the caches of accounts and of     *)
(* message blocks, and the pool of coders. For any workers, numbers and    *)
(* limits.                                                                 *)
(***************************************************************************)
EXTENDS Caches, CoderPool, FiniteSetTheorems, TLAPS

-----------------------------------------------------------------------------
(***************************************************************************)
(* Caches: who holds what, and the count of the open handles.              *)
(***************************************************************************)

CachesTypes ==
  /\ clock \in 1..MaxClock
  /\ DOMAIN accounts \subseteq Numbers
  /\ \A n \in DOMAIN accounts : accounts[n] \in [by : Workers \cup {Free}, last : 1..clock]
  /\ DOMAIN blocks \subseteq Numbers
  /\ \A n \in DOMAIN blocks : blocks[n] \in [by : Workers \cup {Free}, open : BOOLEAN]
  /\ m_nDeleted \in 0..m_nMaxItems
  /\ m_nAdded \in 0..g_nMaxAddedToCheckHandles
  /\ worker \in [Workers -> [pc : Held \cup {"idle"}, num : Numbers \cup {NoNumber}]]

\* An account is locked by the worker that works on its number and by no other, and is
\* there as long as it does.
AccountsHeld ==
  /\ \A n \in DOMAIN accounts, w \in Workers :
       accounts[n].by = w <=> worker[w].pc \in Held /\ Num(w) = n
  /\ \A w \in Workers : worker[w].pc \in Held => Num(w) \in DOMAIN accounts

\* The same of the blocks, while a worker is at its block.
BlocksHeld ==
  /\ \A n \in DOMAIN blocks, w \in Workers :
       blocks[n].by = w <=> worker[w].pc = "block" /\ Num(w) = n
  /\ \A w \in Workers : worker[w].pc = "block" => Num(w) \in DOMAIN blocks

CachesInv == CachesTypes /\ AccountsHeld /\ BlocksHeld /\ HandlersExact

-----------------------------------------------------------------------------
(* Sets of open files *)

OpenFiles == OpenIn(blocks, DOMAIN blocks)

LEMMA OpenFilesFinite == CachesInv => IsFiniteSet(OpenFiles)
<1> SUFFICES ASSUME CachesInv PROVE IsFiniteSet(OpenFiles)
  OBVIOUS
<1>1. OpenFiles \in SUBSET Numbers
  BY DEF OpenFiles, OpenIn, CachesInv, CachesTypes
<1> QED BY <1>1, FS_Subset, CachesAssumption

\* The count stays that of the files that are open when those of S are closed.
LEMMA FewerOpen ==
  ASSUME CachesInv, NEW S \in SUBSET OpenFiles,
         OpenFiles' = OpenFiles \ S, handlers' = HandlersAfter(S)
  PROVE  HandlersExact'
<1>1. Cardinality(OpenFiles \ S) = Cardinality(OpenFiles) - Cardinality(OpenFiles \cap S)
  BY OpenFilesFinite, FS_Difference
<1>2. OpenFiles \cap S = S
  OBVIOUS
<1> QED BY <1>1, <1>2 DEF CachesInv, HandlersExact, HandlersAfter, OpenFiles

LEMMA SameOpen ==
  ASSUME CachesInv, OpenFiles' = OpenFiles, handlers' = handlers
  PROVE  HandlersExact'
BY DEF CachesInv, HandlersExact, OpenFiles

-----------------------------------------------------------------------------
(* What a step of a worker touches *)

\* Accounts of other numbers stay as they are, or are dropped when nobody has them.
OtherAccountsKept(n) ==
  /\ \A m \in DOMAIN accounts' \ {n} : m \in DOMAIN accounts /\ accounts'[m] = accounts[m]
  /\ \A m \in DOMAIN accounts \ {n} : accounts[m].by # Free => m \in DOMAIN accounts'

\* So do blocks, whose file may be closed when nobody has them.
OtherBlocksKept(n) ==
  /\ \A m \in DOMAIN blocks' \ {n} :
       m \in DOMAIN blocks /\ blocks'[m].by = blocks[m].by
       /\ (blocks[m].by # Free => blocks'[m] = blocks[m])
  /\ \A m \in DOMAIN blocks \ {n} : blocks[m].by # Free => m \in DOMAIN blocks'

\* Worker w goes on, at number n.
Moves(w, n, pc, num) == worker' = [worker EXCEPT ![w] = [pc |-> pc, num |-> num]]

\* Nobody but w works on n.
OnlyAt(w, n) == \A v \in Workers \ {w} : worker[v].pc \in Held => Num(v) # n

LEMMA AloneAtNumber ==
  ASSUME CachesInv, NEW w \in Workers, worker[w].pc \in Held
  PROVE  OnlyAt(w, Num(w)) /\ Num(w) \in Numbers /\ Num(w) \in DOMAIN accounts
         /\ accounts[Num(w)].by = w
BY DEF CachesInv, CachesTypes, AccountsHeld, OnlyAt

LEMMA AccountsHeldKept ==
  ASSUME CachesInv, NEW w \in Workers, NEW n, NEW pc, NEW num, Moves(w, n, pc, num), OnlyAt(w, n),
         worker[w].pc \in Held => Num(w) = n,
         OtherAccountsKept(n),
         pc \in Held => num = n /\ n \in DOMAIN accounts' /\ accounts'[n].by = w,
         pc \notin Held => n \notin DOMAIN accounts' \/ accounts'[n].by = Free
  PROVE  AccountsHeld'
<1>1. /\ worker'[w] = [pc |-> pc, num |-> num]
      /\ \A v \in Workers \ {w} : worker'[v] = worker[v]
  BY DEF CachesInv, CachesTypes, Moves
<1>2. ASSUME NEW m \in DOMAIN accounts', NEW v \in Workers
      PROVE  accounts'[m].by = v <=> worker'[v].pc \in Held /\ Num(v)' = m
  <2>1. CASE m = n
    BY <1>1, <2>1, CachesAssumption DEF OnlyAt, Num
  <2>2. CASE m # n
    <3>1. m \in DOMAIN accounts /\ accounts'[m] = accounts[m]
      BY <2>2 DEF OtherAccountsKept
    <3>2. accounts[m].by = v <=> worker[v].pc \in Held /\ Num(v) = m
      BY <3>1 DEF CachesInv, AccountsHeld
    <3> QED BY <1>1, <2>2, <3>1, <3>2 DEF Num
  <2> QED BY <2>1, <2>2
<1>3. ASSUME NEW v \in Workers, worker'[v].pc \in Held
      PROVE  Num(v)' \in DOMAIN accounts'
  <2>1. CASE v = w
    BY <1>1, <1>3, <2>1 DEF Num
  <2>2. CASE v # w
    <3>1. /\ worker[v].pc \in Held /\ Num(v) # n /\ Num(v)' = Num(v)
          /\ Num(v) \in DOMAIN accounts
      BY <1>1, <1>3, <2>2 DEF OnlyAt, Num, CachesInv, AccountsHeld
    <3>2. accounts[Num(v)].by = v
      BY <3>1 DEF CachesInv, AccountsHeld
    <3> QED BY <3>1, <3>2, CachesAssumption DEF OtherAccountsKept
  <2> QED BY <2>1, <2>2
<1> QED BY <1>2, <1>3 DEF AccountsHeld

LEMMA BlocksHeldKept ==
  ASSUME CachesInv, NEW w \in Workers, NEW n, NEW pc, NEW num, Moves(w, n, pc, num), OnlyAt(w, n),
         worker[w].pc \in Held => Num(w) = n,
         OtherBlocksKept(n),
         pc = "block" => num = n /\ n \in DOMAIN blocks' /\ blocks'[n].by = w,
         pc # "block" => n \notin DOMAIN blocks' \/ blocks'[n].by = Free
  PROVE  BlocksHeld'
<1>1. /\ worker'[w] = [pc |-> pc, num |-> num]
      /\ \A v \in Workers \ {w} : worker'[v] = worker[v]
      /\ "block" \in Held
  BY DEF CachesInv, CachesTypes, Moves, Held
<1>2. ASSUME NEW m \in DOMAIN blocks', NEW v \in Workers
      PROVE  blocks'[m].by = v <=> worker'[v].pc = "block" /\ Num(v)' = m
  <2>1. CASE m = n
    BY <1>1, <2>1, CachesAssumption DEF OnlyAt, Num
  <2>2. CASE m # n
    <3>1. m \in DOMAIN blocks /\ blocks'[m].by = blocks[m].by
      BY <2>2 DEF OtherBlocksKept
    <3>2. blocks[m].by = v <=> worker[v].pc = "block" /\ Num(v) = m
      BY <3>1 DEF CachesInv, BlocksHeld
    <3> QED BY <1>1, <2>2, <3>1, <3>2 DEF Num
  <2> QED BY <2>1, <2>2
<1>3. ASSUME NEW v \in Workers, worker'[v].pc = "block"
      PROVE  Num(v)' \in DOMAIN blocks'
  <2>1. CASE v = w
    BY <1>1, <1>3, <2>1 DEF Num
  <2>2. CASE v # w
    <3>1. /\ worker[v].pc = "block" /\ Num(v) # n /\ Num(v)' = Num(v)
          /\ Num(v) \in DOMAIN blocks
      BY <1>1, <1>3, <2>2 DEF OnlyAt, Num, CachesInv, BlocksHeld
    <3>2. blocks[Num(v)].by = v
      BY <3>1 DEF CachesInv, BlocksHeld
    <3> QED BY <3>1, <3>2, CachesAssumption DEF OtherBlocksKept
  <2> QED BY <2>1, <2>2
<1> QED BY <1>2, <1>3 DEF BlocksHeld

\* A worker that has a number, and is not at its block, finds the block free.
LEMMA BlockIsFree ==
  ASSUME CachesInv, NEW w \in Workers, NEW n, OnlyAt(w, n), n \in DOMAIN blocks,
         worker[w].pc = "block" => Num(w) # n
  PROVE  blocks[n].by = Free
<1>1. \A v \in Workers : blocks[n].by # v
  BY DEF CachesInv, BlocksHeld, OnlyAt, Held
<1> QED BY <1>1 DEF CachesInv, CachesTypes

-----------------------------------------------------------------------------
(* One lemma per action: the invariant, and what LockedStays and OldAccountsGoFirst ask *)

\* The worker that acts is not where it was, and touches only its number.
Touches(w, n) ==
  /\ worker'[w] # worker[w]
  /\ OnlyAt(w, n)
  /\ OtherAccountsKept(n)
  /\ OtherBlocksKept(n)
  /\ CachesInv'

LEMMA FindAccountStep ==
  ASSUME CachesInv, NEW w \in Workers, FindAccount(w)
  PROVE  \E n \in Numbers : Touches(w, n) /\ DOMAIN accounts \subseteq DOMAIN accounts'
<1>1. PICK n \in Numbers \ {Num(v) : v \in Workers} :
        /\ accounts' = With(accounts, n, [by |-> w, last |-> clock])
        /\ worker' = [worker EXCEPT ![w] = [pc |-> "account", num |-> n]]
  BY DEF FindAccount
<1>2. worker[w].pc = "idle" /\ UNCHANGED <<clock, blocks, m_nDeleted, m_nAdded, handlers>>
  BY DEF FindAccount
<1>3. OnlyAt(w, n)
  BY <1>1 DEF OnlyAt
<1>4. OtherAccountsKept(n) /\ n \in DOMAIN accounts' /\ accounts'[n] = [by |-> w, last |-> clock]
  BY <1>1 DEF With, OtherAccountsKept
<1>5. OtherBlocksKept(n)
  BY <1>2 DEF OtherBlocksKept
<1>6. Moves(w, n, "account", n)
  BY <1>1 DEF Moves
<1>7. "account" \in Held /\ "idle" \notin Held
  BY DEF Held
<1>8. CachesTypes'
  <2>1. \A m \in DOMAIN accounts' : m \in Numbers /\ accounts'[m] \in [by : Workers \cup {Free}, last : 1..clock]
    BY <1>1, <1>4 DEF CachesInv, CachesTypes, OtherAccountsKept
  <2>2. worker' \in [Workers -> [pc : Held \cup {"idle"}, num : Numbers \cup {NoNumber}]]
    BY <1>1, <1>7 DEF CachesInv, CachesTypes
  <2> QED BY <1>2, <2>1, <2>2 DEF CachesInv, CachesTypes
<1>9. AccountsHeld'
  BY <1>2, <1>3, <1>4, <1>6, <1>7, AccountsHeldKept
<1>10. n \notin DOMAIN blocks' \/ blocks'[n].by = Free
  BY <1>2, <1>3, BlockIsFree
<1>11. BlocksHeld'
  BY <1>2, <1>3, <1>5, <1>6, <1>7, <1>10, BlocksHeldKept
<1>12. HandlersExact'
  BY <1>2, SameOpen DEF OpenFiles
<1>13. worker'[w] # worker[w] /\ DOMAIN accounts \subseteq DOMAIN accounts'
  BY <1>1, <1>2 DEF CachesInv, CachesTypes, With
<1> QED BY <1>3, <1>4, <1>5, <1>8, <1>9, <1>11, <1>12, <1>13 DEF Touches, CachesInv

\* A step of a worker at its number, which leaves the accounts alone.
LEMMA BlockStep ==
  ASSUME CachesInv, NEW w \in Workers, NEW n, n = Num(w), NEW pc \in Held, Goto(w, pc),
         worker[w].pc \in Held \ {pc}, UNCHANGED <<clock, accounts, m_nDeleted>>,
         OtherBlocksKept(n), HandlersExact', m_nAdded' \in 0..g_nMaxAddedToCheckHandles,
         DOMAIN blocks' \subseteq Numbers,
         \A m \in DOMAIN blocks' : blocks'[m] \in [by : Workers \cup {Free}, open : BOOLEAN],
         pc = "block" => n \in DOMAIN blocks' /\ blocks'[n].by = w,
         pc # "block" => n \notin DOMAIN blocks' \/ blocks'[n].by = Free
  PROVE  Touches(w, n) /\ n \in Numbers
<1>1. OnlyAt(w, n) /\ n \in Numbers /\ n \in DOMAIN accounts /\ accounts[n].by = w
  BY AloneAtNumber
<1>2. OtherAccountsKept(n)
  BY DEF OtherAccountsKept
<1>3. Moves(w, n, pc, n)
  <2>1. worker[w] \in [pc : Held \cup {"idle"}, num : Numbers \cup {NoNumber}]
    BY DEF CachesInv, CachesTypes
  <2>2. [worker[w] EXCEPT !.pc = pc] = [pc |-> pc, num |-> n]
    BY <2>1 DEF Num
  <2> QED BY <2>2 DEF Goto, Moves
<1>4. CachesTypes'
  <2>1. worker' \in [Workers -> [pc : Held \cup {"idle"}, num : Numbers \cup {NoNumber}]]
    BY DEF Goto, CachesInv, CachesTypes
  <2> QED BY <2>1 DEF CachesInv, CachesTypes
<1>5. AccountsHeld'
  BY <1>1, <1>2, <1>3, AccountsHeldKept
<1>6. BlocksHeld'
  BY <1>1, <1>3, BlocksHeldKept
<1>7. worker'[w] # worker[w]
  BY DEF Goto, CachesInv, CachesTypes
<1> QED BY <1>1, <1>2, <1>4, <1>5, <1>6, <1>7 DEF Touches, CachesInv

LEMMA FindBlockStep ==
  ASSUME CachesInv, NEW w \in Workers, FindBlock(w)
  PROVE  Touches(w, Num(w)) /\ Num(w) \in Numbers /\ accounts' = accounts
<1> PICK n : n = Num(w) OBVIOUS
<1>1. /\ worker[w].pc = "account" /\ Goto(w, "block") /\ n \in DOMAIN blocks
      /\ blocks' = [blocks EXCEPT ![n].by = w]
      /\ UNCHANGED <<clock, accounts, m_nDeleted, m_nAdded, handlers>>
      /\ "account" \in Held /\ "block" \in Held
  BY DEF FindBlock, Held
<1>2. OtherBlocksKept(n) /\ n \in DOMAIN blocks' /\ DOMAIN blocks' \subseteq Numbers
  BY <1>1 DEF OtherBlocksKept, CachesInv, CachesTypes
<1>3. blocks[n] \in [by : Workers \cup {Free}, open : BOOLEAN] /\ blocks'[n] = [blocks[n] EXCEPT !.by = w]
  BY <1>1 DEF CachesInv, CachesTypes
<1>4. blocks'[n].by = w /\ blocks'[n].open = blocks[n].open
      /\ blocks'[n] \in [by : Workers \cup {Free}, open : BOOLEAN]
  BY <1>3
<1>5. \A m \in DOMAIN blocks' : blocks'[m] \in [by : Workers \cup {Free}, open : BOOLEAN]
  BY <1>1, <1>4 DEF CachesInv, CachesTypes
<1>6. OpenFiles' = OpenFiles
  BY <1>1, <1>4 DEF OpenFiles, OpenIn
<1>7. HandlersExact'
  BY <1>1, <1>6, SameOpen
<1>8. m_nAdded' \in 0..g_nMaxAddedToCheckHandles
  BY <1>1 DEF CachesInv, CachesTypes
<1> QED BY <1>1, <1>2, <1>4, <1>5, <1>7, <1>8, BlockStep

\* The blocks after some that nobody has locked were dropped or closed.
Released(cache, S) ==
  /\ DOMAIN cache \subseteq DOMAIN blocks /\ DOMAIN blocks \ S \subseteq DOMAIN cache
  /\ \A m \in DOMAIN cache :
       /\ cache[m] \in [by : Workers \cup {Free}, open : BOOLEAN]
       /\ cache[m].by = blocks[m].by
       /\ m \notin S => cache[m] = blocks[m]
       /\ m \in S => ~cache[m].open

LEMMA ReleasedByRemove ==
  ASSUME CachesInv, NEW S
  PROVE  Released(Remove(blocks, S), S)
BY DEF CachesInv, CachesTypes, Released, Remove

LEMMA ReleasedByClose ==
  ASSUME CachesInv, NEW S
  PROVE  Released(Closed(blocks, S), S)
<1> DEFINE cache == Closed(blocks, S)
<1>1. DOMAIN cache = DOMAIN blocks
  BY DEF Closed
<1>2. ASSUME NEW m \in DOMAIN blocks
      PROVE  /\ cache[m] \in [by : Workers \cup {Free}, open : BOOLEAN]
             /\ cache[m].by = blocks[m].by
             /\ m \notin S => cache[m] = blocks[m]
             /\ m \in S => ~cache[m].open
  <2>1. blocks[m] \in [by : Workers \cup {Free}, open : BOOLEAN]
    BY DEF CachesInv, CachesTypes
  <2>2. CASE m \in S
    <3>1. cache[m] = [blocks[m] EXCEPT !.open = FALSE]
      BY <2>2 DEF Closed
    <3> HIDE DEF cache
    <3> QED BY <2>1, <2>2, <3>1
  <2>3. CASE m \notin S
    BY <2>1, <2>3 DEF Closed
  <2> QED BY <2>2, <2>3
<1> HIDE DEF cache
<1>3. Released(cache, S)
  BY <1>1, <1>2 DEF Released
<1> QED BY <1>3 DEF cache

LEMMA NewBlockStep ==
  ASSUME CachesInv, NEW w \in Workers, worker[w].pc = "account", Goto(w, "block"),
         Num(w) \notin DOMAIN blocks,
         NEW S \in SUBSET OpenIn(blocks, Unlocked(blocks)), NEW cache, Released(cache, S),
         blocks' = WithNew(cache, w), handlers' = HandlersAfter(S),
         m_nAdded' \in 0..g_nMaxAddedToCheckHandles, UNCHANGED <<clock, accounts, m_nDeleted>>
  PROVE  Touches(w, Num(w)) /\ Num(w) \in Numbers /\ accounts' = accounts
<1> PICK n : n = Num(w) OBVIOUS
<1> DEFINE new == [by |-> w, open |-> FALSE]
<1>1. /\ DOMAIN blocks' = DOMAIN cache \cup {n} /\ blocks'[n] = new
      /\ \A m \in DOMAIN cache : m # n => blocks'[m] = cache[m]
      /\ n \notin DOMAIN cache
  BY DEF WithNew, With, Released
<1>2. new \in [by : Workers \cup {Free}, open : BOOLEAN] /\ new.by = w /\ ~new.open
  OBVIOUS
<1> HIDE DEF new
<1>3. n \in Numbers /\ "account" \in Held /\ "block" \in Held
  BY AloneAtNumber DEF Held
<1>4. S \in SUBSET OpenFiles /\ \A m \in S : m \in DOMAIN blocks /\ blocks[m].by = Free
  BY DEF OpenFiles, OpenIn, Unlocked
<1>5. OtherBlocksKept(n)
  BY <1>1, <1>4 DEF OtherBlocksKept, Released
<1>6. \A m \in DOMAIN blocks' : blocks'[m] \in [by : Workers \cup {Free}, open : BOOLEAN]
  BY <1>1, <1>2 DEF Released
<1>7. DOMAIN blocks' \subseteq Numbers
  BY <1>1, <1>3 DEF Released, CachesInv, CachesTypes
<1>8. OpenFiles' = OpenFiles \ S
  <2>1. \A m : m \in OpenFiles' <=> m \in DOMAIN cache /\ cache[m].open
    BY <1>1, <1>2 DEF OpenFiles, OpenIn
  <2>2. \A m : m \in OpenFiles <=> m \in DOMAIN blocks /\ blocks[m].open
    BY DEF OpenFiles, OpenIn
  <2>3. \A m : m \in DOMAIN cache /\ cache[m].open <=> m \in DOMAIN blocks /\ blocks[m].open /\ m \notin S
    BY DEF Released
  <2> QED BY <2>1, <2>2, <2>3
<1>9. HandlersExact'
  BY <1>4, <1>8, FewerOpen
<1> QED BY <1>1, <1>2, <1>3, <1>5, <1>6, <1>7, <1>9, BlockStep

LEMMA AddAndLockStep ==
  ASSUME CachesInv, NEW w \in Workers, AddAndLock(w)
  PROVE  Touches(w, Num(w)) /\ Num(w) \in Numbers /\ accounts' = accounts
<1>1. /\ worker[w].pc = "account" /\ Goto(w, "block") /\ Num(w) \notin DOMAIN blocks
      /\ UNCHANGED <<clock, accounts, m_nDeleted>>
      /\ m_nAdded' \in 0..g_nMaxAddedToCheckHandles
  BY CachesAssumption DEF AddAndLock, CachesInv, CachesTypes
<1>2. CASE blocks' = WithNew(blocks, w) /\ UNCHANGED handlers
  <2>1. Released(blocks, {}) /\ {} \in SUBSET OpenIn(blocks, Unlocked(blocks))
    BY DEF Released, CachesInv, CachesTypes
  <2>2. handlers' = HandlersAfter({})
    <3>1. Cardinality({}) = 0 /\ handlers \in Nat
      BY FS_EmptySet, FS_CardinalityType, OpenFilesFinite DEF CachesInv, HandlersExact, OpenFiles
    <3> QED BY <1>2, <3>1 DEF HandlersAfter
  <2> QED BY <1>1, <1>2, <2>1, <2>2, NewBlockStep
<1>3. ASSUME NEW S \in Victims(blocks), NEW memoryIsShort \in BOOLEAN,
             blocks' = WithNew(IF memoryIsShort THEN Remove(blocks, S) ELSE Closed(blocks, S), w),
             handlers' = HandlersAfter(S)
      PROVE  Touches(w, Num(w)) /\ Num(w) \in Numbers /\ accounts' = accounts
  <2>1. S \in SUBSET OpenIn(blocks, Unlocked(blocks))
    BY DEF Victims
  <2>2. CASE memoryIsShort
    BY <1>1, <1>3, <2>1, <2>2, ReleasedByRemove, NewBlockStep
  <2>3. CASE ~memoryIsShort
    BY <1>1, <1>3, <2>1, <2>3, ReleasedByClose, NewBlockStep
  <2> QED BY <2>2, <2>3
<1> QED BY <1>2, <1>3 DEF AddAndLock, ReleaseHandles

LEMMA UseBlockStep ==
  ASSUME CachesInv, NEW w \in Workers, UseBlock(w)
  PROVE  Touches(w, Num(w)) /\ Num(w) \in Numbers /\ accounts' = accounts
<1> PICK n : n = Num(w) OBVIOUS
<1>1. /\ worker[w].pc = "block" /\ Goto(w, "account") /\ n \in DOMAIN blocks
      /\ blocks' = [blocks EXCEPT ![n] = [by |-> Free, open |-> TRUE]]
      /\ handlers' = IF blocks[n].open THEN handlers ELSE handlers + 1
      /\ UNCHANGED <<clock, accounts, m_nDeleted, m_nAdded>>
      /\ "account" \in Held /\ "block" \in Held
  BY DEF UseBlock, Held, CachesInv, BlocksHeld
<1>2. /\ OtherBlocksKept(n) /\ DOMAIN blocks' \subseteq Numbers
      /\ blocks'[n] = [by |-> Free, open |-> TRUE]
  BY <1>1 DEF OtherBlocksKept, CachesInv, CachesTypes
<1>3. \A m \in DOMAIN blocks' : blocks'[m] \in [by : Workers \cup {Free}, open : BOOLEAN]
  BY <1>1, <1>2 DEF CachesInv, CachesTypes
<1>4. OpenFiles' = OpenFiles \cup {n}
  BY <1>1, <1>2 DEF OpenFiles, OpenIn
<1>5. n \in OpenFiles <=> blocks[n].open
  BY <1>1 DEF OpenFiles, OpenIn
<1>6. Cardinality(OpenFiles \cup {n}) =
        IF n \in OpenFiles THEN Cardinality(OpenFiles) ELSE Cardinality(OpenFiles) + 1
  BY OpenFilesFinite, FS_AddElement
<1>7. HandlersExact'
  BY <1>1, <1>4, <1>5, <1>6 DEF CachesInv, HandlersExact, OpenFiles
<1>8. m_nAdded' \in 0..g_nMaxAddedToCheckHandles
  BY <1>1 DEF CachesInv, CachesTypes
<1> QED BY <1>1, <1>2, <1>3, <1>7, <1>8, BlockStep

LEMMA DeleteBlockStep ==
  ASSUME CachesInv, NEW w \in Workers, DeleteBlock(w)
  PROVE  Touches(w, Num(w)) /\ Num(w) \in Numbers /\ accounts' = accounts
<1> PICK n : n = Num(w) OBVIOUS
<1> DEFINE gone == {n} \cap DOMAIN blocks
<1>1. /\ worker[w].pc = "account" /\ Goto(w, "delete")
      /\ blocks' = Remove(blocks, gone)
      /\ handlers' = HandlersAfter(OpenIn(blocks, gone))
      /\ UNCHANGED <<clock, accounts, m_nDeleted, m_nAdded>>
      /\ "account" \in Held /\ "delete" \in Held
  BY DEF DeleteBlock, Held
<1>2. /\ OtherBlocksKept(n) /\ DOMAIN blocks' \subseteq Numbers /\ n \notin DOMAIN blocks'
      /\ \A m \in DOMAIN blocks' : blocks'[m] \in [by : Workers \cup {Free}, open : BOOLEAN]
  BY <1>1 DEF Remove, OtherBlocksKept, CachesInv, CachesTypes
<1>3. /\ OpenFiles' = OpenFiles \ OpenIn(blocks, gone)
      /\ OpenIn(blocks, gone) \in SUBSET OpenFiles
  BY <1>1 DEF OpenFiles, OpenIn, Remove
<1>4. HandlersExact'
  BY <1>1, <1>3, FewerOpen
<1>5. m_nAdded' \in 0..g_nMaxAddedToCheckHandles
  BY <1>1 DEF CachesInv, CachesTypes
<1> QED BY <1>1, <1>2, <1>4, <1>5, BlockStep

\* A step of a worker that leaves its number.
LEMMA LeaveStep ==
  ASSUME CachesInv, NEW w \in Workers, NEW n, n = Num(w), worker[w].pc \in {"account", "delete"},
         worker' = [worker EXCEPT ![w] = [pc |-> "idle", num |-> NoNumber]],
         OtherAccountsKept(n), n \notin DOMAIN accounts' \/ accounts'[n].by = Free,
         DOMAIN accounts' \subseteq Numbers,
         \A m \in DOMAIN accounts' : accounts'[m] \in [by : Workers \cup {Free}, last : 1..clock],
         m_nDeleted' \in 0..m_nMaxItems, UNCHANGED <<clock, blocks, m_nAdded, handlers>>
  PROVE  Touches(w, n) /\ n \in Numbers
<1>1. worker[w].pc \in Held /\ "idle" \notin Held /\ worker[w].pc # "block"
  BY DEF Held
<1>2. OnlyAt(w, n) /\ n \in Numbers
  BY <1>1, AloneAtNumber
<1>3. OtherBlocksKept(n) /\ Moves(w, n, "idle", NoNumber)
  BY DEF OtherBlocksKept, Moves
<1>4. CachesTypes'
  <2>1. worker' \in [Workers -> [pc : Held \cup {"idle"}, num : Numbers \cup {NoNumber}]]
    BY DEF CachesInv, CachesTypes
  <2> QED BY <2>1 DEF CachesInv, CachesTypes
<1>5. AccountsHeld'
  BY <1>1, <1>2, <1>3, AccountsHeldKept
<1>6. n \notin DOMAIN blocks' \/ blocks'[n].by = Free
  BY <1>1, <1>2, BlockIsFree
<1>7. BlocksHeld'
  BY <1>1, <1>2, <1>3, <1>6, BlocksHeldKept
<1>8. HandlersExact'
  BY SameOpen DEF OpenFiles
<1>9. worker'[w] # worker[w]
  BY <1>1 DEF CachesInv, CachesTypes
<1> QED BY <1>2, <1>3, <1>4, <1>5, <1>7, <1>8, <1>9 DEF Touches, CachesInv

LEMMA ReleaseAccountStep ==
  ASSUME CachesInv, NEW w \in Workers, ReleaseAccount(w)
  PROVE  Touches(w, Num(w)) /\ Num(w) \in Numbers /\ DOMAIN accounts' = DOMAIN accounts
<1> PICK n : n = Num(w) OBVIOUS
<1>1. worker[w].pc = "account" /\ n \in DOMAIN accounts /\ accounts' = [accounts EXCEPT ![n].by = Free]
      /\ worker' = [worker EXCEPT ![w] = [pc |-> "idle", num |-> NoNumber]]
      /\ UNCHANGED <<clock, blocks, m_nDeleted, m_nAdded, handlers>>
  BY AloneAtNumber DEF ReleaseAccount, Held
<1>2. OtherAccountsKept(n) /\ DOMAIN accounts' = DOMAIN accounts
  BY <1>1 DEF OtherAccountsKept
<1>3. accounts[n] \in [by : Workers \cup {Free}, last : 1..clock] /\ accounts'[n] = [accounts[n] EXCEPT !.by = Free]
  BY <1>1 DEF CachesInv, CachesTypes
<1>4. accounts'[n] \in [by : Workers \cup {Free}, last : 1..clock] /\ accounts'[n].by = Free
  BY <1>3
<1>5. \A m \in DOMAIN accounts' : accounts'[m] \in [by : Workers \cup {Free}, last : 1..clock]
  BY <1>1, <1>4 DEF CachesInv, CachesTypes
<1>6. DOMAIN accounts' \subseteq Numbers /\ m_nDeleted' \in 0..m_nMaxItems
  BY <1>1, <1>2 DEF CachesInv, CachesTypes
<1> QED BY <1>1, <1>2, <1>4, <1>5, <1>6, LeaveStep

\* The accounts that go with a deletion are not younger than those that stay.
Ordered ==
  \A gone \in Unlocked(accounts) \ DOMAIN accounts', n \in Unlocked(accounts) :
    n \in DOMAIN accounts' => accounts[gone].last <= accounts[n].last

LEMMA DeleteAccountStep ==
  ASSUME CachesInv, NEW w \in Workers, DeleteAccount(w)
  PROVE  Touches(w, Num(w)) /\ Num(w) \in Numbers /\ Ordered
<1> PICK n : n = Num(w) OBVIOUS
<1> DEFINE cache == Remove(accounts, {n})
<1>1. worker[w].pc = "delete" /\ n \in DOMAIN accounts /\ accounts[n].by = w
      /\ worker' = [worker EXCEPT ![w] = [pc |-> "idle", num |-> NoNumber]]
      /\ UNCHANGED <<clock, blocks, m_nAdded, handlers>>
  BY AloneAtNumber DEF DeleteAccount, Held
<1>2. m_nDeleted' \in 0..m_nMaxItems
  BY CachesAssumption DEF DeleteAccount, CachesInv, CachesTypes
<1>3. DOMAIN cache = DOMAIN accounts \ {n} /\ \A m \in DOMAIN cache : cache[m] = accounts[m]
  BY DEF Remove
<1>4. PICK S : /\ accounts' = Remove(cache, S)
               /\ S \subseteq Unlocked(cache)
               /\ \A g \in S, m \in Unlocked(cache) \ S : IsBefore(cache[g], cache[m])
  <2>1. CASE \E S \in Release(cache) : accounts' = Remove(cache, S)
    <3>1. PICK S \in Release(cache) : accounts' = Remove(cache, S)
      BY <2>1
    <3>2. S = {} \/ \E k : S \in First(cache, Unlocked(cache), k)
      BY <3>1 DEF Release
    <3> QED BY <3>1, <3>2 DEF First
  <2>2. CASE accounts' = cache
    <3>1. accounts' = Remove(cache, {})
      BY <2>2 DEF Remove
    <3> QED BY <3>1
  <2> QED BY <2>1, <2>2 DEF DeleteAccount
<1>5. DOMAIN accounts' = DOMAIN accounts \ ({n} \cup S) /\ \A m \in DOMAIN accounts' : accounts'[m] = accounts[m]
  BY <1>3, <1>4 DEF Remove
<1>6. \A m : m \in Unlocked(cache) <=> m \in DOMAIN accounts /\ m # n /\ accounts[m].by = Free
  BY <1>3 DEF Unlocked
<1>7. OtherAccountsKept(n)
  BY <1>4, <1>5, <1>6 DEF OtherAccountsKept
<1>8. Ordered
  <2> SUFFICES ASSUME NEW gone \in Unlocked(accounts) \ DOMAIN accounts', NEW m \in Unlocked(accounts),
                      m \in DOMAIN accounts'
               PROVE  accounts[gone].last <= accounts[m].last
    BY DEF Ordered
  <2>1. gone # n /\ gone \in S
    BY <1>1, <1>5, CachesAssumption DEF Unlocked
  <2>2. m \in Unlocked(cache) \ S /\ gone \in Unlocked(cache)
    BY <1>4, <1>5, <1>6, <2>1 DEF Unlocked
  <2>3. IsBefore(cache[gone], cache[m])
    BY <1>4, <2>1, <2>2
  <2> QED BY <1>3, <2>2, <2>3 DEF IsBefore, Unlocked
<1>9. /\ DOMAIN accounts' \subseteq Numbers /\ n \notin DOMAIN accounts'
      /\ \A m \in DOMAIN accounts' : accounts'[m] \in [by : Workers \cup {Free}, last : 1..clock]
  BY <1>5 DEF CachesInv, CachesTypes
<1> HIDE DEF cache
<1> QED BY <1>1, <1>2, <1>7, <1>8, <1>9, LeaveStep

-----------------------------------------------------------------------------
(* The theorems *)

LEMMA CachesStart == CachesInit => CachesInv
<1> SUFFICES ASSUME CachesInit PROVE CachesInv
  OBVIOUS
<1>1. CachesTypes
  BY CachesAssumption DEF CachesInit, CachesTypes, Empty
<1>2. \A w \in Workers : worker[w].pc = "idle"
  BY DEF CachesInit
<1>3. "idle" \notin Held
  BY DEF Held
<1>4. AccountsHeld /\ BlocksHeld
  BY <1>2, <1>3 DEF CachesInit, AccountsHeld, BlocksHeld, Empty
<1>5. OpenFiles = {}
  BY DEF CachesInit, Empty, OpenFiles, OpenIn
<1>6. HandlersExact
  BY <1>5, FS_EmptySet DEF CachesInit, HandlersExact, OpenFiles
<1> QED BY <1>1, <1>4, <1>6 DEF CachesInv

LEMMA WorkerStepTouches ==
  ASSUME CachesInv, NEW w \in Workers, WorkerStep(w)
  PROVE  (\E n \in Numbers : Touches(w, n)) /\ Ordered
<1>1. CASE DeleteAccount(w)
  BY <1>1, DeleteAccountStep
<1>2. CASE ~DeleteAccount(w)
  <2>1. (\E n \in Numbers : Touches(w, n)) /\ DOMAIN accounts \subseteq DOMAIN accounts'
    BY <1>2, FindAccountStep, FindBlockStep, AddAndLockStep, UseBlockStep, ReleaseAccountStep, DeleteBlockStep
       DEF WorkerStep
  <2>2. Ordered
    BY <2>1 DEF Ordered, Unlocked
  <2> QED BY <2>1, <2>2
<1> QED BY <1>1, <1>2

LEMMA ClockStep == CachesInv /\ ClockTick => CachesInv'
<1> SUFFICES ASSUME CachesInv, ClockTick PROVE CachesInv'
  OBVIOUS
<1>1. CachesTypes'
  <2>1. \A n \in DOMAIN accounts' : accounts'[n] \in [by : Workers \cup {Free}, last : 1..clock']
    <3> TAKE n \in DOMAIN accounts'
    <3>1. accounts[n] \in [by : Workers \cup {Free}, last : 1..clock] /\ accounts' = accounts
      BY DEF ClockTick, CachesInv, CachesTypes
    <3>2. 1..clock \subseteq 1..clock'
      BY CachesAssumption DEF ClockTick, CachesInv, CachesTypes
    <3> QED BY <3>1, <3>2
  <2>2. clock' \in 1..MaxClock
    BY CachesAssumption DEF ClockTick, CachesInv, CachesTypes
  <2> QED BY <2>1, <2>2 DEF ClockTick, CachesInv, CachesTypes
<1>2. AccountsHeld' /\ BlocksHeld'
  BY DEF ClockTick, CachesInv, AccountsHeld, BlocksHeld, Num
<1>3. HandlersExact'
  BY SameOpen DEF ClockTick, OpenFiles
<1> QED BY <1>1, <1>2, <1>3 DEF CachesInv

LEMMA StutterStep == CachesInv /\ UNCHANGED cachesVars => CachesInv'
<1> SUFFICES ASSUME CachesInv, UNCHANGED cachesVars PROVE CachesInv'
  OBVIOUS
<1>1. CachesTypes' /\ AccountsHeld' /\ BlocksHeld'
  BY DEF cachesVars, CachesInv, CachesTypes, AccountsHeld, BlocksHeld, Num
<1>2. HandlersExact'
  BY SameOpen DEF cachesVars, OpenFiles
<1> QED BY <1>1, <1>2 DEF CachesInv

LEMMA CachesInvariant == CachesSpec => []CachesInv
<1>1. CachesInv /\ [CachesNext]_cachesVars => CachesInv'
  BY WorkerStepTouches, ClockStep, StutterStep DEF CachesNext, Touches
<1> QED BY <1>1, CachesStart, PTL DEF CachesSpec

\* CMsgBlock::g_nTotalOpenHandlers is the number of files that are open, for any workers that
\* open, close and delete blocks, and any choice of what ReleaseHandles closes.
THEOREM HandlersNeverDrift == CachesSpec => []HandlersExact
<1>1. CachesInv => HandlersExact
  BY DEF CachesInv
<1> QED BY <1>1, CachesInvariant, PTL

\* The caches have their types, and a worker that has a number has its account.
THEOREM CachesTypeCorrect == CachesSpec => []CachesTypeOK
<1>1. ASSUME CachesInv PROVE CachesTypeOK
  <2>1. OpenFiles \in SUBSET Numbers
    BY <1>1 DEF OpenFiles, OpenIn, CachesInv, CachesTypes
  <2>2. Cardinality(OpenFiles) \in Nat /\ Cardinality(OpenFiles) <= Cardinality(Numbers)
        /\ Cardinality(Numbers) \in Nat
    BY <2>1, CachesAssumption, FS_Subset, FS_CardinalityType
  <2> QED BY <1>1, <2>2 DEF CachesInv, CachesTypes, AccountsHeld, HandlersExact, OpenFiles, CachesTypeOK
<1> QED BY <1>1, CachesInvariant, PTL

\* What a worker has locked stays in the caches as it is until this worker goes on: what other
\* calls add, delete, release and close passes it by.
THEOREM LockedIsLeftAlone == CachesSpec => LockedStays
<1> DEFINE Stays(n, w) ==
      worker'[w] = worker[w] =>
        /\ n \in DOMAIN accounts /\ accounts[n].by = w =>
             n \in DOMAIN accounts' /\ accounts'[n] = accounts[n]
        /\ n \in DOMAIN blocks /\ blocks[n].by = w =>
             n \in DOMAIN blocks' /\ blocks'[n] = blocks[n]
<1>1. ASSUME CachesInv, [CachesNext]_cachesVars, NEW n \in Numbers, NEW w \in Workers
      PROVE  Stays(n, w)
  <2>1. CASE ClockTick \/ UNCHANGED cachesVars
    BY <2>1 DEF ClockTick, cachesVars
  <2>2. ASSUME NEW v \in Workers, WorkerStep(v)
        PROVE  Stays(n, w)
    <3>1. PICK m \in Numbers : Touches(v, m)
      BY <1>1, <2>2, WorkerStepTouches
    <3>2. SUFFICES ASSUME worker'[w] = worker[w] PROVE Stays(n, w)
      OBVIOUS
    <3>3. w # v
      BY <3>1, <3>2 DEF Touches
    <3>4. n \in DOMAIN accounts /\ accounts[n].by = w => n # m
      BY <1>1, <3>1, <3>3 DEF Touches, OnlyAt, CachesInv, AccountsHeld
    <3>5. n \in DOMAIN blocks /\ blocks[n].by = w => n # m
      BY <1>1, <3>1, <3>3 DEF Touches, OnlyAt, CachesInv, BlocksHeld, Held
    <3>6. w # Free
      BY CachesAssumption
    <3> QED BY <3>1, <3>4, <3>5, <3>6 DEF Touches, OtherAccountsKept, OtherBlocksKept
  <2> QED BY <1>1, <2>1, <2>2 DEF CachesNext
<1>2. CachesInv /\ [CachesNext]_cachesVars =>
        [\A n \in Numbers, w \in Workers : Stays(n, w)]_cachesVars
  BY <1>1
<1> QED BY <1>2, CachesInvariant, PTL DEF CachesSpec, LockedStays

\* CAccountCache::Release drops, with any deletion, the accounts used longest ago.
THEOREM OldAccountsFirst == CachesSpec => OldAccountsGoFirst
<1>1. ASSUME CachesInv, [CachesNext]_cachesVars
      PROVE  Ordered
  <2>1. CASE ClockTick \/ UNCHANGED cachesVars
    BY <2>1 DEF ClockTick, cachesVars, Ordered, Unlocked
  <2> QED BY <1>1, <2>1, WorkerStepTouches DEF CachesNext
<1>2. CachesInv /\ [CachesNext]_cachesVars => [Ordered]_cachesVars
  BY <1>1
<1> QED BY <1>2, CachesInvariant, PTL DEF CachesSpec, OldAccountsGoFirst, Ordered

-----------------------------------------------------------------------------
(***************************************************************************)
(* CoderPool: a coder works for one call at a time, with the current       *)
(* password.                                                               *)
(***************************************************************************)

PoolInv == PoolTypeOK /\ OneHolder /\ LockIsHeld /\ KeyIsCurrent

USE PoolAssumption DEF NoCoder, Coder

\* The elements of a sequence, and a sequence of which one element is replaced.
LEMMA Elements ==
  ASSUME NEW S, NEW q \in Seq(S), NEW i \in 1..Len(q)
  PROVE  /\ q[i] \in S
         /\ \A e \in S : [q EXCEPT ![i] = e] \in Seq(S)
  OBVIOUS

\* An item stays an item when its flag changes.
LEMMA FlagChange ==
  ASSUME NEW x \in PoolItem, NEW b \in BOOLEAN
  PROVE  [x EXCEPT !.locked = b] \in PoolItem
  BY DEF PoolItem

LEMMA PoolStarts == PoolInit => PoolInv
  <1> SUFFICES ASSUME PoolInit PROVE PoolInv OBVIOUS
  <1>1. PoolTypeOK BY DEF PoolInit, PoolTypeOK
  <1>2. OneHolder BY DEF PoolInit, OneHolder
  <1>3. LockIsHeld BY DEF PoolInit, LockIsHeld
  <1>4. KeyIsCurrent BY DEF PoolInit, KeyIsCurrent, Holding
  <1> QED BY <1>1, <1>2, <1>3, <1>4 DEF PoolInv

\* A thread that takes the free place i: nobody else holds it, because it is free.
LEMMA GetFreeStep ==
  ASSUME PoolInv, NEW t \in Threads, Get(t), GetFree(t)
  PROVE  PoolInv'
  <1>1. PICK i \in FreeItems :
          /\ m_vCoders' = [m_vCoders EXCEPT ![i].locked = TRUE]
          /\ holds' = [holds EXCEPT ![t] = [place |-> i, key |-> m_vCoders[i].key]]
    BY DEF GetFree, LockedByGet
  <1>2. /\ i \in 1..Len(m_vCoders) /\ ~m_vCoders[i].locked
        /\ m_vCoders[i].key = m_strPsw
    BY DEF FreeItems, PoolInv, KeyIsCurrent
  <1>3. \A u \in Threads : holds[u].place # i BY <1>2 DEF PoolInv, LockIsHeld
  <1>4. Len(m_vCoders') = Len(m_vCoders) BY <1>1 DEF PoolInv, PoolTypeOK
  <1>6. m_vCoders[i] \in PoolItem BY <1>2, Elements DEF PoolInv, PoolTypeOK
  <1>7. m_vCoders[i].key \in Passwords BY <1>6 DEF PoolItem
  <1>8. i \in Nat /\ i <= Len(m_vCoders) BY <1>2 DEF PoolInv, PoolTypeOK
  <1>9. m_vCoders' \in Seq(PoolItem)
    <2>1. [m_vCoders[i] EXCEPT !.locked = TRUE] \in PoolItem
      BY <1>6, FlagChange
    <2> QED BY <1>1, <1>2, <2>1, Elements DEF PoolInv, PoolTypeOK
  <1>10. holds' \in [Threads -> Coder \cup {NoCoder}]
    BY <1>1, <1>7, <1>8 DEF PoolInv, PoolTypeOK
  <1>11. \A u \in Threads : holds'[u].place = IF u = t THEN i ELSE holds[u].place
    <2>1. DOMAIN holds = Threads BY DEF PoolInv, PoolTypeOK
    <2> QED BY <1>1, <2>1
  <1>12. PoolTypeOK'
    BY <1>4, <1>8, <1>9, <1>10, <1>11 DEF Get, PoolInv, PoolTypeOK
  <1>13. OneHolder' BY <1>3, <1>11 DEF PoolInv, OneHolder
  <1>14. LockIsHeld'
    <2> SUFFICES ASSUME NEW j \in 1..Len(m_vCoders)
                 PROVE  m_vCoders'[j].locked <=> \E u \in Threads : holds'[u].place = j
      BY <1>4 DEF LockIsHeld
    <2>1. CASE j = i
      <3>1. m_vCoders'[i] = [m_vCoders[i] EXCEPT !.locked = TRUE]
        <4>1. i \in DOMAIN m_vCoders BY <1>2 DEF PoolInv, PoolTypeOK
        <4> QED BY <1>1, <4>1
      <3>2. m_vCoders'[i].locked BY <1>6, <3>1 DEF PoolItem
      <3> QED BY <1>11, <2>1, <3>2
    <2>2. CASE j # i
      <3>1. m_vCoders'[j] = m_vCoders[j] BY <1>1, <2>2 DEF PoolInv, PoolTypeOK
      <3>2. j # 0 BY <1>2
      <3>3. holds[t].place # j BY <3>2 DEF Get
      <3> QED BY <1>11, <2>2, <3>1, <3>3 DEF PoolInv, LockIsHeld
    <2> QED BY <2>1, <2>2
  <1>15. \A j \in 1..Len(m_vCoders) : m_vCoders'[j].key = m_vCoders[j].key
    BY <1>1, <1>8 DEF PoolInv, PoolTypeOK
  <1>16. ASSUME NEW u \in Threads, holds'[u] # NoCoder PROVE holds'[u].key = m_strPsw
    <2>1. CASE u = t
      <3>1. holds'[u] = [place |-> i, key |-> m_vCoders[i].key]
        BY <1>1, <2>1 DEF PoolInv, PoolTypeOK
      <3> QED BY <1>2, <3>1
    <2>2. CASE u # t
      <3>1. holds'[u] = holds[u] BY <1>1, <2>2 DEF PoolInv, PoolTypeOK
      <3> QED BY <1>16, <3>1 DEF PoolInv, KeyIsCurrent, Holding
    <2> QED BY <2>1, <2>2
  <1>17. KeyIsCurrent'
    <2>1. m_strPsw' = m_strPsw BY DEF Get
    <2>2. \A j \in 1..Len(m_vCoders) : m_vCoders'[j].key = m_strPsw
      BY <1>15 DEF PoolInv, KeyIsCurrent
    <2> QED BY <1>4, <1>16, <2>1, <2>2 DEF KeyIsCurrent, Holding
  <1> QED BY <1>12, <1>13, <1>14, <1>17 DEF PoolInv

\* A new coder: its place, if it has one, is beyond those the others hold.
LEMMA GetNewStep ==
  ASSUME PoolInv, NEW t \in Threads, Get(t), GetNew(t)
  PROVE  PoolInv'
  <1>2. m_strPsw \in Passwords BY DEF Get, HasPassword, PoolInv, PoolTypeOK
  <1>3. holds[t] = NoCoder BY DEF Get
  <1>4. CASE HasRoom
    <2> DEFINE n == Len(m_vCoders) + 1
    <2>1. /\ m_vCoders' = Append(m_vCoders, [locked |-> TRUE, key |-> m_strPsw])
          /\ holds' = [holds EXCEPT ![t] = [place |-> n, key |-> m_strPsw]]
      BY <1>4 DEF GetNew, LockedByGet
    <2>2. Len(m_vCoders') = n /\ n \in Nat /\ n # 0 BY <2>1 DEF PoolInv, PoolTypeOK
    <2>3. \A j \in 1..Len(m_vCoders) : m_vCoders'[j] = m_vCoders[j]
      BY <2>1 DEF PoolInv, PoolTypeOK
    <2>4. m_vCoders'[n] = [locked |-> TRUE, key |-> m_strPsw]
      BY <2>1 DEF PoolInv, PoolTypeOK
    <2>5. \A u \in Threads : holds[u].place \in Nat /\ holds[u].place < n
      BY DEF PoolInv, PoolTypeOK
    <2>6. m_vCoders' \in Seq(PoolItem)
      <3>1. [locked |-> TRUE, key |-> m_strPsw] \in PoolItem BY <1>2 DEF PoolItem
      <3> QED BY <2>1, <3>1 DEF PoolInv, PoolTypeOK
    <2>7. holds' \in [Threads -> Coder \cup {NoCoder}]
      BY <1>2, <2>1, <2>2 DEF PoolInv, PoolTypeOK
    <2>8. \A u \in Threads : holds'[u].place <= n BY <2>1, <2>2, <2>5 DEF PoolInv, PoolTypeOK
    <2>9. PoolTypeOK' BY <2>2, <2>6, <2>7, <2>8 DEF Get, PoolInv, PoolTypeOK
    <2>10. OneHolder' BY <2>1, <2>5 DEF PoolInv, PoolTypeOK, OneHolder
    <2>11. LockIsHeld'
      <3> SUFFICES ASSUME NEW j \in 1..n
                   PROVE  m_vCoders'[j].locked <=> \E u \in Threads : holds'[u].place = j
        BY <2>2 DEF LockIsHeld
      <3>1. CASE j = n BY <2>1, <2>4, <3>1 DEF PoolInv, PoolTypeOK
      <3>2. CASE j # n
        <4>1. j \in 1..Len(m_vCoders) BY <3>2 DEF PoolInv, PoolTypeOK
        <4>2. m_vCoders[j].locked <=> \E u \in Threads : holds[u].place = j
          BY <4>1 DEF PoolInv, LockIsHeld
        <4>3. j # 0 BY <4>1
        <4>4. \A u \in Threads : holds'[u].place = j <=> holds[u].place = j
          BY <1>3, <2>1, <3>2, <4>3 DEF PoolInv, PoolTypeOK
        <4> QED BY <2>3, <4>1, <4>2, <4>4
      <3> QED BY <3>1, <3>2
    <2>12. KeyIsCurrent'
      <3>1. m_strPsw' = m_strPsw BY DEF Get
      <3>2. ASSUME NEW j \in 1..Len(m_vCoders') PROVE m_vCoders'[j].key = m_strPsw
        <4>1. CASE j = n BY <2>4, <4>1
        <4>2. CASE j # n
          <5>1. j \in 1..Len(m_vCoders) BY <2>2, <4>2 DEF PoolInv, PoolTypeOK
          <5> QED BY <2>3, <5>1 DEF PoolInv, KeyIsCurrent
        <4> QED BY <4>1, <4>2
      <3>3. ASSUME NEW u \in Threads, holds'[u] # NoCoder PROVE holds'[u].key = m_strPsw
        BY <2>1, <3>3 DEF PoolInv, PoolTypeOK, KeyIsCurrent, Holding
      <3> QED BY <3>1, <3>2, <3>3 DEF KeyIsCurrent, Holding
    <2> QED BY <2>9, <2>10, <2>11, <2>12 DEF PoolInv
  <1>5. CASE ~HasRoom
    <2>1. /\ m_vCoders' = m_vCoders
          /\ holds' = [holds EXCEPT ![t] = [place |-> 0, key |-> m_strPsw]]
      BY <1>5 DEF GetNew
    <2>2. PoolTypeOK' BY <1>2, <2>1 DEF Get, PoolInv, PoolTypeOK
    <2>3. OneHolder' BY <2>1 DEF PoolInv, PoolTypeOK, OneHolder
    <2>4. LockIsHeld' BY <1>3, <2>1 DEF PoolInv, PoolTypeOK, LockIsHeld
    <2>5. KeyIsCurrent' BY <2>1 DEF Get, PoolInv, PoolTypeOK, KeyIsCurrent, Holding
    <2> QED BY <2>2, <2>3, <2>4, <2>5 DEF PoolInv
  <1> QED BY <1>4, <1>5

\* The place that comes back was held by this thread alone.
LEMMA ReleaseStep ==
  ASSUME PoolInv, NEW t \in Threads, ReleaseItem(t)
  PROVE  PoolInv'
  <1> DEFINE i == holds[t].place
  <1>1. holds' = [holds EXCEPT ![t] = NoCoder] BY DEF ReleaseItem
  <1>2. m_vCoders' = IF i = 0 THEN m_vCoders ELSE [m_vCoders EXCEPT ![i].locked = FALSE]
    BY DEF ReleaseItem, LockedAfterRelease
  <1>3. i \in Nat /\ i <= Len(m_vCoders) BY DEF PoolInv, PoolTypeOK
  <1>4. Len(m_vCoders') = Len(m_vCoders) BY <1>2, <1>3 DEF PoolInv, PoolTypeOK
  <1>5. m_vCoders' \in Seq(PoolItem)
    <2>1. CASE i = 0 BY <1>2, <2>1 DEF PoolInv, PoolTypeOK
    <2>2. CASE i # 0
      <3>1. i \in 1..Len(m_vCoders) BY <1>3, <2>2 DEF PoolInv, PoolTypeOK
      <3>2. [m_vCoders[i] EXCEPT !.locked = FALSE] \in PoolItem
        BY <3>1, Elements, FlagChange DEF PoolInv, PoolTypeOK
      <3> QED BY <1>2, <2>2, <3>1, <3>2, Elements DEF PoolInv, PoolTypeOK
    <2> QED BY <2>1, <2>2
  <1>6. holds' \in [Threads -> Coder \cup {NoCoder}] BY <1>1 DEF PoolInv, PoolTypeOK
  <1>7. \A u \in Threads : holds'[u].place <= Len(m_vCoders')
    BY <1>1, <1>4 DEF PoolInv, PoolTypeOK
  <1>8. PoolTypeOK' BY <1>5, <1>6, <1>7 DEF ReleaseItem, PoolInv, PoolTypeOK
  <1>9. OneHolder' BY <1>1 DEF PoolInv, PoolTypeOK, OneHolder
  <1>10. LockIsHeld' BY <1>1, <1>2, <1>3, <1>4 DEF PoolInv, PoolTypeOK, OneHolder, LockIsHeld
  <1>11. KeyIsCurrent'
    BY <1>1, <1>2, <1>3, <1>4 DEF ReleaseItem, PoolInv, PoolTypeOK, KeyIsCurrent, Holding
  <1> QED BY <1>8, <1>9, <1>10, <1>11 DEF PoolInv

LEMMA SetStep ==
  ASSUME PoolInv, NEW psw \in Passwords, Set(psw)
  PROVE  PoolInv'
  <1>1. \A t \in Threads : holds'[t] = NoCoder BY DEF Set, Holding
  <1>2. m_vCoders' = <<>> BY DEF Set, Clear
  <1>3. PoolTypeOK' BY <1>1, <1>2 DEF Set, PoolInv, PoolTypeOK
  <1>4. OneHolder' BY <1>1 DEF OneHolder
  <1>5. LockIsHeld' BY <1>2 DEF LockIsHeld
  <1>6. KeyIsCurrent' BY <1>1, <1>2 DEF KeyIsCurrent, Holding
  <1> QED BY <1>3, <1>4, <1>5, <1>6 DEF PoolInv

LEMMA PoolStep == PoolInv /\ [PoolNext]_poolVars => PoolInv'
  <1> SUFFICES ASSUME PoolInv, [PoolNext]_poolVars PROVE PoolInv' OBVIOUS
  <1>1. ASSUME NEW t \in Threads, Get(t) PROVE PoolInv'
    BY <1>1, GetFreeStep, GetNewStep DEF Get
  <1>2. ASSUME NEW t \in Threads, ReleaseItem(t) PROVE PoolInv' BY <1>2, ReleaseStep
  <1>3. ASSUME NEW psw \in Passwords, Set(psw) PROVE PoolInv' BY <1>3, SetStep
  <1>4. CASE UNCHANGED poolVars
    BY <1>4 DEF poolVars, PoolInv, PoolTypeOK, OneHolder, LockIsHeld, KeyIsCurrent, Holding
  <1> QED BY <1>1, <1>2, <1>3, <1>4 DEF PoolNext

\* The whole invariant of the pool.
THEOREM PoolCorrect == PoolSpec => []PoolInv
  <1> QED BY PoolStarts, PoolStep, PTL DEF PoolSpec

\* Two threads never hold the same coder, and the flags of the items say who is in use.
THEOREM CodersNotLost == PoolSpec => []CodersExact
  <1>1. PoolInv => CodersExact BY DEF PoolInv, CodersExact
  <1> QED BY <1>1, PoolCorrect, PTL

\* No coder of an old password is left after a login.
THEOREM KeysCurrent == PoolSpec => []KeyIsCurrent
  <1>1. PoolInv => KeyIsCurrent BY DEF PoolInv
  <1> QED BY <1>1, PoolCorrect, PTL

=============================================================================
