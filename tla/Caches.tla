------------------------------- MODULE Caches -------------------------------
(***************************************************************************)
(* What CAccountCache and CBlocksCache keep and what they drop: the limits *)
(* that Storage leaves open.  Accounts are dropped after many deletions,   *)
(* when there are m_nMaxItems; the handles of blocks are closed, or the    *)
(* blocks dropped, after many additions, when m_nMaxHandlesOpen are open.  *)
(*                                                                         *)
(* A worker has its number to itself (CAccountLocker), so Find never waits.*)
(* How much memory the blocks use is left open.                            *)
(***************************************************************************)
EXTENDS Integers, FiniteSets

CONSTANTS
  Workers, Numbers,
  m_nMaxItems,                \* of CAccountCache
  m_nMaxHandlesOpen,          \* of CBlocksCache
  g_nMaxAddedToCheckHandles,
  MaxClock,                   \* bound: the clock
  Free                        \* the item is not locked

ASSUME CachesAssumption ==
  /\ Free \notin Workers
  /\ IsFiniteSet(Numbers)
  /\ m_nMaxItems \in Nat /\ g_nMaxAddedToCheckHandles \in Nat
  /\ MaxClock \in Nat \ {0}

VARIABLES
  clock,       \* time(0)
  accounts,    \* m_mAccounts: number -> by, last (m_LastAccess)
  blocks,      \* m_mItems: number -> by, open (its file)
  m_nDeleted,  \* accounts deleted since Release was last called
  m_nAdded,    \* blocks added since ReleaseHandles was last called
  handlers,    \* CMsgBlock::g_nTotalOpenHandlers
  worker       \* pc and number

cachesVars == <<clock, accounts, blocks, m_nDeleted, m_nAdded, handlers, worker>>

NoNumber == "none"
Empty == [n \in {} |-> NoNumber]
Remove(f, S) == [n \in DOMAIN f \ S |-> f[n]]
With(f, n, v) == [m \in DOMAIN f \cup {n} |-> IF m = n THEN v ELSE f[m]]

Unlocked_All(cache) == DOMAIN cache
Unlocked(cache) == {n \in DOMAIN cache : cache[n].by = Free}
OpenIn(cache, S) == {n \in S : cache[n].open}
Smaller(a, b) == IF a < b THEN a ELSE b

CachesInit ==
  /\ clock = 1
  /\ accounts = Empty
  /\ blocks = Empty
  /\ m_nDeleted = 0
  /\ m_nAdded = 0
  /\ handlers = 0
  /\ worker = [w \in Workers |-> [pc |-> "idle", num |-> NoNumber]]

Goto(w, pc) == worker' = [worker EXCEPT ![w].pc = pc]
Num(w) == worker[w].num

-----------------------------------------------------------------------------
(* What is dropped *)

\* CompareItems.
IsBefore_Newest(a, b) == a.last >= b.last
IsBefore(a, b) == a.last <= b.last

\* The first k of the candidates, sorted by CompareItems (items of one age in any order).
First(cache, candidates, k) ==
  {S \in SUBSET candidates :
     /\ Cardinality(S) = Smaller(k, Cardinality(candidates))
     /\ \A n \in S, m \in candidates \ S : IsBefore(cache[n], cache[m])}

\* CAccountCache::Release, for the cache after the deletion: a third of it.
Release(cache) ==
  LET size == Cardinality(DOMAIN cache)
  IN  IF size < m_nMaxItems THEN {{}} ELSE First(cache, Unlocked(cache), size \div 3)

\* CMsgBlock::CloseHandler.
Closed(cache, S) ==
  [n \in DOMAIN cache |-> IF n \in S THEN [cache[n] EXCEPT !.open = FALSE] ELSE cache[n]]

\* Each of the blocks takes its handle with it.
HandlersAfter_Kept(S) == handlers
HandlersAfter(S) == handlers - Cardinality(S)

\* Half of the handles are closed or, when memory is short, their blocks dropped.  Which
\* ones is open: the loop that collects the candidates calls GetBlock on every unlocked
\* item, which sets its m_LastAccess, and so they are all of one age when they are sorted.
HalfOf(n) == n \div 2
Victims(cache) ==
  LET candidates == OpenIn(cache, Unlocked(cache))
  IN  {S \in SUBSET candidates :
         Cardinality(S) = Smaller(HalfOf(handlers), Cardinality(candidates))}

\* A new item, locked by its worker, its file not open.
WithNew(cache, w) == With(cache, Num(w), [by |-> w, open |-> FALSE])

\* ReleaseHandles, then the new item.
ReleaseHandles(w) ==
  \/ /\ handlers < m_nMaxHandlesOpen
     /\ blocks' = WithNew(blocks, w)
     /\ UNCHANGED handlers
  \/ /\ handlers >= m_nMaxHandlesOpen
     /\ \E S \in Victims(blocks), memoryIsShort \in BOOLEAN :
          /\ blocks' = WithNew(IF memoryIsShort THEN Remove(blocks, S) ELSE Closed(blocks, S), w)
          /\ handlers' = HandlersAfter(S)

-----------------------------------------------------------------------------
(* The calls *)

\* A call on a number that no other works on finds its account, or adds it.
FindAccount(w) ==
  /\ worker[w].pc = "idle"
  /\ \E n \in Numbers \ {Num(v) : v \in Workers} :
       /\ accounts' = With(accounts, n, [by |-> w, last |-> clock])
       /\ worker' = [worker EXCEPT ![w] = [pc |-> "account", num |-> n]]
  /\ UNCHANGED <<clock, blocks, m_nDeleted, m_nAdded, handlers>>

FindBlock(w) ==
  /\ worker[w].pc = "account"
  /\ Num(w) \in DOMAIN blocks
  /\ blocks' = [blocks EXCEPT ![Num(w)].by = w]
  /\ Goto(w, "block")
  /\ UNCHANGED <<clock, accounts, m_nDeleted, m_nAdded, handlers>>

AddAndLock(w) ==
  /\ worker[w].pc = "account"
  /\ Num(w) \notin DOMAIN blocks
  /\ \/ /\ m_nAdded + 1 > g_nMaxAddedToCheckHandles
        /\ m_nAdded' = 0
        /\ ReleaseHandles(w)
     \/ /\ m_nAdded + 1 <= g_nMaxAddedToCheckHandles
        /\ m_nAdded' = m_nAdded + 1
        /\ blocks' = WithNew(blocks, w)
        /\ UNCHANGED handlers
  /\ Goto(w, "block")
  /\ UNCHANGED <<clock, accounts, m_nDeleted>>

\* The block opens its file when it needs it; then the guard releases the item.
UseBlock(w) ==
  /\ worker[w].pc = "block"
  /\ blocks' = [blocks EXCEPT ![Num(w)] = [by |-> Free, open |-> TRUE]]
  /\ handlers' = IF blocks[Num(w)].open THEN handlers ELSE handlers + 1
  /\ Goto(w, "account")
  /\ UNCHANGED <<clock, accounts, m_nDeleted, m_nAdded>>

ReleaseAccount(w) ==
  /\ worker[w].pc = "account"
  /\ accounts' = [accounts EXCEPT ![Num(w)].by = Free]
  /\ worker' = [worker EXCEPT ![w] = [pc |-> "idle", num |-> NoNumber]]
  /\ UNCHANGED <<clock, blocks, m_nDeleted, m_nAdded, handlers>>

\* DeleteNumber: the block goes with its handle, then the account.
DeleteBlock(w) ==
  LET gone == {Num(w)} \cap DOMAIN blocks
  IN  /\ worker[w].pc = "account"
      /\ blocks' = Remove(blocks, gone)
      /\ handlers' = HandlersAfter(OpenIn(blocks, gone))
      /\ Goto(w, "delete")
      /\ UNCHANGED <<clock, accounts, m_nDeleted, m_nAdded>>

DeleteAccount(w) ==
  LET cache == Remove(accounts, {Num(w)})
  IN  /\ worker[w].pc = "delete"
      /\ \/ /\ m_nDeleted + 1 >= m_nMaxItems \div 2
            /\ m_nDeleted' = 0
            /\ \E S \in Release(cache) : accounts' = Remove(cache, S)
         \/ /\ m_nDeleted + 1 < m_nMaxItems \div 2
            /\ m_nDeleted' = m_nDeleted + 1
            /\ accounts' = cache
      /\ worker' = [worker EXCEPT ![w] = [pc |-> "idle", num |-> NoNumber]]
      /\ UNCHANGED <<clock, blocks, m_nAdded, handlers>>

ClockTick ==
  /\ clock < MaxClock
  /\ clock' = clock + 1
  /\ UNCHANGED <<accounts, blocks, m_nDeleted, m_nAdded, handlers, worker>>

WorkerStep(w) ==
  \/ FindAccount(w) \/ FindBlock(w) \/ AddAndLock(w) \/ UseBlock(w)
  \/ ReleaseAccount(w) \/ DeleteBlock(w) \/ DeleteAccount(w)

CachesNext == ClockTick \/ \E w \in Workers : WorkerStep(w)

CachesSpec == CachesInit /\ [][CachesNext]_cachesVars

-----------------------------------------------------------------------------
(* Properties *)

Held == {"account", "block", "delete"}

CachesTypeOK ==
  /\ clock \in 1..MaxClock
  /\ DOMAIN accounts \subseteq Numbers
  /\ \A n \in DOMAIN accounts :
       accounts[n] \in [by : Workers \cup {Free}, last : 1..clock]
  /\ DOMAIN blocks \subseteq Numbers
  /\ \A n \in DOMAIN blocks :
       blocks[n] \in [by : Workers \cup {Free}, open : BOOLEAN]
  /\ m_nDeleted \in 0..m_nMaxItems
  /\ m_nAdded \in 0..g_nMaxAddedToCheckHandles
  /\ handlers \in 0..Cardinality(Numbers)
  /\ \A w \in Workers : worker[w].pc \in Held => Num(w) \in DOMAIN accounts

\* g_nTotalOpenHandlers, which the blocks change one by one from several threads, is
\* the number of files that are open: it neither drifts nor goes below 0.
HandlersExact == handlers = Cardinality(OpenIn(blocks, DOMAIN blocks))

\* What a worker has locked stays in the cache as it is, whatever the other workers
\* add and delete, until the worker itself goes on.
LockedStays ==
  [][\A n \in Numbers, w \in Workers :
       worker'[w] = worker[w] =>
         /\ n \in DOMAIN accounts /\ accounts[n].by = w =>
              n \in DOMAIN accounts' /\ accounts'[n] = accounts[n]
         /\ n \in DOMAIN blocks /\ blocks[n].by = w =>
              n \in DOMAIN blocks' /\ blocks'[n] = blocks[n]]_cachesVars

\* The accounts that are dropped with a deletion were not used later than any account
\* that stays, of those that nobody uses.
OldAccountsGoFirst ==
  [][\A gone \in Unlocked(accounts) \ DOMAIN accounts', n \in Unlocked(accounts) :
       n \in DOMAIN accounts' => accounts[gone].last <= accounts[n].last]_cachesVars
=============================================================================
