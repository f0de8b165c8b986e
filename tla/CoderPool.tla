------------------------------ MODULE CoderPool ------------------------------
(***************************************************************************)
(* The pool of AES coders that all calls of the storage share (Core/       *)
(* CoderAESPool.cpp).  Setting up a coder is expensive, so that a call     *)
(* borrows one and gives it back through its guard.  Get and Set run under *)
(* the mutex of the pool; ReleaseItem writes only the item of its holder.  *)
(*                                                                         *)
(* No call borrows a second coder while it has one, and Set is called by   *)
(* Login, when no other call is under way.                                 *)
(***************************************************************************)
EXTENDS Naturals, Sequences

CONSTANTS
  Threads,
  Passwords,
  CODER_AES_POLL_MAX,
  CODER_AES_POLL_MIN,
  NoPassword           \* no password, no coder

ASSUME PoolAssumption ==
  /\ CODER_AES_POLL_MAX \in Nat
  /\ CODER_AES_POLL_MIN \in Nat
  /\ NoPassword \notin Passwords

VARIABLES
  m_vCoders,  \* the items: m_bLocked, and the password of their coder
  m_nMaxSize,
  m_strPsw,
  holds       \* the item of each thread's CCoderPoolGuard: its place in m_vCoders, or
              \* 0 when m_bFreeOnRelease, and the password of its coder

poolVars == <<m_vCoders, m_nMaxSize, m_strPsw, holds>>

NoCoder == [place |-> 0, key |-> NoPassword]
Holding == {t \in Threads : holds[t] # NoCoder}

PoolInit ==
  /\ m_vCoders = <<>>
  /\ m_nMaxSize = CODER_AES_POLL_MAX
  /\ m_strPsw = NoPassword
  /\ holds = [t \in Threads |-> NoCoder]

-----------------------------------------------------------------------------
\* What the scan of Get finds.
FreeItems == {i \in 1..Len(m_vCoders) : ~m_vCoders[i].locked}

HasRoom == Len(m_vCoders) < m_nMaxSize

\* The flag of an item that is handed out, and of one that comes back.
LockedByGet_Not == FALSE
LockedByGet == TRUE
LockedAfterRelease_Still == TRUE
LockedAfterRelease == FALSE

\* The first free item.
GetFree(t) ==
  \E i \in FreeItems :
    /\ \A j \in FreeItems : i <= j
    /\ m_vCoders' = [m_vCoders EXCEPT ![i].locked = LockedByGet]
    /\ holds' = [holds EXCEPT ![t] = [place |-> i, key |-> m_vCoders[i].key]]

\* A new coder, kept when the pool has room, of this call only otherwise.
GetNew(t) ==
  /\ FreeItems = {}
  /\ \/ /\ HasRoom
        /\ m_vCoders' = Append(m_vCoders, [locked |-> LockedByGet, key |-> m_strPsw])
        /\ holds' = [holds EXCEPT ![t] = [place |-> Len(m_vCoders) + 1, key |-> m_strPsw]]
     \/ /\ ~HasRoom
        /\ holds' = [holds EXCEPT ![t] = [place |-> 0, key |-> m_strPsw]]
        /\ UNCHANGED m_vCoders

HasPassword == m_strPsw # NoPassword

Get(t) ==
  /\ HasPassword
  /\ holds[t] = NoCoder
  /\ GetFree(t) \/ GetNew(t)
  /\ UNCHANGED <<m_nMaxSize, m_strPsw>>

\* The guard leaves its scope.
ReleaseItem(t) ==
  /\ holds[t] # NoCoder
  /\ m_vCoders' = IF holds[t].place = 0 THEN m_vCoders
                  ELSE [m_vCoders EXCEPT ![holds[t].place].locked = LockedAfterRelease]
  /\ holds' = [holds EXCEPT ![t] = NoCoder]
  /\ UNCHANGED <<m_nMaxSize, m_strPsw>>

IsSame(psw) == CODER_AES_POLL_MAX = m_nMaxSize /\ psw = m_strPsw

Clear_Nothing == m_vCoders
Clear == <<>>

Set(psw) ==
  /\ Holding = {}
  /\ ~IsSame(psw)
  /\ m_vCoders' = Clear
  /\ m_nMaxSize' = IF CODER_AES_POLL_MAX < CODER_AES_POLL_MIN THEN CODER_AES_POLL_MIN
                   ELSE CODER_AES_POLL_MAX
  /\ m_strPsw' = psw
  /\ UNCHANGED holds

PoolNext ==
  \/ \E t \in Threads : Get(t) \/ ReleaseItem(t)
  \/ \E psw \in Passwords : Set(psw)

PoolSpec == PoolInit /\ [][PoolNext]_poolVars

-----------------------------------------------------------------------------
(* Properties *)

PoolItem == [locked : BOOLEAN, key : Passwords]
Coder == [place : Nat, key : Passwords]

PoolTypeOK ==
  /\ m_vCoders \in Seq(PoolItem)
  /\ m_nMaxSize \in Nat
  /\ m_strPsw \in Passwords \cup {NoPassword}
  /\ holds \in [Threads -> Coder \cup {NoCoder}]
  /\ \A t \in Threads : holds[t].place <= Len(m_vCoders)

\* A coder works for one call at a time: two threads never hold the same item, although
\* the holder unlocks it without the mutex of the pool.
OneHolder ==
  \A t, u \in Threads :
    t # u /\ holds[t].place # 0 => holds[t].place # holds[u].place

\* The flag of an item says whether a thread holds it: no item is lost to the pool by a
\* call that ended, and none is free while it is in use.
LockIsHeld ==
  \A i \in 1..Len(m_vCoders) :
    m_vCoders[i].locked <=> \E t \in Threads : holds[t].place = i

\* Whatever the order in which calls take and return coders: none is shared and none is lost.
CodersExact == OneHolder /\ LockIsHeld

\* After a login with another password nobody gets a coder with the old one, be it new,
\* from the pool, or of one call only.
KeyIsCurrent ==
  /\ \A i \in 1..Len(m_vCoders) : m_vCoders[i].key = m_strPsw
  /\ \A t \in Holding : holds[t].key = m_strPsw
=============================================================================
