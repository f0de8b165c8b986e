---------------------------- MODULE OpenConsCache ----------------------------
(***************************************************************************)
(* The cache of replies (zsd/src/OpenConsCache.cpp): for each client the   *)
(* state of its last call and, once there is one, its reply, for a client  *)
(* that asks for it a second time.  Every operation holds m_Mutex from its *)
(* start to its end and is one step; time(0) is the variable now.          *)
(***************************************************************************)
EXTENDS Integers

CONSTANTS
  NumClients, \* client ids are 1 to NumClients, in the order of the map (memcmp)
  Seqs,      \* sequence numbers; 0 is not one for the cache
  Replies,   \* what a call may return
  TTL,       \* m_nMaxLiveSec
  Start,     \* the time at which the daemon starts
  MaxTime    \* bound on the clock

ASSUME ClientsAssumption == NumClients \in Nat
ASSUME TimeAssumption == TTL \in Nat \ {0} /\ Start \in Nat /\ Start >= TTL /\ MaxTime \in Nat

VARIABLES
  items,          \* m_Map: client -> seq, status, last (m_nLastAccess), reply
  oldest,         \* m_pOldestItem: the client of the item it points to, 0 for null
  expiredCalled,  \* m_nExpiredCalled
  now

Clients == 1..NumClients

cacheVars == <<items, oldest, expiredCalled>>

None == <<>>
Item == [seq : Seqs, status : {"InProcessing", "Done"}, last : Nat, reply : Replies \cup {None}]

CacheInit ==
  /\ items = [c \in {} |-> None]
  /\ oldest = 0
  /\ expiredCalled = 0
  /\ now = Start

-----------------------------------------------------------------------------

\* The loop of FindOldestItem compares every item with time 0 and keeps the last
\* one it sees, in the order of the map.
FindOldestItem(m) ==
  IF DOMAIN m = {} THEN 0 ELSE CHOOSE c \in DOMAIN m : \A d \in DOMAIN m : d <= c

IsExpired_Early(item) == now - item.last + 1 >= TTL
IsExpired(item) == now - item.last >= TTL

OldestAfterRemove_Kept(m) == oldest
OldestAfterRemove(m) == FindOldestItem(m)

IsCallTooSoon_Twice == now - expiredCalled < 2 * TTL
IsCallTooSoon == now - expiredCalled < TTL

\* RemoveExpired on the map m, when the oldest item is that of o.
RemoveExpired(m, o) ==
  \/ /\ IsCallTooSoon
     /\ items' = m
     /\ oldest' = o
     /\ UNCHANGED expiredCalled
  \/ /\ ~IsCallTooSoon
     /\ expiredCalled' = now
     /\ LET kept == [c \in {d \in DOMAIN m : ~IsExpired(m[d])} |-> m[c]]
        IN  /\ items' = kept
            /\ oldest' = OldestAfterRemove(kept)

Put(c, item) == [d \in DOMAIN items \cup {c} |-> IF d = c THEN item ELSE items[d]]

\* m_pOldestItem after the item of c is written: a difference that a clock which
\* does not go back never lets exceed TTL / 2.
OldestAfterPut(c, m) ==
  IF c \notin DOMAIN items THEN (IF oldest = 0 THEN c ELSE oldest)
  ELSE IF oldest = c /\ items[c].last - now > TTL \div 2 THEN FindOldestItem(m)
  ELSE oldest

\* m_nLastAccess is the time of the call, not the time at which the item expires.
LastAfterPut == now

PutItem(c, s, status, reply) ==
  LET m == Put(c, [seq |-> s, status |-> status, last |-> LastAfterPut, reply |-> reply])
  IN  RemoveExpired(m, OldestAfterPut(c, m))

\* Add and Update write whatever is there; a sequence number 0 is ignored.
Add(c, s) ==
  \/ s = 0 /\ UNCHANGED cacheVars
  \/ s # 0 /\ PutItem(c, s, "InProcessing", None)

Update(c, s, reply) ==
  \/ s = 0 /\ UNCHANGED cacheVars
  \/ s # 0 /\ PutItem(c, s, "Done", reply)

Known(c, s) == c \in DOMAIN items /\ items[c].seq = s

\* What Find returns, the status and the reply.
NotFound == [status |-> "NotFound", reply |-> None]
FindResult_AnySeq(c, s) ==
  IF c \in DOMAIN items /\ ~IsExpired(items[c])
  THEN [status |-> items[c].status, reply |-> items[c].reply] ELSE NotFound
FindResult(c, s) ==
  IF Known(c, s) /\ ~IsExpired(items[c])
  THEN [status |-> items[c].status, reply |-> items[c].reply] ELSE NotFound

Find(c, s) ==
  \/ ~Known(c, s) /\ UNCHANGED cacheVars
  \/ Known(c, s) /\ IsExpired(items[c]) /\ RemoveExpired(items, oldest)
  \/ /\ Known(c, s) /\ ~IsExpired(items[c])
     /\ items' = [items EXCEPT ![c].last = now]
     /\ UNCHANGED <<oldest, expiredCalled>>

Tick ==
  /\ now < MaxTime
  /\ now' = now + 1
  /\ UNCHANGED cacheVars

Store(c, s) == Add(c, s) \/ \E reply \in Replies : Update(c, s, reply)

CacheNext ==
  \/ Tick
  \/ \E c \in Clients, s \in Seqs : (Store(c, s) \/ Find(c, s)) /\ UNCHANGED now

CacheSpec == CacheInit /\ [][CacheNext]_<<cacheVars, now>>

-----------------------------------------------------------------------------
(* Properties *)

\* The map and the two times have their types, and no time is in the future.
CacheTypeOK ==
  /\ DOMAIN items \subseteq Clients
  /\ items \in [DOMAIN items -> Item]
  /\ now \in Nat /\ expiredCalled \in 0..now
  /\ \A c \in DOMAIN items : items[c].last <= now
  /\ oldest \in Clients \cup {0}

\* m_pOldestItem never dangles: it is null, or points to an item of the map.
OldestInMap == oldest \in DOMAIN items \cup {0}

\* A reply that was stored or asked for less than TTL ago is not thrown away.
FreshIsKept ==
  [][\A c \in DOMAIN items : now - items[c].last < TTL => c \in DOMAIN items']_<<cacheVars, now>>

\* The map does not fill up with clients that are gone: once a call has stored
\* its state, no item is older than twice TTL.
OldIsGone ==
  [][(now' = now /\ \E c \in Clients, s \in Seqs \ {0} : Store(c, s))
     => \A c \in DOMAIN items' : now - items'[c].last < 2 * TTL]_<<cacheVars, now>>
=============================================================================
