---------------------------- MODULE Call_proofs -----------------------------
(***************************************************************************)
(* A call between Communication and UdpServer: the client takes an answer  *)
(* only for its own call, a call is not executed more often than it was    *)
(* sent, and what a client asks about is still kept; and the cache that    *)
(* keeps it, OpenConsCache. For any number of clients and workers, any TTL *)
(* and any sequence numbers.                                               *)
(***************************************************************************)
EXTENDS Call, FiniteSetTheorems, TLAPS

-----------------------------------------------------------------------------
(***************************************************************************)
(* OpenConsCache: the reply cache by itself.                               *)
(***************************************************************************)

\* Every nonempty set of clients has a last one in the order of the map.
LEMMA LastClient ==
  ASSUME NEW S \in SUBSET Clients, S # {}
  PROVE  \E c \in S : \A d \in S : d <= c
<1> DEFINE T == {n \in Nat : NumClients - n \in S}
           R == OpToRel(<, Nat)
<1>1. \A d \in S : d \in Nat /\ NumClients - d \in T
  <2> TAKE d \in S
  <2>1. d \in Nat /\ d <= NumClients /\ NumClients \in Nat
    BY ClientsAssumption DEF Clients
  <2>2. NumClients - d \in Nat /\ NumClients - (NumClients - d) = d
    BY <2>1
  <2> QED BY <2>1, <2>2
<1>2. T # {}
  BY <1>1
<1>3. IsWellFoundedOn(R, Nat)
  BY NatLessThanWellFounded
<1>4. T \subseteq Nat
  OBVIOUS
<1>5. PICK n \in T : \A m \in T : ~(<<m, n>> \in R)
  <2> HIDE DEF T, R
  <2> QED BY <1>2, <1>3, <1>4, WFMin
<1>6. \A m \in T : ~(m < n)
  BY <1>5 DEF OpToRel
<1>7. \A d \in S : d <= NumClients - n
  <2> TAKE d \in S
  <2>1. d \in Nat /\ NumClients - d \in T /\ NumClients \in Nat
    BY <1>1, ClientsAssumption
  <2>2. ~(NumClients - d < n) /\ n \in Nat
    BY <1>6, <2>1
  <2> QED BY <2>1, <2>2
<1> QED BY <1>5, <1>7

-----------------------------------------------------------------------------
(* The inductive invariant: no item is older than one cleaning and a TTL, so *)
(* that the next cleaning comes before any item reaches twice TTL.           *)

MapOK(m, time, expired) ==
  /\ DOMAIN m \subseteq Clients
  /\ m \in [DOMAIN m -> Item]
  /\ \A c \in DOMAIN m : m[c].last <= time /\ expired < m[c].last + TTL

CacheInv ==
  /\ now \in Nat /\ expiredCalled \in 0..now
  /\ MapOK(items, now, expiredCalled)
  /\ OldestInMap

LEMMA CacheInvGivesType == CacheInv => CacheTypeOK
BY DEF CacheInv, CacheTypeOK, MapOK, OldestInMap

\* FindOldestItem returns an item of the map, or null for an empty map.
LEMMA FindOldestInMap ==
  ASSUME NEW m, DOMAIN m \subseteq Clients
  PROVE  FindOldestItem(m) \in DOMAIN m \cup {0}
<1>1. CASE DOMAIN m = {}
  BY <1>1 DEF FindOldestItem
<1>2. CASE DOMAIN m # {}
  <2>1. \E c \in DOMAIN m : \A d \in DOMAIN m : d <= c
    BY <1>2, LastClient
  <2> QED BY <1>2, <2>1 DEF FindOldestItem
<1> QED BY <1>1, <1>2

\* RemoveExpired leaves a good cache, throws away nothing younger than TTL and
\* keeps nothing of age twice TTL.
LEMMA RemoveExpiredGood ==
  ASSUME NEW m, NEW o \in DOMAIN m \cup {0},
         now \in Nat, expiredCalled \in 0..now, MapOK(m, now, expiredCalled),
         RemoveExpired(m, o), now' = now
  PROVE  /\ CacheInv'
         /\ \A c \in DOMAIN m : now - m[c].last < TTL => c \in DOMAIN items'
         /\ \A c \in DOMAIN items' : now - items'[c].last < 2 * TTL
<1> USE TimeAssumption
<1>1. CASE IsCallTooSoon
  <2>1. items' = m /\ oldest' = o /\ expiredCalled' = expiredCalled
    BY <1>1 DEF RemoveExpired
  <2>2. \A c \in DOMAIN m : m[c].last \in Nat
    BY DEF MapOK, Item
  <2>3. \A c \in DOMAIN m : now - m[c].last < 2 * TTL
    BY <1>1, <2>2 DEF IsCallTooSoon, MapOK
  <2> QED BY <2>1, <2>3 DEF CacheInv, OldestInMap, MapOK
<1>2. CASE ~IsCallTooSoon
  <2> DEFINE kept == [c \in {d \in DOMAIN m : ~IsExpired(m[d])} |-> m[c]]
  <2>1. items' = kept /\ oldest' = FindOldestItem(kept) /\ expiredCalled' = now
    BY <1>2 DEF RemoveExpired, OldestAfterRemove
  <2>2. DOMAIN kept = {d \in DOMAIN m : ~IsExpired(m[d])}
    OBVIOUS
  <2>3. \A c \in DOMAIN m : m[c] \in Item /\ m[c].last \in Nat /\ m[c].last <= now
    BY DEF MapOK, Item
  <2>4. \A c \in DOMAIN kept : kept[c] = m[c] /\ now - m[c].last < TTL
    BY <2>2, <2>3 DEF IsExpired
  <2>5. DOMAIN kept \subseteq Clients
    BY <2>2 DEF MapOK
  <2>6. FindOldestItem(kept) \in DOMAIN kept \cup {0}
    BY <2>5, FindOldestInMap
  <2>7. \A c \in DOMAIN m : now - m[c].last < TTL => c \in DOMAIN kept
    BY <2>2, <2>3 DEF IsExpired
  <2>8. MapOK(kept, now, now)
    <3>1. \A c \in DOMAIN kept : kept[c] \in Item
      BY <2>2, <2>3
    <3>2. \A c \in DOMAIN kept : kept[c].last <= now /\ now < kept[c].last + TTL
      BY <2>2, <2>3, <2>4
    <3> QED BY <2>5, <3>1, <3>2 DEF MapOK
  <2>9. \A c \in DOMAIN kept : now - kept[c].last < 2 * TTL
    BY <2>2, <2>3, <2>4
  <2> HIDE DEF kept
  <2> QED BY <2>1, <2>6, <2>7, <2>8, <2>9 DEF CacheInv, OldestInMap
<1> QED BY <1>1, <1>2

\* Add and Update write an item of the present time, with or without a cleaning.
LEMMA PutItemGood ==
  ASSUME CacheInv, NEW c \in Clients, NEW s \in Seqs,
         NEW status \in {"InProcessing", "Done"}, NEW reply \in Replies \cup {None},
         PutItem(c, s, status, reply), now' = now
  PROVE  /\ CacheInv'
         /\ \A d \in DOMAIN items : now - items[d].last < TTL => d \in DOMAIN items'
         /\ \A d \in DOMAIN items' : now - items'[d].last < 2 * TTL
<1> DEFINE item == [seq |-> s, status |-> status, last |-> LastAfterPut, reply |-> reply]
           m == Put(c, item)
           o == OldestAfterPut(c, m)
<1> USE TimeAssumption
<1>1. RemoveExpired(m, o)
  BY DEF PutItem
<1>2. item \in Item /\ item.last = now
  BY DEF CacheInv, Item, LastAfterPut
<1>3. /\ DOMAIN m = DOMAIN items \cup {c}
      /\ m[c] = item
      /\ \A d \in DOMAIN items : d # c => m[d] = items[d]
      /\ m \in [DOMAIN m -> {m[d] : d \in DOMAIN m}]
  BY DEF Put
<1>4. MapOK(m, now, expiredCalled)
  <2>1. DOMAIN m \subseteq Clients
    BY <1>3 DEF CacheInv, MapOK
  <2>2. \A d \in DOMAIN items : items[d] \in Item
    BY DEF CacheInv, MapOK
  <2>3. \A d \in DOMAIN m : m[d] \in Item
    BY <1>2, <1>3, <2>2
  <2>4. m \in [DOMAIN m -> Item]
    BY <1>3, <2>3
  <2>5. \A d \in DOMAIN m : m[d].last <= now /\ expiredCalled < m[d].last + TTL
    <3> TAKE d \in DOMAIN m
    <3>1. CASE d = c
      BY <1>2, <1>3, <3>1 DEF CacheInv
    <3>2. CASE d # c
      BY <1>3, <3>2 DEF CacheInv, MapOK
    <3> QED BY <3>1, <3>2
  <2> QED BY <2>1, <2>4, <2>5 DEF MapOK
<1>5. o \in DOMAIN m \cup {0}
  <2>1. FindOldestItem(m) \in DOMAIN m \cup {0}
    BY <1>4, FindOldestInMap DEF MapOK
  <2>2. oldest \in DOMAIN items \cup {0}
    BY DEF CacheInv, OldestInMap
  <2> QED BY <1>3, <2>1, <2>2 DEF OldestAfterPut
<1>6. \A d \in DOMAIN items : now - items[d].last < TTL => d \in DOMAIN m /\ now - m[d].last < TTL
  BY <1>2, <1>3 DEF CacheInv
<1> HIDE DEF item, m, o
<1> QED BY <1>1, <1>4, <1>5, <1>6, RemoveExpiredGood DEF CacheInv

Kept == \A d \in DOMAIN items : now - items[d].last < TTL => d \in DOMAIN items'
Young == \A d \in DOMAIN items' : now - items'[d].last < 2 * TTL

LEMMA StoreGood ==
  ASSUME CacheInv, NEW c \in Clients, NEW s \in Seqs, Store(c, s), now' = now
  PROVE  CacheInv' /\ Kept /\ (s # 0 => Young)
<1>1. CASE s = 0
  <2>1. UNCHANGED <<cacheVars, now>>
    BY <1>1 DEF Store, Add, Update
  <2> QED BY <1>1, <2>1 DEF cacheVars, CacheInv, MapOK, OldestInMap, Kept
<1>2. CASE s # 0
  <2>1. CASE Add(c, s)
    <3>1. PutItem(c, s, "InProcessing", None)
      BY <1>2, <2>1 DEF Add
    <3> QED BY <3>1, PutItemGood DEF Kept, Young
  <2>2. CASE \E reply \in Replies : Update(c, s, reply)
    <3>1. PICK reply \in Replies : PutItem(c, s, "Done", reply)
      BY <1>2, <2>2 DEF Update
    <3> QED BY <3>1, PutItemGood DEF Kept, Young
  <2> QED BY <2>1, <2>2 DEF Store
<1> QED BY <1>1, <1>2

LEMMA FindGood ==
  ASSUME CacheInv, NEW c \in Clients, NEW s \in Seqs, Find(c, s), now' = now
  PROVE  CacheInv' /\ Kept
<1>1. CASE UNCHANGED cacheVars
  BY <1>1 DEF cacheVars, CacheInv, MapOK, OldestInMap, Kept
<1>2. CASE RemoveExpired(items, oldest)
  BY <1>2, RemoveExpiredGood DEF CacheInv, OldestInMap, Kept
<1>3. CASE /\ Known(c, s)
           /\ items' = [items EXCEPT ![c].last = now]
           /\ UNCHANGED <<oldest, expiredCalled>>
  <2>1. c \in DOMAIN items
    BY <1>3 DEF Known
  <2>2. DOMAIN items' = DOMAIN items
    BY <1>3
  <2>3. \A d \in DOMAIN items : d # c => items'[d] = items[d]
    BY <1>3
  <2>4. items'[c] = [items[c] EXCEPT !.last = now]
    BY <1>3, <2>1
  <2>5. items[c] \in Item
    BY <2>1 DEF CacheInv, MapOK
  <2>6. items'[c] \in Item /\ items'[c].last = now
    BY <2>4, <2>5 DEF CacheInv, Item
  <2>7. \A d \in DOMAIN items' : items'[d] \in Item
    BY <2>2, <2>3, <2>6 DEF CacheInv, MapOK
  <2>8. items' \in [DOMAIN items' -> Item]
    BY <1>3, <2>2, <2>7 DEF CacheInv, MapOK
  <2>9. \A d \in DOMAIN items' : items'[d].last <= now /\ expiredCalled < items'[d].last + TTL
    <3> TAKE d \in DOMAIN items'
    <3>1. CASE d = c
      BY <2>6, <3>1, TimeAssumption DEF CacheInv
    <3>2. CASE d # c
      BY <2>2, <2>3, <3>2 DEF CacheInv, MapOK
    <3> QED BY <3>1, <3>2
  <2> QED BY <1>3, <2>2, <2>8, <2>9 DEF CacheInv, MapOK, OldestInMap, Kept
<1> QED BY <1>1, <1>2, <1>3 DEF Find

LEMMA TickGood ==
  ASSUME CacheInv, Tick
  PROVE  CacheInv' /\ Kept
<1>1. now' = now + 1 /\ UNCHANGED <<items, oldest, expiredCalled>>
  BY DEF Tick, cacheVars
<1>2. \A c \in DOMAIN items : items[c].last \in Nat
  BY DEF CacheInv, MapOK, Item
<1>3. \A c \in DOMAIN items : items[c].last <= now + 1
  BY <1>2 DEF CacheInv, MapOK
<1>4. now + 1 \in Nat /\ expiredCalled \in 0..(now + 1)
  BY DEF CacheInv
<1> QED BY <1>1, <1>3, <1>4 DEF CacheInv, MapOK, OldestInMap, Kept

LEMMA CacheInit_Inv == CacheInit => CacheInv
<1> SUFFICES ASSUME CacheInit PROVE CacheInv
  OBVIOUS
<1>1. DOMAIN items = {} /\ items \in [DOMAIN items -> Item]
  BY DEF CacheInit
<1> QED BY <1>1, TimeAssumption DEF CacheInit, CacheInv, MapOK, OldestInMap

LEMMA CacheStep ==
  ASSUME CacheInv, [CacheNext]_<<cacheVars, now>>
  PROVE  CacheInv' /\ Kept
<1>1. CASE Tick
  BY <1>1, TickGood
<1>2. CASE \E c \in Clients, s \in Seqs : (Store(c, s) \/ Find(c, s)) /\ UNCHANGED now
  BY <1>2, StoreGood, FindGood
<1>3. CASE UNCHANGED <<cacheVars, now>>
  BY <1>3 DEF cacheVars, CacheInv, MapOK, OldestInMap, Kept
<1> QED BY <1>1, <1>2, <1>3 DEF CacheNext

-----------------------------------------------------------------------------

THEOREM CacheInvariant == CacheSpec => []CacheInv
BY CacheInit_Inv, CacheStep, PTL DEF CacheSpec

\* The map, the times and the reference to the oldest item are what they are
\* declared to be in every reachable state.
THEOREM CacheTypeCorrect == CacheSpec => []CacheTypeOK
BY CacheInvariant, CacheInvGivesType, PTL

\* No sequence of calls leaves m_pOldestItem pointing to a freed item.
THEOREM OldestNeverDangles == CacheSpec => []OldestInMap
<1>1. CacheInv => OldestInMap
  BY DEF CacheInv
<1> QED BY <1>1, CacheInvariant, PTL

\* No call throws away an item used less than TTL ago.
THEOREM FreshStays == CacheSpec => FreshIsKept
<1>1. ASSUME CacheInv, [CacheNext]_<<cacheVars, now>>
      PROVE  [\A c \in DOMAIN items : now - items[c].last < TTL
              => c \in DOMAIN items']_<<cacheVars, now>>
  BY <1>1, CacheStep DEF Kept
<1> QED BY <1>1, CacheInvariant, PTL DEF CacheSpec, FreshIsKept

\* A call that stores its state leaves no item of age twice TTL.
THEOREM OldItemsGo == CacheSpec => OldIsGone
<1>1. ASSUME CacheInv, [CacheNext]_<<cacheVars, now>>
      PROVE  [(now' = now /\ \E c \in Clients, s \in Seqs \ {0} : Store(c, s))
              => \A c \in DOMAIN items' : now - items'[c].last < 2 * TTL]_<<cacheVars, now>>
  <2>1. ASSUME NEW c \in Clients, NEW s \in Seqs \ {0}, Store(c, s), now' = now
        PROVE  Young
    BY <1>1, <2>1, StoreGood
  <2> QED BY <2>1 DEF Young
<1> QED BY <1>1, CacheInvariant, PTL DEF CacheSpec, OldIsGone

-----------------------------------------------------------------------------
(***************************************************************************)
(* Call: clients, datagrams, queue and workers around the cache.           *)
(***************************************************************************)

-----------------------------------------------------------------------------
(* Sequence numbers: a client that sends for the i-th time does it with a    *)
(* number that nothing of the system holds.                                  *)

SeqAt(i) == IF FirstSeq + i < SeqMod THEN FirstSeq + i ELSE FirstSeq + i - SeqMod
SeqsUpTo(i) == {SeqAt(j) : j \in 1..i}

\* Where the number s of the client c can still be found.
Stamped(c, s) ==
  \/ \E m \in net : m.from = c /\ m.seq = s
  \/ \E i \in 1..Len(m_vQueue) : m_vQueue[i].from = c /\ m_vQueue[i].seq = s
  \/ \E t \in Threads : /\ worker[t].pc # "idle"
                        /\ worker[t].req.from = c /\ worker[t].req.seq = s
  \/ c \in DOMAIN items /\ items[c].seq = s

\* How often a client can have sent is bounded by its calls and attempts.
SendsOf(c, i) ==
  IF client[c].call = 0 THEN i = 0
  ELSE i > 0 /\ i + maxResendTimes <= client[c].call * maxResendTimes + client[c].attempt

NumbersOK(c) ==
  \E i \in 0..(SeqMod - 1) :
    /\ SendsOf(c, i)
    /\ client[c].seq = SeqAt(i)
    /\ \A s : Stamped(c, s) => s \in SeqsUpTo(i)

-----------------------------------------------------------------------------
(* What the clients, the messages, the workers and the items are *)

Answers == Clients \X (1..MaxCalls) \X Nat
ClientRecords ==
  [pc : {"idle", "wait", "ask", "askwait", "resend"}, call : 0..MaxCalls,
   attempt : 0..maxResendTimes, seq : Nat, since : Nat, deadline : Nat,
   result : {None, Pending, TimeOut} \cup Answers]
RequestRecords ==
  [to : {"server"}, kind : {"none", "cmd", "get"}, from : Nat, seq : Nat, call : Nat]
WorkerRecords ==
  [pc : {"idle", "taken", "added", "executed"}, req : RequestRecords, reply : {None} \cup Answers]
ItemRecords ==
  [seq : Nat, status : {"InProcessing", "Done"}, last : Nat, reply : {None} \cup Answers]

CallTypes ==
  /\ client \in [Clients -> ClientRecords]
  /\ worker \in [Threads -> WorkerRecords]
  /\ m_vQueue \in Seq(RequestRecords)
  /\ execs \in [Clients -> [1..MaxCalls -> Nat]]
  /\ now \in Nat /\ dups \in Nat
  /\ DOMAIN items \subseteq Clients
  /\ \A c \in DOMAIN items : items[c] \in ItemRecords

\* The replies of the executions of the call k of the client c.
GoodReplies(c, k) == {c} \X {k} \X (1..execs[c][k])

\* A request with the number of the client belongs to the call that goes on, and a
\* client that waits for the reply to its command has not asked for it yet.
RequestOK(m) ==
  /\ m \in RequestRecords /\ m.kind \in {"cmd", "get"}
  /\ m.from \in Clients /\ m.call \in 1..client[m.from].call
  /\ m.seq = client[m.from].seq =>
       /\ m.call = client[m.from].call
       /\ client[m.from].pc = "wait" => m.kind = "cmd"

ReplyOK(m) ==
  /\ m.to = "client" /\ m.from \in Clients
  /\ m.seq = client[m.from].seq =>
       /\ client[m.from].pc = "wait" => m.kind = "cmd"
       /\ m.kind = "cmd" => m.status # "Done"
       /\ m.kind = "cmd" \/ m.status = "Done" =>
            m.reply \in GoodReplies(m.from, client[m.from].call)

MessagesOK == \A m \in net : RequestOK(m) \/ ReplyOK(m)
QueueOK == \A i \in 1..Len(m_vQueue) : RequestOK(m_vQueue[i])

WorkerOK(t) ==
  /\ worker[t].pc # "idle" => RequestOK(worker[t].req)
  /\ worker[t].pc \in {"added", "executed"} => worker[t].req.kind = "cmd"
  /\ worker[t].pc = "executed" =>
       worker[t].reply \in GoodReplies(worker[t].req.from, worker[t].req.call)

\* The item of the call that goes on was written after that was sent.
ItemOK(c) ==
  c \in DOMAIN items /\ items[c].seq = client[c].seq =>
    /\ items[c].last + maxResendTimes >= client[c].deadline
    /\ items[c].status = "Done" => items[c].reply \in GoodReplies(c, client[c].call)

\* A call ends in time, and its result is a reply to this very call.
ClientOK(c) ==
  /\ client[c].pc # "idle" => client[c].call > 0 /\ now <= client[c].deadline
  /\ client[c].deadline <= now + maxResendTimes
  /\ client[c].pc \in {"wait", "askwait"} =>
       client[c].since < client[c].deadline /\ now <= client[c].since + timeOut
  /\ \/ client[c].result \in {None, Pending, TimeOut}
     \/ client[c].call > 0 /\ client[c].result \in GoodReplies(c, client[c].call)

CallInv ==
  /\ CallTypes
  /\ \A c \in Clients : NumbersOK(c) /\ ClientOK(c) /\ ItemOK(c)
  /\ MessagesOK /\ QueueOK
  /\ \A t \in Threads : WorkerOK(t)

-----------------------------------------------------------------------------
(* Arithmetic of the numbers *)

LEMMA NextNumber ==
  ASSUME NEW i \in 0..(SeqMod - 1), i + 1 < SeqMod
  PROVE  /\ NextSeq(SeqAt(i)) = SeqAt(i + 1) /\ SeqAt(i + 1) \in Nat
         /\ SeqAt(i + 1) \notin SeqsUpTo(i)
<1> USE SeqAssumption, ResendAssumption
<1>1. SeqAt(i) \in 0..(SeqMod - 1)
  BY DEF SeqAt
<1>2. ASSUME SeqAt(i) + 1 = SeqMod PROVE NextSeq(SeqAt(i)) = SeqAt(i + 1)
  <2>1. SeqMod % SeqMod = 0
    OBVIOUS
  <2>2. SeqAt(i + 1) = 0
    BY <1>2 DEF SeqAt
  <2> QED BY <1>2, <2>1, <2>2 DEF NextSeq
<1>3. ASSUME SeqAt(i) + 1 < SeqMod PROVE NextSeq(SeqAt(i)) = SeqAt(i + 1)
  <2>1. (SeqAt(i) + 1) % SeqMod = SeqAt(i) + 1
    BY <1>1, <1>3
  <2>2. SeqAt(i + 1) = SeqAt(i) + 1
    BY <1>3 DEF SeqAt
  <2> QED BY <2>1, <2>2 DEF NextSeq
<1>4. SeqAt(i + 1) \in Nat /\ SeqAt(i + 1) \notin SeqsUpTo(i)
  BY DEF SeqAt, SeqsUpTo
<1>5. NextSeq(SeqAt(i)) = SeqAt(i + 1)
  BY <1>1, <1>2, <1>3
<1> QED BY <1>4, <1>5

-----------------------------------------------------------------------------
(* What a step keeps *)

\* The client c goes on with the same attempt.
Quiet(c) ==
  /\ client'[c].call = client[c].call /\ client'[c].attempt = client[c].attempt
  /\ client'[c].seq = client[c].seq /\ client'[c].deadline = client[c].deadline
  /\ client'[c].pc = "wait" => client[c].pc = "wait"

\* Or it turns to a number of which nothing is left.
Renewed(c) ==
  /\ client'[c].call >= client[c].call
  /\ ~Stamped(c, client'[c].seq)

Grows == \A c \in Clients : \A k \in 1..MaxCalls : execs[c][k] <= execs'[c][k]

LEMMA RepliesGrow ==
  ASSUME CallTypes, CallTypes', Grows, NEW c \in Clients, NEW k \in 1..MaxCalls
  PROVE  GoodReplies(c, k) \subseteq GoodReplies(c, k)'
<1>1. execs[c][k] <= execs'[c][k] /\ execs[c][k] \in Nat /\ execs'[c][k] \in Nat
  BY DEF Grows, CallTypes
<1> QED BY <1>1 DEF GoodReplies

LEMMA RequestKept ==
  ASSUME CallTypes, CallTypes', NEW m, RequestOK(m),
         Quiet(m.from) \/ (Renewed(m.from) /\ Stamped(m.from, m.seq))
  PROVE  RequestOK(m)'
<1>1. m.from \in Clients /\ client[m.from] \in ClientRecords /\ client'[m.from] \in ClientRecords
  BY DEF RequestOK, CallTypes
<1>2. CASE Quiet(m.from)
  BY <1>2 DEF RequestOK, Quiet
<1>3. CASE Renewed(m.from) /\ Stamped(m.from, m.seq)
  <2>1. m.seq # client'[m.from].seq
    BY <1>3 DEF Renewed
  <2>2. m.call \in 1..client'[m.from].call
    BY <1>1, <1>3 DEF RequestOK, Renewed, ClientRecords
  <2> QED BY <2>1, <2>2 DEF RequestOK
<1> QED BY <1>2, <1>3

LEMMA ReplyKept ==
  ASSUME CallTypes, CallTypes', Grows, NEW m, ReplyOK(m),
         Quiet(m.from) \/ (Renewed(m.from) /\ Stamped(m.from, m.seq)),
         m.seq = client[m.from].seq => client[m.from].call > 0
  PROVE  ReplyOK(m)'
<1>1. m.from \in Clients /\ client[m.from] \in ClientRecords
  BY DEF ReplyOK, CallTypes
<1>2. CASE Quiet(m.from)
  <2>1. ASSUME m.seq = client[m.from].seq
        PROVE  GoodReplies(m.from, client[m.from].call) \subseteq GoodReplies(m.from, client[m.from].call)'
    <3>1. client[m.from].call \in 1..MaxCalls /\ client'[m.from].call = client[m.from].call
      BY <1>1, <1>2, <2>1, CallsAssumption DEF ClientRecords, Quiet
    <3> QED BY <1>1, <3>1, RepliesGrow DEF GoodReplies
  <2> QED BY <1>2, <2>1 DEF ReplyOK, Quiet
<1>3. CASE Renewed(m.from) /\ Stamped(m.from, m.seq)
  BY <1>3 DEF ReplyOK, Renewed
<1> QED BY <1>2, <1>3

\* Whatever the system holds is stamped with a number of its client, so that a client
\* with a message, or an item, of its present number has begun a call.
LEMMA StampedHasCall ==
  ASSUME CallInv, NEW c \in Clients, Stamped(c, client[c].seq)
  PROVE  client[c].call > 0
<1>1. client[c].call \in Nat
  BY DEF CallInv, CallTypes, ClientRecords
<1>2. PICK i \in 0..(SeqMod - 1) : SendsOf(c, i) /\ client[c].seq \in SeqsUpTo(i)
  BY DEF CallInv, NumbersOK
<1>3. i # 0
  BY <1>2 DEF SeqsUpTo
<1> QED BY <1>1, <1>2, <1>3 DEF SendsOf

LEMMA ItemKept ==
  ASSUME CallInv, CallTypes', Grows, NEW c \in Clients, Quiet(c) \/ Renewed(c),
         c \in DOMAIN items' => c \in DOMAIN items /\ items'[c] = items[c]
  PROVE  ItemOK(c)'
<1> SUFFICES ASSUME c \in DOMAIN items', items'[c].seq = client'[c].seq PROVE ItemOK(c)'
  BY DEF ItemOK
<1>1. c \in DOMAIN items /\ items'[c] = items[c] /\ Stamped(c, client'[c].seq)
  BY DEF Stamped
<1>2. Quiet(c) /\ ItemOK(c) /\ items[c].seq = client[c].seq
  BY <1>1 DEF Renewed, Quiet, CallInv
<1>3. client[c].call > 0
  BY <1>1, <1>2, StampedHasCall DEF Quiet
<1>4. client[c].call \in 1..MaxCalls /\ client'[c].call = client[c].call
  BY <1>2, <1>3, CallsAssumption DEF CallInv, CallTypes, ClientRecords, Quiet
<1>5. \A k \in 1..MaxCalls : GoodReplies(c, k) \subseteq GoodReplies(c, k)'
  BY RepliesGrow DEF CallInv
<1>6. /\ items[c].last + maxResendTimes >= client[c].deadline
      /\ items[c].status = "Done" => items[c].reply \in GoodReplies(c, client[c].call)
  BY <1>1, <1>2 DEF ItemOK
<1>7. items[c].status = "Done" => items[c].reply \in {c} \X {client[c].call} \X (1..execs'[c][client[c].call])
  BY <1>4, <1>5, <1>6 DEF GoodReplies
<1> QED BY <1>1, <1>2, <1>4, <1>6, <1>7 DEF ItemOK, Quiet, GoodReplies

LEMMA NumbersKept ==
  ASSUME CallInv, NEW c \in Clients, Quiet(c),
         \A s : Stamped(c, s)' => Stamped(c, s) \/ (s = client[c].seq /\ client[c].call > 0)
  PROVE  NumbersOK(c)'
<1>1. PICK i \in 0..(SeqMod - 1) :
        SendsOf(c, i) /\ client[c].seq = SeqAt(i) /\ \A s : Stamped(c, s) => s \in SeqsUpTo(i)
  BY DEF CallInv, NumbersOK
<1>2. SendsOf(c, i)' /\ client'[c].seq = SeqAt(i)
  BY <1>1 DEF SendsOf, Quiet
<1>3. client[c].call > 0 => client[c].seq \in SeqsUpTo(i)
  <2>1. client[c].call > 0 => i \in 1..i
    BY <1>1 DEF SendsOf, CallInv, CallTypes, ClientRecords
  <2> QED BY <1>1, <2>1 DEF SeqsUpTo
<1>4. \A s : Stamped(c, s)' => s \in SeqsUpTo(i)
  BY <1>1, <1>3
<1> QED BY <1>2, <1>4 DEF NumbersOK

LEMMA Products ==
  ASSUME NEW a \in Nat, NEW b \in Nat, NEW r \in Nat
  PROVE  (a + 1) * r = a * r + r /\ (a <= b => a * r <= b * r) /\ a * r \in Nat
<1>1. (a + 1) * r = a * r + r /\ a * r \in Nat
  OBVIOUS
<1>2. ASSUME a <= b PROVE a * r <= b * r
  <2>1. PICK d \in Nat : b = a + d
    BY <1>2
  <2>2. b * r = a * r + d * r /\ d * r \in Nat /\ a * r \in Nat
    BY <2>1
  <2> QED BY <2>2
<1> QED BY <1>1, <1>2

\* The commands that a client may send: of its next call, or of this one again.
MaySend(c, k, attempt) ==
  \/ k = client[c].call + 1 /\ k <= MaxCalls /\ attempt = 1
  \/ k = client[c].call /\ k > 0 /\ attempt = client[c].attempt + 1 /\ attempt <= maxResendTimes

LEMMA FreshNumber ==
  ASSUME CallInv, NEW c \in Clients, NEW k, NEW attempt, MaySend(c, k, attempt)
  PROVE  \E i \in 0..(SeqMod - 1) :
           /\ i > 0 /\ i + maxResendTimes <= k * maxResendTimes + attempt
           /\ NextSeq(client[c].seq) = SeqAt(i)
           /\ ~Stamped(c, SeqAt(i)) /\ SeqAt(i) \in Nat
           /\ \A s : Stamped(c, s) => s \in SeqsUpTo(i)
<1> USE ResendAssumption, CallsAssumption
<1>0. /\ client[c].call \in 0..MaxCalls /\ client[c].attempt \in 0..maxResendTimes
      /\ k \in Nat /\ k <= MaxCalls /\ attempt \in Nat /\ attempt <= maxResendTimes /\ k > 0
  <2>1. client[c] \in ClientRecords
    BY DEF CallInv, CallTypes
  <2>2. client[c].call \in 0..MaxCalls /\ client[c].attempt \in 0..maxResendTimes
    BY <2>1 DEF ClientRecords
  <2> QED BY <2>2 DEF MaySend
<1>1. PICK i \in 0..(SeqMod - 1) :
        SendsOf(c, i) /\ client[c].seq = SeqAt(i) /\ \A s : Stamped(c, s) => s \in SeqsUpTo(i)
  BY DEF CallInv, NumbersOK
<1>2. i + 1 + maxResendTimes <= k * maxResendTimes + attempt
  <2>1. CASE k = client[c].call + 1 /\ attempt = 1
    <3>1. k * maxResendTimes = client[c].call * maxResendTimes + maxResendTimes
      BY <1>0, <2>1, Products
    <3>2. client[c].call * maxResendTimes \in Nat
      BY <1>0, Products
    <3>3. CASE client[c].call = 0
      <4>1. i = 0
        BY <1>1, <3>3 DEF SendsOf
      <4>2. 0 * maxResendTimes = 0
        OBVIOUS
      <4> QED BY <2>1, <3>1, <3>3, <4>1, <4>2
    <3>4. CASE client[c].call # 0
      <4>1. i + maxResendTimes <= client[c].call * maxResendTimes + client[c].attempt
        BY <1>1, <3>4 DEF SendsOf
      <4> DEFINE p == client[c].call * maxResendTimes
                 q == k * maxResendTimes
      <4>2. q = p + maxResendTimes /\ p \in Nat /\ i + maxResendTimes <= p + client[c].attempt
        BY <3>1, <3>2, <4>1
      <4> HIDE DEF p, q
      <4>3. i + 1 + maxResendTimes <= q + 1
        BY <1>0, <4>2
      <4> QED BY <2>1, <4>3 DEF q
    <3> QED BY <3>3, <3>4
  <2>2. CASE k = client[c].call /\ attempt = client[c].attempt + 1
    <3>1. i + maxResendTimes <= k * maxResendTimes + client[c].attempt
      BY <1>0, <1>1, <2>2 DEF SendsOf
    <3> DEFINE q == k * maxResendTimes
    <3>2. q \in Nat /\ i + maxResendTimes <= q + client[c].attempt
      BY <1>0, <3>1, Products
    <3> HIDE DEF q
    <3>3. i + 1 + maxResendTimes <= q + attempt
      BY <1>0, <2>2, <3>2
    <3> QED BY <3>3 DEF q
  <2> QED BY <2>1, <2>2 DEF MaySend
<1>3. i + 1 < SeqMod
  <2> DEFINE q == k * maxResendTimes
             r == MaxCalls * maxResendTimes
  <2>1. q \in Nat /\ r \in Nat /\ q <= r /\ r < SeqMod
    BY <1>0, Products, SeqAssumption
  <2>2. i + 1 + maxResendTimes <= q + attempt
    BY <1>2
  <2> HIDE DEF q, r
  <2> QED BY <1>0, <2>1, <2>2
<1>4. /\ NextSeq(client[c].seq) = SeqAt(i + 1) /\ SeqAt(i + 1) \in Nat
      /\ SeqAt(i + 1) \notin SeqsUpTo(i)
  BY <1>1, <1>3, NextNumber
<1>5. SeqsUpTo(i) \subseteq SeqsUpTo(i + 1)
  BY DEF SeqsUpTo
<1>6. i + 1 \in 0..(SeqMod - 1)
  BY <1>3
<1> QED BY <1>1, <1>2, <1>4, <1>5, <1>6

-----------------------------------------------------------------------------
(* The steps of a client *)

LEMMA SendKept ==
  ASSUME CallInv, NEW c \in Clients, NEW k, NEW attempt, MaySend(c, k, attempt),
         SendCmd(c, k, attempt), UNCHANGED <<ServerVars, now, dups>>
  PROVE  CallInv'
<1> USE ResendAssumption, CallsAssumption
<1> PICK i \in 0..(SeqMod - 1) :
      /\ i > 0 /\ i + maxResendTimes <= k * maxResendTimes + attempt
      /\ NextSeq(client[c].seq) = SeqAt(i)
      /\ ~Stamped(c, SeqAt(i)) /\ SeqAt(i) \in Nat
      /\ \A s : Stamped(c, s) => s \in SeqsUpTo(i)
  BY FreshNumber
<1> PICK req : req = Request(c, "cmd", SeqAt(i), k)
  OBVIOUS
<1>0. /\ k \in 1..MaxCalls /\ attempt \in 1..maxResendTimes /\ k >= client[c].call
      /\ c \in Nat
  <2>1. c \in Nat
    BY DEF Clients
  <2>2. client[c] \in ClientRecords
    BY DEF CallInv, CallTypes
  <2> QED BY <2>1, <2>2 DEF ClientRecords, MaySend
<1>1. /\ client' = [client EXCEPT ![c] =
           [pc |-> "wait", call |-> k, attempt |-> attempt, seq |-> SeqAt(i), since |-> now,
            deadline |-> now + maxResendTimes, result |-> Pending]]
      /\ net' = net \cup {req}
      /\ UNCHANGED <<items, m_vQueue, worker, execs, now, dups>>
  <2>1. maxResendTimes * timeOut = maxResendTimes
    BY DEF timeOut
  <2> QED BY <2>1 DEF SendCmd, ServerVars, cacheVars
<1>2. /\ client'[c].pc = "wait" /\ client'[c].call = k /\ client'[c].attempt = attempt
      /\ client'[c].seq = SeqAt(i) /\ client'[c].since = now /\ client'[c].result = Pending
      /\ client'[c].deadline = now + maxResendTimes
  BY <1>1 DEF CallInv, CallTypes
<1>3. \A d \in Clients \ {c} : client'[d] = client[d] /\ Quiet(d)
  BY <1>1 DEF CallInv, CallTypes, Quiet
<1>4. CallTypes'
  <2>1. now + maxResendTimes \in Nat
    BY DEF CallInv, CallTypes
  <2>2. client' \in [Clients -> ClientRecords]
    BY <1>0, <1>1, <2>1 DEF CallInv, CallTypes, ClientRecords
  <2> QED BY <1>1, <2>2 DEF CallInv, CallTypes
<1>5. Renewed(c) /\ Grows
  <2>1. Renewed(c)
    BY <1>0, <1>2 DEF Renewed
  <2>2. \A d \in Clients : \A j \in 1..MaxCalls : execs[d][j] \in Nat
    BY DEF CallInv, CallTypes
  <2> QED BY <1>1, <2>1, <2>2 DEF Grows
<1>6. req.from = c /\ req.seq = SeqAt(i) /\ RequestOK(req)'
  BY <1>0, <1>2 DEF Request, RequestOK, RequestRecords
<1>7. \A d, s : Stamped(d, s)' => Stamped(d, s) \/ (d = c /\ s = SeqAt(i))
  BY <1>1, <1>6 DEF Stamped
<1>8. ASSUME NEW d \in Clients PROVE NumbersOK(d)' /\ ClientOK(d)' /\ ItemOK(d)'
  <2>1. CASE d = c
    <3>1. SendsOf(c, i)'
      BY <1>0, <1>2 DEF SendsOf
    <3>2. \A s : Stamped(c, s)' => s \in SeqsUpTo(i)
      BY <1>7 DEF SeqsUpTo
    <3>3. NumbersOK(c)'
      BY <1>2, <3>1, <3>2 DEF NumbersOK
    <3>4. ClientOK(c)'
      BY <1>0, <1>1, <1>2 DEF ClientOK, timeOut, CallInv, CallTypes
    <3>5. ItemOK(c)'
      BY <1>1, <1>4, <1>5, ItemKept
    <3> QED BY <2>1, <3>3, <3>4, <3>5
  <2>2. CASE d # c
    <3>1. NumbersOK(d)'
      BY <1>3, <1>7, <2>2, NumbersKept
    <3>2. ClientOK(d)'
      BY <1>1, <1>3, <2>2 DEF CallInv, ClientOK, GoodReplies
    <3>3. ItemOK(d)'
      BY <1>1, <1>3, <1>4, <1>5, <2>2, ItemKept
    <3> QED BY <3>1, <3>2, <3>3
  <2> QED BY <2>1, <2>2
<1>9. ASSUME NEW m, RequestOK(m), Stamped(m.from, m.seq) PROVE RequestOK(m)'
  BY <1>3, <1>4, <1>5, <1>9, RequestKept DEF CallInv, RequestOK
<1>10. MessagesOK'
  <2> SUFFICES ASSUME NEW m \in net PROVE (RequestOK(m) \/ ReplyOK(m))'
    BY <1>1, <1>6 DEF MessagesOK
  <2>1. Stamped(m.from, m.seq)
    BY DEF Stamped
  <2>2. CASE RequestOK(m)
    BY <1>9, <2>1, <2>2
  <2>3. CASE ReplyOK(m)
    <3>1. m.seq = client[m.from].seq => client[m.from].call > 0
      BY <2>1, <2>3, StampedHasCall DEF ReplyOK
    <3> QED BY <1>3, <1>4, <1>5, <2>1, <2>3, <3>1, ReplyKept DEF CallInv, ReplyOK
  <2> QED BY <2>2, <2>3 DEF CallInv, MessagesOK
<1>11. QueueOK'
  <2> SUFFICES ASSUME NEW j \in 1..Len(m_vQueue) PROVE RequestOK(m_vQueue[j])'
    BY <1>1 DEF QueueOK
  <2> PICK m : m = m_vQueue[j]
    OBVIOUS
  <2>1. RequestOK(m) /\ Stamped(m.from, m.seq)
    BY DEF CallInv, QueueOK, Stamped
  <2>2. RequestOK(m)'
    BY <1>9, <2>1
  <2> QED BY <1>1, <2>2 DEF RequestOK
<1>12. ASSUME NEW t \in Threads PROVE WorkerOK(t)'
  <2> PICK m : m = worker[t].req
    OBVIOUS
  <2>1. worker[t].pc # "idle" => RequestOK(m) /\ Stamped(m.from, m.seq)
    BY DEF CallInv, WorkerOK, Stamped
  <2>2. worker[t].pc # "idle" => RequestOK(m)'
    BY <1>9, <2>1
  <2> QED BY <1>1, <2>2 DEF CallInv, WorkerOK, RequestOK, GoodReplies
<1> QED BY <1>4, <1>8, <1>10, <1>11, <1>12 DEF CallInv

\* What is left to show of a step that sends no command.
LEMMA QuietKept ==
  ASSUME CallInv, CallTypes', Grows,
         \A c \in Clients : Quiet(c) /\ ClientOK(c)',
         \A c \in Clients : \A s : Stamped(c, s)' =>
           Stamped(c, s) \/ (s = client[c].seq /\ client[c].call > 0),
         \A m \in net' \ net : RequestOK(m)' \/ ReplyOK(m)',
         \A i \in 1..Len(m_vQueue') :
           \/ \E j \in 1..Len(m_vQueue) : m_vQueue'[i] = m_vQueue[j]
           \/ m_vQueue'[i] \in net /\ m_vQueue'[i].to = "server",
         \A t \in Threads : worker'[t] = worker[t] \/ WorkerOK(t)',
         \A c \in Clients :
           \/ c \in DOMAIN items' => c \in DOMAIN items /\ items'[c] = items[c]
           \/ ItemOK(c)'
  PROVE  CallInv'
<1>1. ASSUME NEW c \in Clients PROVE NumbersOK(c)' /\ ItemOK(c)'
  BY NumbersKept, ItemKept
<1>2. ASSUME NEW m, RequestOK(m) PROVE RequestOK(m)'
  BY <1>2, RequestKept DEF CallInv, RequestOK
<1>3. MessagesOK'
  <2> SUFFICES ASSUME NEW m \in net PROVE RequestOK(m)' \/ ReplyOK(m)'
    BY DEF MessagesOK
  <2>1. CASE ReplyOK(m)
    <3>1. Stamped(m.from, m.seq)
      BY DEF Stamped
    <3>2. m.seq = client[m.from].seq => client[m.from].call > 0
      BY <2>1, <3>1, StampedHasCall DEF ReplyOK
    <3> QED BY <2>1, <3>2, ReplyKept DEF CallInv, ReplyOK
  <2> QED BY <1>2, <2>1 DEF CallInv, MessagesOK
<1>4. QueueOK'
  <2> SUFFICES ASSUME NEW i \in 1..Len(m_vQueue') PROVE RequestOK(m_vQueue[i])'
    BY DEF QueueOK
  <2> PICK m : m = m_vQueue'[i]
    OBVIOUS
  <2>1. RequestOK(m)
    <3>1. m \in net /\ m.to = "server" => RequestOK(m)
      BY DEF CallInv, MessagesOK, ReplyOK
    <3> QED BY <3>1 DEF CallInv, QueueOK
  <2>2. RequestOK(m)'
    BY <1>2, <2>1
  <2> QED BY <2>2 DEF RequestOK
<1>5. ASSUME NEW t \in Threads PROVE WorkerOK(t)'
  <2>1. CASE worker'[t] = worker[t]
    <3> PICK m : m = worker[t].req
      OBVIOUS
    <3>1. worker[t].pc # "idle" => RequestOK(m)
      BY DEF CallInv, WorkerOK
    <3>2. worker[t].pc # "idle" => RequestOK(m)'
      BY <1>2, <3>1
    <3>3. worker[t].pc = "executed" => GoodReplies(m.from, m.call) \subseteq GoodReplies(m.from, m.call)'
      <4>1. RequestOK(m) => m.from \in Clients /\ m.call \in 1..MaxCalls
        <5>1. RequestOK(m) => m.from \in Clients /\ client[m.from] \in ClientRecords
          BY DEF RequestOK, CallInv, CallTypes
        <5> QED BY <5>1, CallsAssumption DEF RequestOK, ClientRecords
      <4> QED BY <3>1, <4>1, RepliesGrow DEF CallInv
    <3> QED BY <2>1, <3>2, <3>3 DEF CallInv, WorkerOK, RequestOK, GoodReplies
  <2> QED BY <2>1
<1> QED BY <1>1, <1>3, <1>4, <1>5 DEF CallInv

\* A step of a client that goes on with its attempt, or ends it.
LEMMA QuietClientKept ==
  ASSUME CallInv, NEW c \in Clients, NEW n \in ClientRecords,
         client' = [client EXCEPT ![c] = n],
         n.call = client[c].call, n.attempt = client[c].attempt, n.seq = client[c].seq,
         n.deadline = client[c].deadline, n.pc = "wait" => client[c].pc = "wait",
         UNCHANGED <<ServerVars, now>>, dups' \in Nat,
         \A m \in net' \ net : /\ m.from = c /\ m.seq = client[c].seq /\ client[c].call > 0
                               /\ RequestOK(m)',
         ClientOK(c)'
  PROVE  CallInv'
<1>1. client'[c] = n /\ \A d \in Clients \ {c} : client'[d] = client[d]
  BY DEF CallInv, CallTypes
<1>2. /\ items' = items /\ m_vQueue' = m_vQueue /\ worker' = worker /\ execs' = execs
      /\ now' = now
  BY DEF ServerVars, cacheVars
<1>3. CallTypes'
  BY <1>2 DEF CallInv, CallTypes
<1>4. Grows
  <2>1. \A d \in Clients : \A j \in 1..MaxCalls : execs[d][j] \in Nat
    BY DEF CallInv, CallTypes
  <2> QED BY <1>2, <2>1 DEF Grows
<1>5. \A d \in Clients : Quiet(d) /\ ClientOK(d)'
  BY <1>1, <1>2 DEF Quiet, CallInv, ClientOK, GoodReplies
<1>6. \A d \in Clients : \A s : Stamped(d, s)' =>
        Stamped(d, s) \/ (s = client[d].seq /\ client[d].call > 0)
  BY <1>2 DEF Stamped
<1> QED BY <1>2, <1>3, <1>4, <1>5, <1>6, QuietKept

LEMMA ClientStepKept ==
  ASSUME CallInv, NEW c \in Clients, ClientStep(c)
  PROVE  CallInv'
<1> USE ResendAssumption
<1>0. client[c] \in ClientRecords /\ ClientOK(c) /\ dups \in Nat /\ now \in Nat
  BY DEF CallInv, CallTypes
<1>a. /\ client[c].deadline \in Nat /\ client[c].since \in Nat /\ client[c].call \in Nat
      /\ client[c].attempt \in 0..maxResendTimes
  BY <1>0 DEF ClientRecords
<1>1. CASE StartCall(c)
  <2>1. MaySend(c, client[c].call + 1, 1)
    BY <1>a, <1>1, CallsAssumption DEF StartCall, MaySend
  <2> QED BY <1>1, <2>1, SendKept DEF StartCall
<1>2. CASE EndCall(c, TimeOut) /\ UNCHANGED <<ServerVars, now, dups>>
  <2> DEFINE n == [client[c] EXCEPT !.pc = "idle", !.result = TimeOut]
  <2>1. client' = [client EXCEPT ![c] = n] /\ net' = net
    BY <1>0, <1>2 DEF EndCall, ClientRecords, CallInv, CallTypes
  <2>2. n \in ClientRecords /\ n.pc = "idle" /\ n.result = TimeOut /\ n.call = client[c].call
        /\ n.attempt = client[c].attempt /\ n.seq = client[c].seq
        /\ n.deadline = client[c].deadline
    BY <1>0 DEF ClientRecords
  <2>3. client'[c] = n
    BY <2>1 DEF CallInv, CallTypes
  <2> HIDE DEF n
  <2>4. ClientOK(c)'
    BY <1>0, <1>2, <2>2, <2>3 DEF ClientOK
  <2> QED BY <1>0, <1>2, <2>1, <2>2, <2>4, QuietClientKept
<1>3. CASE Resend(c)
  <2>1. CASE MayResend(client[c].attempt)
    <3>1. client[c].call > 0
      BY <1>0, <1>3 DEF ClientOK, Resend
    <3>2. MaySend(c, client[c].call, client[c].attempt + 1)
      BY <1>a, <2>1, <3>1 DEF MaySend, MayResend
    <3>3. SendCmd(c, client[c].call, client[c].attempt + 1)
      BY <1>3, <2>1 DEF Resend, SendAgain
    <3> QED BY <1>3, <3>2, <3>3, SendKept DEF Resend
  <2>2. CASE ~MayResend(client[c].attempt)
    BY <1>2, <1>3, <2>2 DEF Resend, SendAgain
  <2> QED BY <2>1, <2>2
<1>4. CASE SocketTimeout(c)
  <2> DEFINE n == [client[c] EXCEPT !.pc = "ask"]
  <2>1. client' = [client EXCEPT ![c] = n] /\ net' = net /\ dups' = dups
        /\ UNCHANGED <<ServerVars, now>> /\ client[c].pc # "idle"
    BY <1>0, <1>4 DEF SocketTimeout, ClientRecords, CallInv, CallTypes
  <2>2. n \in ClientRecords /\ n.pc = "ask" /\ n.result = client[c].result
        /\ n.call = client[c].call /\ n.attempt = client[c].attempt /\ n.seq = client[c].seq
        /\ n.deadline = client[c].deadline
    BY <1>0 DEF ClientRecords
  <2>3. client'[c] = n /\ execs' = execs /\ now' = now
    BY <2>1 DEF CallInv, CallTypes, ServerVars
  <2> HIDE DEF n
  <2>4. ClientOK(c)'
    BY <1>0, <2>1, <2>2, <2>3 DEF ClientOK, GoodReplies
  <2> QED BY <1>0, <2>1, <2>2, <2>4, QuietClientKept
<1>5. CASE Ask(c)
  <2>1. CASE EndCall(c, TimeOut)
    BY <1>2, <1>5, <2>1 DEF Ask
  <2>2. CASE /\ ~PastDeadline(c)
             /\ client' = [client EXCEPT ![c].pc = "askwait", ![c].since = now]
             /\ net' = net \cup {Request(c, "get", client[c].seq, client[c].call)}
    <3> DEFINE n == [client[c] EXCEPT !.pc = "askwait", !.since = now]
    <3> PICK req : req = Request(c, "get", client[c].seq, client[c].call)
      OBVIOUS
    <3>1. client' = [client EXCEPT ![c] = n] /\ net' = net \cup {req} /\ dups' = dups
          /\ UNCHANGED <<ServerVars, now>> /\ client[c].pc = "ask"
      BY <1>0, <1>5, <2>2 DEF Ask, ClientRecords, CallInv, CallTypes
    <3>2. n \in ClientRecords /\ n.pc = "askwait" /\ n.result = client[c].result
          /\ n.call = client[c].call /\ n.attempt = client[c].attempt /\ n.seq = client[c].seq
          /\ n.deadline = client[c].deadline /\ n.since = now
      BY <1>0 DEF ClientRecords
    <3>3. client'[c] = n /\ execs' = execs /\ now' = now
      BY <3>1 DEF CallInv, CallTypes, ServerVars
    <3> HIDE DEF n
    <3>4. client[c].call > 0 /\ now < client[c].deadline
      BY <1>0, <1>a, <2>2, <3>1 DEF ClientOK, PastDeadline
    <3>5. ClientOK(c)'
      BY <1>0, <1>a, <3>1, <3>2, <3>3, <3>4 DEF ClientOK, GoodReplies, timeOut
    <3>6. req.from = c /\ req.seq = client[c].seq /\ RequestOK(req)'
      <4>1. c \in Nat /\ client[c].seq \in Nat
        BY <1>0 DEF Clients, ClientRecords
      <4> QED BY <1>a, <3>2, <3>3, <3>4, <4>1 DEF Request, RequestOK, RequestRecords
    <3> QED BY <1>0, <3>1, <3>2, <3>4, <3>5, <3>6, QuietClientKept
  <2> QED BY <1>5, <2>1, <2>2 DEF Ask
<1>6. CASE Receive(c)
  <2> PICK m \in net : /\ m.to = "client" /\ m.from = c /\ Deliver(m)
                       /\ TakeReply(c, m) \/ TakeStatus(c, m) \/ SkipReply(c, m)
    BY <1>6 DEF Receive
  <2>0. /\ net' \subseteq net /\ dups' \in Nat /\ UNCHANGED <<ServerVars, now>> /\ now' = now
        /\ execs' = execs /\ client[c].pc \in {"wait", "askwait"}
    BY <1>0, <1>6 DEF Receive, Deliver, ServerVars
  <2>1. ReplyOK(m)
    BY DEF CallInv, MessagesOK, RequestOK, RequestRecords
  <2>2. ASSUME NEW n \in ClientRecords, client' = [client EXCEPT ![c] = n],
               n.call = client[c].call, n.attempt = client[c].attempt, n.seq = client[c].seq,
               n.deadline = client[c].deadline, n.pc = "wait" => client[c].pc = "wait",
               \/ n.pc \in {"ask", "resend"} /\ n.result = client[c].result
               \/ n.pc = "idle" /\ (n.result = TimeOut \/ n.result \in GoodReplies(c, client[c].call))
               \/ n.pc = client[c].pc /\ n.result = client[c].result /\ n.since = now
                  /\ now < client[c].deadline
        PROVE  CallInv'
    <3>1. client'[c] = n
      BY <2>2 DEF CallInv, CallTypes
    <3>2. ClientOK(c)'
      BY <1>0, <1>a, <2>0, <2>2, <3>1 DEF ClientOK, GoodReplies, timeOut
    <3> QED BY <2>0, <2>2, <3>2, QuietClientKept
  <2>3. IsMine(c, m) /\ (m.kind = "cmd" \/ m.status = "Done") =>
          m.reply \in GoodReplies(c, client[c].call) /\ m.reply \in Answers
    <3>1. client[c].call > 0 /\ client[c].call \in 1..MaxCalls /\ c \in Clients
      BY <1>0, <2>0 DEF ClientOK, ClientRecords
    <3>2. \A k : execs[c][k] \in Nat => 1..execs[c][k] \subseteq Nat
      OBVIOUS
    <3>3. execs[c][client[c].call] \in Nat
      BY <3>1 DEF CallInv, CallTypes
    <3> QED BY <2>1, <3>1, <3>2, <3>3 DEF IsMine, ReplyOK, GoodReplies, Answers
  <2>4. CASE TakeReply(c, m)
    <3> DEFINE n == [client[c] EXCEPT !.pc = "idle", !.result = m.reply]
    <3>1. client' = [client EXCEPT ![c] = n]
      BY <1>0, <2>4 DEF TakeReply, ClientRecords, CallInv, CallTypes
    <3>2. m.reply \in GoodReplies(c, client[c].call) /\ m.reply \in Answers
      BY <2>1, <2>3, <2>4 DEF TakeReply, ReplyOK, IsMine
    <3>3. n \in ClientRecords
      BY <1>0, <3>2 DEF ClientRecords
    <3> QED BY <1>0, <2>2, <3>1, <3>2, <3>3 DEF ClientRecords
  <2>5. CASE TakeStatus(c, m)
    <3>1. CASE m.status = "Done" /\ client' = [client EXCEPT ![c].pc = "idle", ![c].result = m.reply]
      <4> DEFINE n == [client[c] EXCEPT !.pc = "idle", !.result = m.reply]
      <4>1. client' = [client EXCEPT ![c] = n]
        BY <1>0, <3>1 DEF ClientRecords, CallInv, CallTypes
      <4>2. m.reply \in GoodReplies(c, client[c].call) /\ m.reply \in Answers
        BY <2>3, <2>5, <3>1 DEF TakeStatus
      <4>3. n \in ClientRecords
        BY <1>0, <4>2 DEF ClientRecords
      <4> QED BY <1>0, <2>2, <4>1, <4>2, <4>3 DEF ClientRecords
    <3>2. ASSUME NEW pc \in {"ask", "resend"}, client' = [client EXCEPT ![c].pc = pc]
          PROVE  CallInv'
      <4> DEFINE n == [client[c] EXCEPT !.pc = pc]
      <4>1. client' = [client EXCEPT ![c] = n]
        BY <1>0, <3>2 DEF ClientRecords, CallInv, CallTypes
      <4>2. n \in ClientRecords
        BY <1>0 DEF ClientRecords
      <4> QED BY <1>0, <2>2, <4>1, <4>2 DEF ClientRecords
    <3> QED BY <2>5, <3>1, <3>2 DEF TakeStatus
  <2>6. CASE SkipReply(c, m)
    <3>1. CASE PastDeadline(c)
      <4> DEFINE n == [client[c] EXCEPT !.pc = "idle", !.result = TimeOut]
      <4>1. client' = [client EXCEPT ![c] = n]
        BY <2>6, <3>1 DEF SkipReply
      <4>2. n \in ClientRecords
        BY <1>0 DEF ClientRecords
      <4> QED BY <1>0, <2>2, <4>1, <4>2 DEF ClientRecords
    <3>2. CASE ~PastDeadline(c)
      <4> DEFINE n == [client[c] EXCEPT !.since = now]
      <4>1. client' = [client EXCEPT ![c] = n]
        BY <2>6, <3>2 DEF SkipReply
      <4>2. n \in ClientRecords
        BY <1>0 DEF ClientRecords
      <4>3. now < client[c].deadline
        BY <1>0, <1>a, <3>2 DEF PastDeadline
      <4> QED BY <1>0, <2>2, <4>1, <4>2, <4>3 DEF ClientRecords
    <3> QED BY <3>1, <3>2
  <2> QED BY <2>4, <2>5, <2>6
<1> QED BY <1>1, <1>3, <1>4, <1>5, <1>6 DEF ClientStep

-----------------------------------------------------------------------------
(* The steps of the server *)

LEMMA RemoveExpiredKeeps ==
  ASSUME NEW m, NEW o, RemoveExpired(m, o)
  PROVE  DOMAIN items' \subseteq DOMAIN m /\ \A d \in DOMAIN items' : items'[d] = m[d]
BY DEF RemoveExpired

LEMMA PutItemWrites ==
  ASSUME NEW c, NEW s, NEW status, NEW reply, PutItem(c, s, status, reply)
  PROVE  /\ DOMAIN items' \subseteq DOMAIN items \cup {c}
         /\ \A d \in DOMAIN items' :
              IF d = c THEN items'[d] = [seq |-> s, status |-> status, last |-> now, reply |-> reply]
              ELSE items'[d] = items[d]
<1> DEFINE item == [seq |-> s, status |-> status, last |-> LastAfterPut, reply |-> reply]
           m == Put(c, item)
<1>1. DOMAIN m = DOMAIN items \cup {c} /\ \A d \in DOMAIN m : m[d] = IF d = c THEN item ELSE items[d]
  BY DEF Put
<1>2. RemoveExpired(m, OldestAfterPut(c, m))
  BY DEF PutItem
<1> HIDE DEF m
<1>3. DOMAIN items' \subseteq DOMAIN m /\ \A d \in DOMAIN items' : items'[d] = m[d]
  BY <1>2, RemoveExpiredKeeps
<1> QED BY <1>1, <1>3 DEF LastAfterPut

LEMMA FindWrites ==
  ASSUME NEW c, NEW s, Find(c, s)
  PROVE  /\ DOMAIN items' \subseteq DOMAIN items
         /\ \A d \in DOMAIN items' :
              \/ items'[d] = items[d]
              \/ d = c /\ items'[d] = [items[d] EXCEPT !.last = now]
<1>1. CASE UNCHANGED cacheVars
  BY <1>1 DEF cacheVars
<1>2. CASE RemoveExpired(items, oldest)
  BY <1>2, RemoveExpiredKeeps
<1>3. CASE items' = [items EXCEPT ![c].last = now]
  BY <1>3
<1> QED BY <1>1, <1>2, <1>3 DEF Find

\* A write with the number of a request, by the worker that holds it.
LEMMA StoreKept ==
  ASSUME CallInv, NEW t \in Threads, worker[t].pc # "idle",
         NEW status \in {"InProcessing", "Done"}, NEW reply \in {None} \cup Answers,
         PutItem(worker[t].req.from, worker[t].req.seq, status, reply),
         UNCHANGED <<client, execs, now>>,
         status = "Done" => reply \in GoodReplies(worker[t].req.from, worker[t].req.call)
  PROVE  /\ DOMAIN items' \subseteq Clients
         /\ \A d \in DOMAIN items' : items'[d] \in ItemRecords
         /\ \A d \in DOMAIN items' : \/ d \in DOMAIN items /\ items'[d] = items[d]
                                     \/ /\ d = worker[t].req.from /\ items'[d].seq = worker[t].req.seq
                                        /\ ItemOK(d)'
<1> PICK m : m = worker[t].req
  OBVIOUS
<1>1. RequestOK(m) /\ m.seq \in Nat /\ m.from \in Clients
  BY DEF CallInv, WorkerOK, RequestOK, RequestRecords
<1>2. /\ DOMAIN items' \subseteq DOMAIN items \cup {m.from}
      /\ \A d \in DOMAIN items' :
           IF d = m.from
           THEN items'[d] = [seq |-> m.seq, status |-> status, last |-> now, reply |-> reply]
           ELSE items'[d] = items[d]
  BY PutItemWrites
<1>3. now \in Nat /\ ClientOK(m.from) /\ client[m.from] \in ClientRecords
  BY <1>1 DEF CallInv, CallTypes
<1>4. \A d \in DOMAIN items' : items'[d] \in ItemRecords
  BY <1>1, <1>2, <1>3 DEF CallInv, CallTypes, ItemRecords
<1>5. m.from \in DOMAIN items' => ItemOK(m.from)'
  <2> SUFFICES ASSUME m.from \in DOMAIN items', m.seq = client[m.from].seq PROVE ItemOK(m.from)'
    BY <1>2 DEF ItemOK
  <2>1. items'[m.from] = [seq |-> m.seq, status |-> status, last |-> now, reply |-> reply]
    BY <1>2
  <2>2. m.call = client[m.from].call
    BY <1>1 DEF RequestOK
  <2>3. client[m.from].deadline <= now + maxResendTimes
    BY <1>3 DEF ClientOK
  <2>4. client[m.from].deadline \in Nat
    BY <1>3 DEF ClientRecords
  <2>5. items'[m.from].last + maxResendTimes >= client'[m.from].deadline
    BY <1>3, <2>1, <2>3, <2>4, ResendAssumption
  <2>6. status = "Done" => reply \in GoodReplies(m.from, client[m.from].call)'
    BY <2>2 DEF GoodReplies
  <2>7. items'[m.from].status = status /\ items'[m.from].reply = reply
    BY <2>1
  <2> QED BY <2>5, <2>6, <2>7 DEF ItemOK
<1> QED BY <1>1, <1>2, <1>4, <1>5 DEF CallInv, CallTypes

\* A question touches the item it finds.
LEMMA FindKept ==
  ASSUME CallInv, NEW c \in Clients, NEW s, Find(c, s), UNCHANGED <<client, execs, now>>
  PROVE  /\ DOMAIN items' \subseteq DOMAIN items
         /\ \A d \in DOMAIN items' : items'[d] \in ItemRecords /\ items'[d].seq = items[d].seq
         /\ \A d \in DOMAIN items' : items'[d] = items[d] \/ ItemOK(d)'
<1>1. /\ DOMAIN items' \subseteq DOMAIN items
      /\ \A d \in DOMAIN items' :
           items'[d] = items[d] \/ (d = c /\ items'[d] = [items[d] EXCEPT !.last = now])
  BY FindWrites
<1>2. \A d \in DOMAIN items : items[d] \in ItemRecords /\ d \in Clients
  BY DEF CallInv, CallTypes
<1>3. now \in Nat
  BY DEF CallInv, CallTypes
<1>4. ASSUME NEW d \in DOMAIN items' PROVE items'[d] \in ItemRecords /\ items'[d].seq = items[d].seq
  BY <1>1, <1>2, <1>3 DEF ItemRecords
<1>5. ASSUME NEW d \in DOMAIN items', items'[d] # items[d] PROVE ItemOK(d)'
  <2>1. /\ items'[d].seq = items[d].seq /\ items'[d].status = items[d].status
        /\ items'[d].reply = items[d].reply /\ items'[d].last = now
    BY <1>1, <1>2, <1>5 DEF ItemRecords
  <2>2. ItemOK(d) /\ ClientOK(d) /\ d \in DOMAIN items /\ client[d] \in ClientRecords
    BY <1>1, <1>2 DEF CallInv, CallTypes
  <2>3. client[d].deadline <= now + maxResendTimes
    BY <2>2 DEF ClientOK
  <2> QED BY <2>1, <2>2, <2>3 DEF ItemOK, GoodReplies
<1> QED BY <1>1, <1>4, <1>5

\* What is left to show of a step that leaves the clients and the time alone.
LEMMA ServerStepKept ==
  ASSUME CallInv, UNCHANGED <<client, now>>, CallTypes', Grows,
         \A c \in Clients : \A s : Stamped(c, s)' => Stamped(c, s),
         \A m \in net' \ net : ReplyOK(m)',
         \A i \in 1..Len(m_vQueue') :
           \/ \E j \in 1..Len(m_vQueue) : m_vQueue'[i] = m_vQueue[j]
           \/ m_vQueue'[i] \in net /\ m_vQueue'[i].to = "server",
         \A t \in Threads : worker'[t] = worker[t] \/ WorkerOK(t)',
         \A c \in Clients :
           \/ c \in DOMAIN items' => c \in DOMAIN items /\ items'[c] = items[c]
           \/ ItemOK(c)'
  PROVE  CallInv'
<1>1. ASSUME NEW c \in Clients PROVE Quiet(c) /\ ClientOK(c)'
  <2>1. ClientOK(c) /\ client[c] \in ClientRecords /\ now' = now
    BY DEF CallInv, CallTypes
  <2>2. client[c].call \in 1..MaxCalls \/ client[c].call = 0
    BY <2>1, CallsAssumption DEF ClientRecords
  <2>3. client[c].call \in 1..MaxCalls =>
          GoodReplies(c, client[c].call) \subseteq {c} \X {client[c].call} \X (1..execs'[c][client[c].call])
    <3>1. \A k \in 1..MaxCalls : GoodReplies(c, k) \subseteq GoodReplies(c, k)'
      BY RepliesGrow DEF CallInv
    <3> QED BY <3>1 DEF GoodReplies
  <2>4. Quiet(c)
    BY DEF Quiet
  <2>5. client'[c] = client[c]
    OBVIOUS
  <2> QED BY <2>1, <2>2, <2>3, <2>4, <2>5 DEF ClientOK, GoodReplies
<1> QED BY <1>1, QuietKept

LEMMA GrowsIfSame ==
  ASSUME CallInv, execs' = execs
  PROVE  Grows
<1>1. \A d \in Clients : \A j \in 1..MaxCalls : execs[d][j] \in Nat
  BY DEF CallInv, CallTypes
<1> QED BY <1>1 DEF Grows

LEMMA ArriveKept ==
  ASSUME CallInv, Arrive
  PROVE  CallInv'
<1> PICK m \in net : /\ m.to = "server" /\ Deliver(m)
                     /\ m_vQueue' = IF Len(m_vQueue) > MaxQueue THEN m_vQueue ELSE Append(m_vQueue, m)
  BY DEF Arrive
<1>0. /\ client' = client /\ now' = now /\ items' = items /\ worker' = worker /\ execs' = execs
      /\ net' \subseteq net /\ dups' \in Nat /\ m_vQueue \in Seq(RequestRecords)
  BY DEF Arrive, ClientVars, cacheVars, Deliver, CallInv, CallTypes
<1>1. RequestOK(m) /\ m \in RequestRecords
  BY DEF CallInv, MessagesOK, ReplyOK, RequestOK
<1>2. m_vQueue' \in Seq(RequestRecords)
  BY <1>0, <1>1
<1>3. \A i \in 1..Len(m_vQueue') : m_vQueue'[i] = m \/ (i \in 1..Len(m_vQueue) /\ m_vQueue'[i] = m_vQueue[i])
  BY <1>0, <1>1
<1>4. CallTypes'
  BY <1>0, <1>2 DEF CallInv, CallTypes
<1>5. \A c \in Clients : \A s : Stamped(c, s)' => Stamped(c, s)
  BY <1>0, <1>3 DEF Stamped
<1> HIDE DEF CallInv
<1> QED BY <1>0, <1>3, <1>4, <1>5, GrowsIfSame, ServerStepKept

LEMMA TakeKept ==
  ASSUME CallInv, NEW t \in Threads, Take(t)
  PROVE  CallInv'
<1> PICK m : m = Head(m_vQueue)
  OBVIOUS
<1>0. /\ client' = client /\ now' = now /\ items' = items /\ execs' = execs /\ net' = net
      /\ dups' = dups /\ m_vQueue' = Tail(m_vQueue) /\ m_vQueue # <<>>
      /\ m_vQueue \in Seq(RequestRecords) /\ worker \in [Threads -> WorkerRecords]
      /\ worker' = [worker EXCEPT ![t] = [Idle EXCEPT !.pc = "taken", !.req = m]]
  BY DEF Take, ClientVars, cacheVars, QueueAfterTake, CallInv, CallTypes
<1>1. Len(m_vQueue) > 0 /\ m = m_vQueue[1] /\ 1 \in 1..Len(m_vQueue)
  BY <1>0
<1>2. /\ m_vQueue' \in Seq(RequestRecords) /\ Len(m_vQueue') = Len(m_vQueue) - 1
      /\ \A i \in 1..Len(m_vQueue') : m_vQueue'[i] = m_vQueue[i + 1] /\ i + 1 \in 1..Len(m_vQueue)
  BY <1>0, <1>1
<1>3. RequestOK(m) /\ m \in RequestRecords
  BY <1>1 DEF CallInv, QueueOK, RequestOK
<1>4. worker'[t] = [pc |-> "taken", req |-> m, reply |-> None] /\ worker'[t] \in WorkerRecords
  BY <1>0, <1>3 DEF Idle, WorkerRecords
<1>5. \A u \in Threads : u # t => worker'[u] = worker[u]
  BY <1>0
<1>6. WorkerOK(t)'
  BY <1>0, <1>3, <1>4 DEF WorkerOK, RequestOK
<1>7. CallTypes'
  BY <1>0, <1>2, <1>4 DEF CallInv, CallTypes
<1>8. \A c \in Clients : \A s : Stamped(c, s)' => Stamped(c, s)
  BY <1>0, <1>1, <1>2, <1>4, <1>5 DEF Stamped
<1> HIDE DEF CallInv
<1> QED BY <1>0, <1>2, <1>5, <1>6, <1>7, <1>8, GrowsIfSame, ServerStepKept

LEMMA AnswerGetKept ==
  ASSUME CallInv, NEW t \in Threads, AnswerGet(t)
  PROVE  CallInv'
<1> PICK req : req = worker[t].req
  OBVIOUS
<1> DEFINE found == FindResult(req.from, req.seq)
<1> PICK m : m = Reply(req, found.status, found.reply)
  OBVIOUS
<1>0. /\ client' = client /\ now' = now /\ execs' = execs /\ dups' = dups /\ m_vQueue' = m_vQueue
      /\ net' = net \cup {m} /\ worker' = [worker EXCEPT ![t] = Idle]
      /\ worker[t].pc = "taken" /\ req.kind = "get" /\ Find(req.from, req.seq)
  BY DEF AnswerGet, ClientVars
<1>1. RequestOK(req) /\ req.from \in Clients /\ worker \in [Threads -> WorkerRecords]
  BY <1>0 DEF CallInv, WorkerOK, RequestOK, CallTypes
<1>2. /\ DOMAIN items' \subseteq DOMAIN items
      /\ \A d \in DOMAIN items' : items'[d] \in ItemRecords /\ items'[d].seq = items[d].seq
      /\ \A d \in DOMAIN items' : items'[d] = items[d] \/ ItemOK(d)'
  BY <1>0, <1>1, FindKept
<1>3. Idle \in WorkerRecords /\ Idle.pc = "idle"
  BY DEF Idle, Request, WorkerRecords, RequestRecords
<1>4. worker'[t] = Idle /\ worker' \in [Threads -> WorkerRecords]
      /\ \A u \in Threads : u # t => worker'[u] = worker[u]
  BY <1>0, <1>1, <1>3
<1>5. WorkerOK(t)'
  BY <1>3, <1>4 DEF WorkerOK
<1>6. CallTypes'
  BY <1>0, <1>2, <1>4 DEF CallInv, CallTypes
<1>7. /\ m.to = "client" /\ m.from = req.from /\ m.kind = "get" /\ m.seq = req.seq
      /\ m.status = found.status /\ m.reply = found.reply
  BY <1>0 DEF Reply
<1>8. ReplyOK(m)'
  <2> SUFFICES ASSUME m.seq = client[m.from].seq, m.status = "Done"
               PROVE  m.reply \in GoodReplies(m.from, client[m.from].call)
    <3>1. client[m.from].pc = "wait" => m.seq # client[m.from].seq
      BY <1>0, <1>1, <1>7 DEF RequestOK
    <3> QED BY <1>0, <1>1, <1>7, <3>1 DEF ReplyOK, GoodReplies
  <2>1. /\ Known(req.from, req.seq) /\ items[req.from].status = "Done"
        /\ m.reply = items[req.from].reply
    BY <1>7 DEF FindResult, NotFound
  <2>2. ItemOK(req.from)
    BY <1>1 DEF CallInv
  <2> QED BY <1>7, <2>1, <2>2 DEF Known, ItemOK
<1>9. \A c \in Clients : \A s : Stamped(c, s)' => Stamped(c, s)
  <2> SUFFICES ASSUME NEW c \in Clients, NEW s, Stamped(c, s)' PROVE Stamped(c, s)
    OBVIOUS
  <2>0. Stamped(req.from, req.seq)
    BY <1>0 DEF Stamped
  <2>1. CASE \E n \in net' : n.from = c /\ n.seq = s
    <3>1. m.from = req.from /\ m.seq = req.seq /\ net' = net \cup {m}
      BY <1>0, <1>7
    <3> HIDE DEF found
    <3> QED BY <2>0, <2>1, <3>1 DEF Stamped
  <2>2. CASE \E u \in Threads : /\ worker'[u].pc # "idle"
                               /\ worker'[u].req.from = c /\ worker'[u].req.seq = s
    BY <1>3, <1>4, <2>2 DEF Stamped
  <2>3. CASE c \in DOMAIN items' /\ items'[c].seq = s
    BY <1>2, <2>3 DEF Stamped
  <2> QED BY <1>0, <2>1, <2>2, <2>3 DEF Stamped
<1> HIDE DEF CallInv
<1> QED BY <1>0, <1>2, <1>4, <1>5, <1>6, <1>8, <1>9, GrowsIfSame, ServerStepKept

\* The state of a call is written by the worker that holds its request.
LEMMA AddKept ==
  ASSUME CallInv, NEW t \in Threads, AddCall(t)
  PROVE  CallInv'
<1> PICK req : req = worker[t].req
  OBVIOUS
<1> DEFINE w == [worker[t] EXCEPT !.pc = "added"]
<1>0. /\ client' = client /\ now' = now /\ execs' = execs /\ dups' = dups /\ m_vQueue' = m_vQueue
      /\ net' = net /\ worker \in [Threads -> WorkerRecords]
      /\ worker' = [worker EXCEPT ![t] = w]
      /\ worker[t].pc = "taken" /\ req.kind = "cmd" /\ Add(req.from, req.seq)
  BY DEF AddCall, ClientVars, CallInv, CallTypes, WorkerRecords
<1>1. RequestOK(req)
  BY <1>0 DEF CallInv, WorkerOK
<1>2. /\ DOMAIN items' \subseteq Clients
      /\ \A d \in DOMAIN items' : items'[d] \in ItemRecords
      /\ \A d \in DOMAIN items' : \/ d \in DOMAIN items /\ items'[d] = items[d]
                                  \/ /\ d = req.from /\ items'[d].seq = req.seq
                                     /\ ItemOK(d)'
  <2>1. CASE UNCHANGED cacheVars
    BY <2>1 DEF cacheVars, CallInv, CallTypes
  <2>2. CASE PutItem(req.from, req.seq, "InProcessing", None)
    BY <1>0, <2>2, StoreKept
  <2> QED BY <1>0, <2>1, <2>2 DEF Add
<1>3. /\ w \in WorkerRecords /\ w.pc = "added" /\ w.req = req
      /\ worker'[t] = w /\ worker' \in [Threads -> WorkerRecords]
      /\ \A u \in Threads : u # t => worker'[u] = worker[u]
  BY <1>0 DEF WorkerRecords
<1>4. WorkerOK(t)'
  BY <1>0, <1>1, <1>3 DEF WorkerOK, RequestOK
<1>5. CallTypes'
  BY <1>0, <1>2, <1>3 DEF CallInv, CallTypes
<1>6. \A c \in Clients : \A s : Stamped(c, s)' => Stamped(c, s)
  <2> SUFFICES ASSUME NEW c \in Clients, NEW s, Stamped(c, s)' PROVE Stamped(c, s)
    OBVIOUS
  <2>1. Stamped(req.from, req.seq)
    BY <1>0 DEF Stamped
  <2>2. CASE \E u \in Threads : /\ worker'[u].pc # "idle"
                               /\ worker'[u].req.from = c /\ worker'[u].req.seq = s
    BY <1>0, <1>3, <2>2 DEF Stamped
  <2>3. CASE c \in DOMAIN items' /\ items'[c].seq = s
    BY <1>2, <2>1, <2>3 DEF Stamped
  <2> QED BY <1>0, <2>2, <2>3 DEF Stamped
<1> HIDE DEF CallInv
<1> QED BY <1>0, <1>2, <1>3, <1>4, <1>5, <1>6, GrowsIfSame, ServerStepKept

LEMMA ReplyToCallKept ==
  ASSUME CallInv, NEW t \in Threads, ReplyToCall(t)
  PROVE  CallInv'
<1> PICK req : req = worker[t].req
  OBVIOUS
<1> PICK reply : reply = worker[t].reply
  OBVIOUS
<1> PICK m : m = Reply(req, "InProcessing", reply)
  OBVIOUS
<1>0. /\ client' = client /\ now' = now /\ execs' = execs /\ dups' = dups /\ m_vQueue' = m_vQueue
      /\ net' = net \cup {m} /\ worker \in [Threads -> WorkerRecords]
      /\ worker' = [worker EXCEPT ![t] = Idle]
      /\ worker[t].pc = "executed" /\ Update(req.from, req.seq, reply)
  BY DEF ReplyToCall, ClientVars, CallInv, CallTypes
<1>1. /\ RequestOK(req) /\ req.kind = "cmd" /\ req.from \in Clients
      /\ reply \in GoodReplies(req.from, req.call) /\ reply \in {None} \cup Answers
  BY <1>0 DEF CallInv, WorkerOK, RequestOK, WorkerRecords
<1>2. /\ DOMAIN items' \subseteq Clients
      /\ \A d \in DOMAIN items' : items'[d] \in ItemRecords
      /\ \A d \in DOMAIN items' : \/ d \in DOMAIN items /\ items'[d] = items[d]
                                  \/ /\ d = req.from /\ items'[d].seq = req.seq
                                     /\ ItemOK(d)'
  <2>1. CASE UNCHANGED cacheVars
    BY <2>1 DEF cacheVars, CallInv, CallTypes
  <2>2. CASE PutItem(req.from, req.seq, "Done", reply)
    BY <1>0, <1>1, <2>2, StoreKept
  <2> QED BY <1>0, <2>1, <2>2 DEF Update
<1>3. Idle \in WorkerRecords /\ Idle.pc = "idle"
  BY DEF Idle, Request, WorkerRecords, RequestRecords
<1>4. worker'[t] = Idle /\ worker' \in [Threads -> WorkerRecords]
      /\ \A u \in Threads : u # t => worker'[u] = worker[u]
  BY <1>0, <1>3
<1>5. WorkerOK(t)'
  BY <1>3, <1>4 DEF WorkerOK
<1>6. CallTypes'
  BY <1>0, <1>2, <1>4 DEF CallInv, CallTypes
<1>7. /\ m.to = "client" /\ m.from = req.from /\ m.kind = "cmd" /\ m.seq = req.seq
      /\ m.status = "InProcessing" /\ m.reply = reply
  BY <1>1 DEF Reply
<1>8. ReplyOK(m)'
  <2>1. m.seq = client[m.from].seq => m.reply \in GoodReplies(m.from, client[m.from].call)
    BY <1>1, <1>7 DEF RequestOK
  <2> QED BY <1>0, <1>1, <1>7, <2>1 DEF ReplyOK, GoodReplies
<1>9. \A c \in Clients : \A s : Stamped(c, s)' => Stamped(c, s)
  <2> SUFFICES ASSUME NEW c \in Clients, NEW s, Stamped(c, s)' PROVE Stamped(c, s)
    OBVIOUS
  <2>1. Stamped(req.from, req.seq)
    BY <1>0 DEF Stamped
  <2>2. CASE \E n \in net' : n.from = c /\ n.seq = s
    BY <1>0, <1>7, <2>1, <2>2 DEF Stamped
  <2>3. CASE \E u \in Threads : /\ worker'[u].pc # "idle"
                               /\ worker'[u].req.from = c /\ worker'[u].req.seq = s
    BY <1>3, <1>4, <2>3 DEF Stamped
  <2>4. CASE c \in DOMAIN items' /\ items'[c].seq = s
    BY <1>2, <2>1, <2>4 DEF Stamped
  <2> QED BY <1>0, <2>2, <2>3, <2>4 DEF Stamped
<1> HIDE DEF CallInv
<1> QED BY <1>0, <1>2, <1>4, <1>5, <1>6, <1>8, <1>9, GrowsIfSame, ServerStepKept

LEMMA ExecuteKept ==
  ASSUME CallInv, NEW t \in Threads, Execute(t)
  PROVE  CallInv'
<1> PICK req : req = worker[t].req
  OBVIOUS
<1> PICK n : n = execs[req.from][req.call] + 1
  OBVIOUS
<1> DEFINE w == [worker[t] EXCEPT !.pc = "executed", !.reply = <<req.from, req.call, n>>]
<1>0. /\ client' = client /\ now' = now /\ items' = items /\ dups' = dups /\ m_vQueue' = m_vQueue
      /\ net' = net /\ worker \in [Threads -> WorkerRecords]
      /\ worker' = [worker EXCEPT ![t] = w] /\ worker[t].pc = "added"
      /\ execs \in [Clients -> [1..MaxCalls -> Nat]]
      /\ execs' = [execs EXCEPT ![req.from][req.call] = n]
  BY DEF Execute, ClientVars, cacheVars, CallInv, CallTypes, WorkerRecords
<1>1. RequestOK(req) /\ req.kind = "cmd" /\ req.from \in Clients /\ req.call \in 1..MaxCalls
  <2>1. RequestOK(req) /\ req.kind = "cmd"
    BY <1>0 DEF CallInv, WorkerOK
  <2>2. req.from \in Clients /\ client[req.from] \in ClientRecords
    BY <2>1 DEF RequestOK, CallInv, CallTypes
  <2> QED BY <2>1, <2>2, CallsAssumption DEF RequestOK, ClientRecords
<1>2. n \in Nat /\ n > 0 /\ execs'[req.from][req.call] = n
  <2>1. execs[req.from] \in [1..MaxCalls -> Nat] /\ execs[req.from][req.call] \in Nat
    BY <1>0, <1>1
  <2>2. execs'[req.from] = [execs[req.from] EXCEPT ![req.call] = n]
    BY <1>0, <1>1
  <2>3. n \in Nat /\ n > 0
    BY <2>1
  <2> QED BY <1>1, <2>1, <2>2, <2>3
<1>3. /\ w \in WorkerRecords /\ w.pc = "executed" /\ w.req = req
      /\ w.reply = <<req.from, req.call, n>>
      /\ worker'[t] = w /\ worker' \in [Threads -> WorkerRecords]
      /\ \A u \in Threads : u # t => worker'[u] = worker[u]
  <2>1. worker[t] \in WorkerRecords
    BY <1>0
  <2>2. <<req.from, req.call, n>> \in Answers
    BY <1>1, <1>2 DEF Answers
  <2>3. w.pc = "executed" /\ w.req = req /\ w.reply = <<req.from, req.call, n>>
    BY <2>1 DEF WorkerRecords
  <2>4. w \in WorkerRecords
    BY <2>1, <2>2 DEF WorkerRecords
  <2> HIDE DEF w
  <2>5. /\ worker'[t] = w /\ worker' \in [Threads -> WorkerRecords]
        /\ \A u \in Threads : u # t => worker'[u] = worker[u]
    BY <1>0, <2>4
  <2> QED BY <2>3, <2>4, <2>5
<1> HIDE DEF w
<1>4. WorkerOK(t)'
  <2>1. worker'[t].reply \in GoodReplies(req.from, req.call)'
    <3>1. worker'[t].reply = <<req.from, req.call, n>>
      BY <1>3
    <3>2. <<req.from, req.call, n>> \in {req.from} \X {req.call} \X (1..n)
      BY <1>2
    <3> QED BY <1>2, <3>1, <3>2 DEF GoodReplies
  <2>2. RequestOK(req)'
    BY <1>0, <1>1 DEF RequestOK
  <2> QED BY <1>1, <1>3, <2>1, <2>2 DEF WorkerOK
<1>5. execs' \in [Clients -> [1..MaxCalls -> Nat]] /\ Grows
  <2>1. execs' \in [Clients -> [1..MaxCalls -> Nat]]
    BY <1>0, <1>1, <1>2
  <2>2. ASSUME NEW c \in Clients, NEW k \in 1..MaxCalls PROVE execs[c][k] <= execs'[c][k]
    <3>1. execs[c] \in [1..MaxCalls -> Nat] /\ execs[c][k] \in Nat
      BY <1>0
    <3>2. execs'[c][k] = IF c = req.from /\ k = req.call THEN n ELSE execs[c][k]
      BY <1>0, <1>1, <3>1
    <3> QED BY <3>1, <3>2
  <2> QED BY <2>1, <2>2 DEF Grows
<1>6. CallTypes'
  BY <1>0, <1>3, <1>5 DEF CallInv, CallTypes
<1>7. \A c \in Clients : \A s : Stamped(c, s)' => Stamped(c, s)
  <2> SUFFICES ASSUME NEW c \in Clients, NEW s, Stamped(c, s)' PROVE Stamped(c, s)
    OBVIOUS
  <2>1. CASE \E u \in Threads : /\ worker'[u].pc # "idle"
                               /\ worker'[u].req.from = c /\ worker'[u].req.seq = s
    <3>1. PICK u \in Threads : /\ worker'[u].pc # "idle"
                               /\ worker'[u].req.from = c /\ worker'[u].req.seq = s
      BY <2>1
    <3>2. worker[u].pc # "idle" /\ worker[u].req = worker'[u].req
      BY <1>0, <1>3, <3>1
    <3> QED BY <3>1, <3>2 DEF Stamped
  <2> QED BY <1>0, <2>1 DEF Stamped
<1> HIDE DEF CallInv
<1> QED BY <1>0, <1>3, <1>4, <1>5, <1>6, <1>7, ServerStepKept

-----------------------------------------------------------------------------

LEMMA WaitKept ==
  ASSUME CallInv, Wait
  PROVE  CallInv'
<1>0. /\ now' = now + 1 /\ now \in Nat /\ client' = client /\ items' = items /\ worker' = worker
      /\ execs' = execs /\ dups' = dups /\ m_vQueue' = m_vQueue /\ net' = net
  BY DEF Wait, Tick, cacheVars, CallInv, CallTypes
<1>1. CallTypes' /\ Grows
  BY <1>0, GrowsIfSame DEF CallInv, CallTypes
<1>2. ASSUME NEW c \in Clients PROVE Quiet(c) /\ ClientOK(c)'
  <2>1. ClientOK(c) /\ client[c] \in ClientRecords
    BY DEF CallInv, CallTypes
  <2>2. client[c].since \in Nat /\ client[c].deadline \in Nat
    BY <2>1 DEF ClientRecords
  <2>3. /\ c \in Waiting => now < client[c].since + 1
        /\ c \notin Waiting => client[c].pc = "idle"
    BY DEF Wait, timeOut
  <2>4. client[c].pc # "idle" => now + 1 <= client[c].deadline
    BY <1>0, <2>1, <2>2, <2>3 DEF ClientOK, Waiting
  <2>5. client[c].pc \in {"wait", "askwait"} => now + 1 <= client[c].since + 1
    BY <1>0, <2>2, <2>3 DEF Waiting
  <2> QED
    BY <1>0, <2>1, <2>2, <2>4, <2>5, ResendAssumption DEF ClientOK, Quiet, GoodReplies, timeOut
<1>3. \A c \in Clients : \A s : Stamped(c, s)' => Stamped(c, s)
  BY <1>0 DEF Stamped
<1> HIDE DEF CallInv
<1> QED BY <1>0, <1>1, <1>2, <1>3, QuietKept

LEMMA CallInit_Inv == CallInit => CallInv
<1> SUFFICES ASSUME CallInit PROVE CallInv
  OBVIOUS
<1> USE ResendAssumption, CallsAssumption, SeqAssumption, TimeAssumption
<1>1. CallTypes
  <2>1. FirstSeq \in Nat /\ 0 \in 0..MaxCalls /\ 0 \in 0..maxResendTimes
    OBVIOUS
  <2>2. client \in [Clients -> ClientRecords]
    BY <2>1 DEF CallInit, ClientRecords
  <2>3. worker \in [Threads -> WorkerRecords]
    BY DEF CallInit, Idle, Request, WorkerRecords, RequestRecords
  <2> QED BY <2>2, <2>3 DEF CallInit, CacheInit, CallTypes
<1>2. ASSUME NEW c \in Clients PROVE NumbersOK(c) /\ ClientOK(c) /\ ItemOK(c)
  <2>1. ~\E s : Stamped(c, s)
    BY DEF CallInit, CacheInit, Stamped, Idle
  <2>2. 0 \in 0..(SeqMod - 1) /\ SeqAt(0) = FirstSeq
    BY DEF SeqAt
  <2>3. NumbersOK(c)
    BY <2>1, <2>2 DEF CallInit, NumbersOK, SendsOf
  <2>4. ClientOK(c) /\ ItemOK(c)
    BY DEF CallInit, CacheInit, ClientOK, ItemOK
  <2> QED BY <2>3, <2>4
<1> QED BY <1>1, <1>2 DEF CallInit, CallInv, MessagesOK, QueueOK, WorkerOK, Idle

LEMMA CallNext_Inv == CallInv /\ [CallNext]_callVars => CallInv'
<1> SUFFICES ASSUME CallInv, [CallNext]_callVars PROVE CallInv'
  OBVIOUS
<1>1. ASSUME NEW t \in Threads, WorkerStep(t) PROVE CallInv'
  BY <1>1, TakeKept, AnswerGetKept, AddKept, ExecuteKept, ReplyToCallKept DEF WorkerStep
<1>2. CASE UNCHANGED callVars
  <2>1. /\ items' = items /\ now' = now /\ client' = client /\ net' = net /\ dups' = dups
        /\ m_vQueue' = m_vQueue /\ worker' = worker /\ execs' = execs
    BY <1>2 DEF callVars, cacheVars
  <2>2. CallTypes'
    BY <2>1 DEF CallInv, CallTypes
  <2>3. ASSUME NEW c \in Clients PROVE NumbersOK(c)' /\ ClientOK(c)' /\ ItemOK(c)'
    <3>1. NumbersOK(c) /\ ClientOK(c) /\ ItemOK(c)
      BY DEF CallInv
    <3>2. NumbersOK(c)'
      BY <2>1, <3>1 DEF NumbersOK, SendsOf, Stamped
    <3>3. ClientOK(c)' /\ ItemOK(c)'
      BY <2>1, <3>1 DEF ClientOK, ItemOK, GoodReplies
    <3> QED BY <3>2, <3>3
  <2>4. MessagesOK' /\ QueueOK'
    BY <2>1 DEF CallInv, MessagesOK, QueueOK, RequestOK, ReplyOK, GoodReplies
  <2>5. ASSUME NEW t \in Threads PROVE WorkerOK(t)'
    BY <2>1 DEF CallInv, WorkerOK, RequestOK, GoodReplies
  <2> QED BY <2>2, <2>3, <2>4, <2>5 DEF CallInv
<1> QED BY <1>1, <1>2, ClientStepKept, ArriveKept, WaitKept DEF CallNext

LEMMA CallAlways == CallSpec => []CallInv
BY CallInit_Inv, CallNext_Inv, PTL DEF CallSpec

\* A reply that a client takes is one of an execution of the very call that it makes,
\* for any number of clients, workers, duplicates and attempts, as long as a client
\* does not use a number twice.
THEOREM AnswersAreOurs == CallSpec => []AnswerIsOurs
<1>1. CallInv => AnswerIsOurs
  <2> SUFFICES ASSUME CallInv, NEW c \in Clients, client[c].result \notin {None, Pending, TimeOut}
               PROVE  LET r == client[c].result
                      IN  r[1] = c /\ r[2] = client[c].call /\ r[3] \in 1..execs[c][client[c].call]
    BY DEF AnswerIsOurs
  <2>1. client[c].result \in GoodReplies(c, client[c].call)
    BY DEF CallInv, ClientOK
  <2> QED BY <2>1 DEF GoodReplies
<1> QED BY <1>1, CallAlways, PTL

\* An item is never older than the patience of the client that still asks for it: it
\* expires then only if that is no less than the TTL.
THEOREM AskedStays == CallSpec => []AskedIsKept
<1>1. CallInv => AskedIsKept
  <2> SUFFICES ASSUME CallInv, NEW c \in Clients,
                      client[c].pc # "idle", Known(c, client[c].seq), IsExpired(items[c])
               PROVE  TTL <= maxResendTimes * timeOut
    BY DEF AskedIsKept
  <2>1. /\ client[c] \in ClientRecords /\ items[c] \in ItemRecords /\ now \in Nat
        /\ ClientOK(c) /\ ItemOK(c) /\ c \in DOMAIN items
    BY DEF CallInv, CallTypes, Known
  <2>2. /\ now <= client[c].deadline /\ client[c].deadline \in Nat /\ items[c].last \in Nat
        /\ items[c].last + maxResendTimes >= client[c].deadline
    BY <2>1 DEF ClientOK, ItemOK, Known, ClientRecords, ItemRecords
  <2> QED
    BY <2>1, <2>2, ResendAssumption, TimeAssumption DEF IsExpired, timeOut
<1> QED BY <1>1, CallAlways, PTL

-----------------------------------------------------------------------------
(* Counting: the executions of a call and the requests that can still lead to *)
(* one are never more than the attempts and the duplicated datagrams.         *)

IsCommand(m, c, k) == m.to = "server" /\ m.kind = "cmd" /\ m.from = c /\ m.call = k

Flying(c, k) == {m \in net : IsCommand(m, c, k)}
Lined(c, k) == {i \in 1..Len(m_vQueue) : IsCommand(m_vQueue[i], c, k)}
Working(c, k) ==
  {t \in Threads : worker[t].pc \in {"taken", "added"} /\ IsCommand(worker[t].req, c, k)}

Sends(c, k) == IF k = client[c].call THEN client[c].attempt ELSE maxResendTimes

CountOK(c, k) ==
  IF k > client[c].call THEN execs[c][k] = 0
  ELSE execs[c][k] + Cardinality(Flying(c, k)) + Cardinality(Lined(c, k))
         + Cardinality(Working(c, k)) <= dups + Sends(c, k)

CountInv == IsFiniteSet(net) /\ \A c \in Clients : \A k \in 1..MaxCalls : CountOK(c, k)

\* The three sets are finite and their sizes numbers.
LEMMA CountsAreNumbers ==
  ASSUME CallInv, IsFiniteSet(net), NEW c \in Clients, NEW k \in 1..MaxCalls
  PROVE  /\ IsFiniteSet(Flying(c, k)) /\ Cardinality(Flying(c, k)) \in Nat
         /\ IsFiniteSet(Lined(c, k)) /\ Cardinality(Lined(c, k)) \in Nat
         /\ IsFiniteSet(Working(c, k)) /\ Cardinality(Working(c, k)) \in Nat
         /\ execs[c][k] \in Nat /\ dups \in Nat /\ Sends(c, k) \in Nat
         /\ Sends(c, k) <= maxResendTimes
<1>1. IsFiniteSet(Flying(c, k))
  <2>1. Flying(c, k) \subseteq net
    BY DEF Flying
  <2> QED BY <2>1, FS_Subset
<1>2. IsFiniteSet(Lined(c, k))
  <2>1. Len(m_vQueue) \in Nat
    BY DEF CallInv, CallTypes
  <2>2. IsFiniteSet(1..Len(m_vQueue))
    BY <2>1, FS_Interval
  <2>3. Lined(c, k) \subseteq 1..Len(m_vQueue)
    BY DEF Lined
  <2> QED BY <2>2, <2>3, FS_Subset
<1>3. IsFiniteSet(Working(c, k))
  <2>1. Working(c, k) \subseteq Threads
    BY DEF Working
  <2> QED BY <2>1, FS_Subset, CallsAssumption
<1>4. execs[c][k] \in Nat /\ dups \in Nat /\ Sends(c, k) \in 0..maxResendTimes
  <2>1. client[c] \in ClientRecords /\ execs[c] \in [1..MaxCalls -> Nat] /\ dups \in Nat
    BY DEF CallInv, CallTypes
  <2>2. client[c].attempt \in 0..maxResendTimes /\ maxResendTimes \in 0..maxResendTimes
    BY <2>1, ResendAssumption DEF ClientRecords
  <2> QED BY <2>1, <2>2 DEF Sends
<1> QED BY <1>1, <1>2, <1>3, <1>4, FS_CardinalityType, ResendAssumption

\* A set that grows by at most one element.
LEMMA OneMore ==
  ASSUME NEW S, NEW x, NEW T, IsFiniteSet(S), T \subseteq S \cup {x}
  PROVE  IsFiniteSet(T) /\ Cardinality(T) <= Cardinality(S) + 1
<1>1. IsFiniteSet(S \cup {x}) /\ Cardinality(S \cup {x}) <= Cardinality(S) + 1
  <2>1. Cardinality(S \cup {x}) = IF x \in S THEN Cardinality(S) ELSE Cardinality(S) + 1
    BY FS_AddElement
  <2>2. Cardinality(S) \in Nat /\ IsFiniteSet(S \cup {x})
    BY FS_CardinalityType, FS_AddElement
  <2> QED BY <2>1, <2>2
<1>2. IsFiniteSet(T) /\ Cardinality(T) <= Cardinality(S \cup {x}) /\ Cardinality(T) \in Nat
  BY <1>1, FS_Subset, FS_CardinalityType
<1>3. Cardinality(S) \in Nat /\ Cardinality(S \cup {x}) \in Nat
  BY <1>1, FS_CardinalityType
<1> QED BY <1>1, <1>2, <1>3

\* A set that loses an element.
LEMMA OneLess ==
  ASSUME NEW S, NEW x \in S, NEW T, IsFiniteSet(S), T \subseteq S \ {x}
  PROVE  IsFiniteSet(T) /\ Cardinality(T) + 1 <= Cardinality(S)
<1>1. IsFiniteSet(S \ {x}) /\ Cardinality(S \ {x}) = Cardinality(S) - 1
  BY FS_RemoveElement
<1>2. IsFiniteSet(T) /\ Cardinality(T) <= Cardinality(S \ {x})
  BY <1>1, FS_Subset
<1>3. Cardinality(S) \in Nat /\ Cardinality(T) \in Nat /\ Cardinality(S \ {x}) \in Nat
  BY <1>1, <1>2, FS_CardinalityType
<1> QED BY <1>1, <1>2, <1>3

\* When the queue loses its head, its commands move up by one place.
LEMMA LinedAfterTail ==
  ASSUME NEW S, IsFiniteSet(S), S \subseteq Nat, NEW T, \A i \in T : i \in Nat /\ i + 1 \in S
  PROVE  IsFiniteSet(T) /\ Cardinality(T) <= Cardinality(S)
<1> DEFINE f == [i \in T |-> i + 1]
<1>1. f \in Injection(T, S)
  <2>1. f \in [T -> S]
    OBVIOUS
  <2>2. \A a, b \in T : f[a] = f[b] => a = b
    OBVIOUS
  <2> QED BY <2>1, <2>2 DEF Injection, IsInjective
<1> HIDE DEF f
<1> QED BY <1>1, FS_Injection

LEMMA Balance ==
  ASSUME NEW e \in Nat, NEW f \in Nat, NEW l \in Nat, NEW w \in Nat, NEW d \in Nat,
         NEW f1 \in Nat, NEW l1 \in Nat, NEW d1 \in Nat,
         l1 <= l + 1 /\ f1 + d + 1 <= f + d1
  PROVE  e + f1 + l1 + w + d <= e + f + l + w + d1
OBVIOUS

\* The same attempt, and no more load than duplicates pay for.
LEMMA CountStep ==
  ASSUME CallInv, CallInv', IsFiniteSet(net), IsFiniteSet(net)',
         NEW c \in Clients, NEW k \in 1..MaxCalls, CountOK(c, k),
         client'[c].call = client[c].call, client'[c].attempt = client[c].attempt,
         k > client[c].call => execs'[c][k] = execs[c][k],
         execs'[c][k] + Cardinality(Flying(c, k))' + Cardinality(Lined(c, k))'
             + Cardinality(Working(c, k))' + dups
           <= execs[c][k] + Cardinality(Flying(c, k)) + Cardinality(Lined(c, k))
                + Cardinality(Working(c, k)) + dups'
  PROVE  CountOK(c, k)'
<1>1. /\ Cardinality(Flying(c, k)) \in Nat /\ Cardinality(Lined(c, k)) \in Nat
      /\ Cardinality(Working(c, k)) \in Nat /\ execs[c][k] \in Nat /\ dups \in Nat
      /\ Sends(c, k) \in Nat
  BY CountsAreNumbers
<1>2. /\ Cardinality(Flying(c, k))' \in Nat /\ Cardinality(Lined(c, k))' \in Nat
      /\ Cardinality(Working(c, k))' \in Nat /\ execs'[c][k] \in Nat /\ dups' \in Nat
  <2>1. /\ IsFiniteSet(Flying(c, k))' /\ IsFiniteSet(Lined(c, k))' /\ IsFiniteSet(Working(c, k))'
    <3>1. IsFiniteSet(Flying(c, k)')
      <4>1. Flying(c, k)' \subseteq net'
        BY DEF Flying
      <4> QED BY <4>1, FS_Subset
    <3>2. IsFiniteSet(Lined(c, k)')
      <4>1. Len(m_vQueue') \in Nat
        BY DEF CallInv, CallTypes
      <4>2. IsFiniteSet(1..Len(m_vQueue'))
        BY <4>1, FS_Interval
      <4>3. Lined(c, k)' \subseteq 1..Len(m_vQueue')
        BY DEF Lined
      <4> QED BY <4>2, <4>3, FS_Subset
    <3>3. IsFiniteSet(Working(c, k)')
      <4>1. Working(c, k)' \subseteq Threads
        BY DEF Working
      <4> QED BY <4>1, FS_Subset, CallsAssumption
    <3> QED BY <3>1, <3>2, <3>3
  <2>2. execs'[c] \in [1..MaxCalls -> Nat] /\ dups' \in Nat
    BY DEF CallInv, CallTypes
  <2> QED BY <2>1, <2>2, FS_CardinalityType
<1>3. Sends(c, k)' = Sends(c, k)
  BY DEF Sends
<1> QED BY <1>1, <1>2, <1>3 DEF CountOK

\* A step that adds no command, copies none, and executes none.
LEMMA NoNewCommand ==
  ASSUME CallInv, CallInv', IsFiniteSet(net), IsFiniteSet(net)',
         NEW c \in Clients, NEW k \in 1..MaxCalls, CountOK(c, k),
         client'[c].call = client[c].call, client'[c].attempt = client[c].attempt,
         execs' = execs, dups' >= dups,
         Flying(c, k)' \subseteq Flying(c, k), Lined(c, k)' \subseteq Lined(c, k),
         Working(c, k)' \subseteq Working(c, k)
  PROVE  CountOK(c, k)'
<1>1. /\ IsFiniteSet(Flying(c, k)) /\ Cardinality(Flying(c, k)) \in Nat
      /\ IsFiniteSet(Lined(c, k)) /\ Cardinality(Lined(c, k)) \in Nat
      /\ IsFiniteSet(Working(c, k)) /\ Cardinality(Working(c, k)) \in Nat
      /\ execs[c][k] \in Nat /\ dups \in Nat /\ dups' \in Nat
  BY CountsAreNumbers DEF CallInv, CallTypes
<1>2. /\ IsFiniteSet(Flying(c, k)') /\ Cardinality(Flying(c, k)') <= Cardinality(Flying(c, k))
      /\ IsFiniteSet(Lined(c, k)') /\ Cardinality(Lined(c, k)') <= Cardinality(Lined(c, k))
      /\ IsFiniteSet(Working(c, k)') /\ Cardinality(Working(c, k)') <= Cardinality(Working(c, k))
  BY <1>1, FS_Subset
<1>3. /\ Cardinality(Flying(c, k)') \in Nat /\ Cardinality(Lined(c, k)') \in Nat
      /\ Cardinality(Working(c, k)') \in Nat
  BY <1>2, FS_CardinalityType
<1>4. execs'[c][k] + Cardinality(Flying(c, k)') + Cardinality(Lined(c, k)')
             + Cardinality(Working(c, k)') + dups
           <= execs[c][k] + Cardinality(Flying(c, k)) + Cardinality(Lined(c, k))
                + Cardinality(Working(c, k)) + dups'
  BY <1>1, <1>2, <1>3
<1> QED BY <1>4, CountStep

\* A client either sends a command or leaves the commands to the server.
LEMMA ClientStepSplit ==
  ASSUME CallInv, NEW c \in Clients, ClientStep(c)
  PROVE  \/ \E k, attempt : /\ MaySend(c, k, attempt) /\ SendCmd(c, k, attempt)
                            /\ UNCHANGED <<ServerVars, now, dups>>
         \/ /\ UNCHANGED ServerVars /\ dups' >= dups
            /\ \A d \in Clients : client'[d].call = client[d].call /\ client'[d].attempt = client[d].attempt
            /\ \E x : net' \subseteq net \cup {x} /\ (x \notin net => x.kind # "cmd")
<1> USE ResendAssumption
<1> DEFINE Same == \A d \in Clients : client'[d].call = client[d].call
                                      /\ client'[d].attempt = client[d].attempt
           NoCommand == \E x : net' \subseteq net \cup {x} /\ (x \notin net => x.kind # "cmd")
<1>0. /\ client[c] \in ClientRecords /\ dups \in Nat /\ client[c].call \in Nat
      /\ client[c].attempt \in 0..maxResendTimes /\ client \in [Clients -> ClientRecords]
  BY DEF CallInv, CallTypes, ClientRecords
<1>1. CASE StartCall(c)
  <2>1. MaySend(c, client[c].call + 1, 1)
    BY <1>0, <1>1, CallsAssumption DEF StartCall, MaySend
  <2> QED BY <1>1, <2>1 DEF StartCall
<1>2. (net' \subseteq net) => NoCommand
  <2> SUFFICES ASSUME net' \subseteq net PROVE NoCommand
    OBVIOUS
  <2>1. PICK x : x = Request(0, "get", 0, 0)
    OBVIOUS
  <2> QED BY <2>1 DEF Request
<1>3. CASE EndCall(c, TimeOut) /\ UNCHANGED <<ServerVars, now, dups>>
  <2>1. Same
    BY <1>0, <1>3 DEF EndCall, ClientRecords
  <2>2. net' \subseteq net /\ dups' >= dups /\ UNCHANGED ServerVars
    BY <1>0, <1>3 DEF EndCall
  <2> QED BY <1>2, <2>1, <2>2
<1>4. CASE Resend(c)
  <2>1. CASE MayResend(client[c].attempt)
    <3>1. client[c].call > 0
      BY <1>4 DEF CallInv, ClientOK, Resend
    <3>2. MaySend(c, client[c].call, client[c].attempt + 1)
      BY <1>0, <2>1, <3>1 DEF MaySend, MayResend
    <3> QED BY <1>4, <2>1, <3>2 DEF Resend, SendAgain
  <2> QED BY <1>3, <1>4, <2>1 DEF Resend, SendAgain
<1>5. CASE SocketTimeout(c)
  <2>1. Same
    BY <1>0, <1>5 DEF SocketTimeout, ClientRecords
  <2>2. net' \subseteq net /\ dups' >= dups /\ UNCHANGED ServerVars
    BY <1>0, <1>5 DEF SocketTimeout
  <2> QED BY <1>2, <2>1, <2>2
<1>6. CASE Ask(c)
  <2>1. CASE /\ client' = [client EXCEPT ![c].pc = "askwait", ![c].since = now]
             /\ net' = net \cup {Request(c, "get", client[c].seq, client[c].call)}
    <3>1. Same
      BY <1>0, <2>1 DEF ClientRecords
    <3>2. NoCommand
      <4>1. PICK x : x = Request(c, "get", client[c].seq, client[c].call)
        OBVIOUS
      <4>2. x.kind # "cmd"
        BY <4>1 DEF Request
      <4> QED BY <2>1, <4>1, <4>2
    <3>3. dups' >= dups /\ UNCHANGED ServerVars
      BY <1>0, <1>6 DEF Ask
    <3> QED BY <3>1, <3>2, <3>3
  <2> QED BY <1>3, <1>6, <2>1 DEF Ask
<1>7. CASE Receive(c)
  <2>1. net' \subseteq net /\ dups' >= dups /\ UNCHANGED ServerVars
    BY <1>0, <1>7 DEF Receive, Deliver
  <2>2. Same
    <3> PICK m \in net : TakeReply(c, m) \/ TakeStatus(c, m) \/ SkipReply(c, m)
      BY <1>7 DEF Receive
    <3>1. CASE TakeReply(c, m)
      BY <1>0, <3>1 DEF TakeReply, ClientRecords
    <3>2. CASE TakeStatus(c, m)
      BY <1>0, <3>2 DEF TakeStatus, ClientRecords
    <3>3. CASE SkipReply(c, m)
      BY <1>0, <3>3 DEF SkipReply, ClientRecords
    <3> QED BY <3>1, <3>2, <3>3
  <2> QED BY <1>2, <2>1, <2>2
<1> QED BY <1>1, <1>4, <1>5, <1>6, <1>7 DEF ClientStep

\* No command of a call that has not begun is anywhere.
LEMMA NoEarlyCommand ==
  ASSUME CallInv, NEW c \in Clients, NEW k, ~(k <= client[c].call)
  PROVE  Flying(c, k) = {} /\ Lined(c, k) = {} /\ Working(c, k) = {}
<1>1. ASSUME NEW m, RequestOK(m) PROVE ~IsCommand(m, c, k)
  <2>1. m.from = c => m.call \in 1..client[c].call /\ client[c].call \in Nat
    BY <1>1 DEF RequestOK, CallInv, CallTypes, ClientRecords
  <2> QED BY <2>1 DEF IsCommand
<1>2. Flying(c, k) = {}
  BY <1>1 DEF Flying, CallInv, MessagesOK, ReplyOK, IsCommand
<1>3. Lined(c, k) = {}
  BY <1>1 DEF Lined, CallInv, QueueOK
<1>4. Working(c, k) = {}
  <2> SUFFICES ASSUME NEW t \in Working(c, k) PROVE FALSE
    OBVIOUS
  <2>1. RequestOK(worker[t].req)
    BY DEF CallInv, WorkerOK, Working
  <2> QED BY <1>1, <2>1 DEF Working
<1> QED BY <1>2, <1>3, <1>4

\* A command more, and an attempt more.
LEMMA CountAfterSend ==
  ASSUME CallInv, CallInv', CountInv, NEW c \in Clients, NEW k, NEW attempt,
         MaySend(c, k, attempt), SendCmd(c, k, attempt), UNCHANGED <<ServerVars, now, dups>>
  PROVE  CountInv'
<1> USE ResendAssumption, CallsAssumption
<1> PICK req : req = Request(c, "cmd", NextSeq(client[c].seq), k)
  OBVIOUS
<1>0. /\ net' = net \cup {req} /\ m_vQueue' = m_vQueue /\ worker' = worker /\ execs' = execs
      /\ dups' = dups /\ IsFiniteSet(net)
  BY DEF SendCmd, ServerVars, CountInv
<1>1. /\ client'[c].call = k /\ client'[c].attempt = attempt
      /\ \A d \in Clients : d # c => client'[d] = client[d]
      /\ client[c] \in ClientRecords
  BY DEF SendCmd, CallInv, CallTypes
<1>2. client[c].call \in Nat /\ client[c].attempt \in 0..maxResendTimes /\ k \in 1..MaxCalls
  BY <1>1 DEF ClientRecords, MaySend
<1>3. IsFiniteSet(net')
  BY <1>0, OneMore
<1>4. req.kind = "cmd" /\ req.from = c /\ req.call = k
  BY DEF Request
<1>5. ASSUME NEW d \in Clients, NEW j \in 1..MaxCalls, d # c \/ j # k
      PROVE  Flying(d, j)' = Flying(d, j) /\ Lined(d, j)' = Lined(d, j) /\ Working(d, j)' = Working(d, j)
  BY <1>0, <1>4, <1>5 DEF Flying, Lined, Working, IsCommand
<1>6. ASSUME NEW d \in Clients, NEW j \in 1..MaxCalls, d # c PROVE CountOK(d, j)'
  <2>1. CountOK(d, j) /\ client'[d] = client[d]
    BY <1>1, <1>6 DEF CountInv
  <2> QED BY <1>0, <1>5, <1>6, <2>1 DEF CountOK, Sends
<1>7. ASSUME NEW j \in 1..MaxCalls, j # k PROVE CountOK(c, j)'
  <2>1. CountOK(c, j) /\ Sends(c, j) \in Nat /\ Sends(c, j) <= maxResendTimes /\ execs[c][j] \in Nat
        /\ Cardinality(Flying(c, j)) \in Nat /\ Cardinality(Lined(c, j)) \in Nat
        /\ Cardinality(Working(c, j)) \in Nat /\ dups \in Nat
    BY <1>0, CountsAreNumbers DEF CountInv
  <2>2. CASE j > k
    BY <1>0, <1>1, <1>2, <2>1, <2>2 DEF CountOK, MaySend
  <2>3. CASE j < k
    <3>1. Sends(c, j)' = maxResendTimes /\ ~(j > client[c].call)
      BY <1>1, <1>2, <1>7, <2>3 DEF Sends, MaySend
    <3>2. execs[c][j] + Cardinality(Flying(c, j)) + Cardinality(Lined(c, j))
            + Cardinality(Working(c, j)) <= dups + maxResendTimes
      BY <2>1, <3>1 DEF CountOK
    <3> QED BY <1>0, <1>1, <1>2, <1>5, <1>7, <2>3, <3>1, <3>2 DEF CountOK
  <2> QED BY <1>2, <1>7, <2>2, <2>3
<1>8. CountOK(c, k)'
  <2>1. /\ IsFiniteSet(Flying(c, k)) /\ Cardinality(Flying(c, k)) \in Nat
        /\ Cardinality(Lined(c, k)) \in Nat /\ Cardinality(Working(c, k)) \in Nat /\ dups \in Nat
        /\ execs[c][k] \in Nat /\ CountOK(c, k)
    BY <1>0, <1>2, CountsAreNumbers DEF CountInv
  <2>2. Flying(c, k)' \subseteq Flying(c, k) \cup {req}
    BY <1>0 DEF Flying
  <2>3. /\ IsFiniteSet(Flying(c, k)') /\ Cardinality(Flying(c, k)') <= Cardinality(Flying(c, k)) + 1
        /\ Cardinality(Flying(c, k)') \in Nat
    BY <2>1, <2>2, OneMore, FS_CardinalityType
  <2>4. Lined(c, k)' = Lined(c, k) /\ Working(c, k)' = Working(c, k) /\ Sends(c, k)' = attempt
    BY <1>0, <1>1 DEF Lined, Working, Sends
  <2>5. CASE k = client[c].call + 1 /\ attempt = 1
    <3>1. /\ Cardinality(Flying(c, k)) = 0 /\ Cardinality(Lined(c, k)) = 0
          /\ Cardinality(Working(c, k)) = 0
      <4>1. ~(k <= client[c].call)
        BY <1>2, <2>5
      <4>2. Flying(c, k) = {} /\ Lined(c, k) = {} /\ Working(c, k) = {}
        BY <4>1, NoEarlyCommand
      <4> QED BY <4>2, FS_EmptySet
    <3>2. execs[c][k] = 0
      BY <1>2, <2>1, <2>5 DEF CountOK
    <3> QED BY <1>0, <1>1, <1>2, <2>1, <2>3, <2>4, <2>5, <3>1, <3>2 DEF CountOK
  <2>6. CASE k = client[c].call /\ attempt = client[c].attempt + 1
    <3>1. execs[c][k] + Cardinality(Flying(c, k)) + Cardinality(Lined(c, k))
            + Cardinality(Working(c, k)) <= dups + client[c].attempt
      BY <1>2, <2>1, <2>6 DEF CountOK, Sends
    <3> QED BY <1>0, <1>1, <1>2, <2>1, <2>3, <2>4, <2>6, <3>1 DEF CountOK
  <2> QED BY <2>5, <2>6 DEF MaySend
<1> QED BY <1>3, <1>6, <1>7, <1>8 DEF CountInv

\* A request is delivered into the queue, or dropped there.
LEMMA CountAfterArrive ==
  ASSUME CallInv, CallInv', CountInv, Arrive
  PROVE  CountInv'
<1> PICK m \in net : /\ m.to = "server" /\ Deliver(m)
                     /\ m_vQueue' = IF Len(m_vQueue) > MaxQueue THEN m_vQueue ELSE Append(m_vQueue, m)
  BY DEF Arrive
<1>0. /\ client' = client /\ worker' = worker /\ execs' = execs /\ net' \subseteq net
      /\ IsFiniteSet(net) /\ m_vQueue \in Seq(RequestRecords) /\ dups \in Nat
      /\ (net' = net \ {m} /\ dups' = dups) \/ (net' = net /\ dups' = dups + 1)
  BY DEF Arrive, ClientVars, Deliver, CallInv, CallTypes, CountInv
<1>1. IsFiniteSet(net')
  BY <1>0, FS_Subset
<1>2. m \in RequestRecords
  BY DEF CallInv, MessagesOK, ReplyOK, RequestOK
<1>3. /\ Len(m_vQueue') \in {Len(m_vQueue), Len(m_vQueue) + 1} /\ Len(m_vQueue) \in Nat
      /\ \A i \in 1..Len(m_vQueue) : m_vQueue'[i] = m_vQueue[i]
      /\ Len(m_vQueue') = Len(m_vQueue) + 1 => m_vQueue'[Len(m_vQueue) + 1] = m
  BY <1>0, <1>2
<1>4. ASSUME NEW c \in Clients, NEW k \in 1..MaxCalls PROVE CountOK(c, k)'
  <2>1. CountOK(c, k) /\ dups' >= dups
    BY <1>0 DEF CountInv
  <2>2. Flying(c, k)' \subseteq Flying(c, k) /\ Working(c, k)' = Working(c, k)
    BY <1>0 DEF Flying, Working
  <2>3. CASE ~IsCommand(m, c, k)
    <3>1. Lined(c, k)' \subseteq Lined(c, k)
      BY <1>3, <2>3 DEF Lined, IsCommand
    <3> QED BY <1>0, <1>1, <2>1, <2>2, <3>1, NoNewCommand
  <2>4. CASE IsCommand(m, c, k)
    <3>1. Lined(c, k)' \subseteq Lined(c, k) \cup {Len(m_vQueue) + 1}
      BY <1>3 DEF Lined
    <3>2. /\ IsFiniteSet(Flying(c, k)) /\ Cardinality(Flying(c, k)) \in Nat
          /\ IsFiniteSet(Lined(c, k)) /\ Cardinality(Lined(c, k)) \in Nat
          /\ Cardinality(Working(c, k)) \in Nat /\ execs[c][k] \in Nat
      BY <1>0, CountsAreNumbers
    <3>3. /\ IsFiniteSet(Lined(c, k)') /\ Cardinality(Lined(c, k)') <= Cardinality(Lined(c, k)) + 1
          /\ Cardinality(Lined(c, k)') \in Nat
      BY <3>1, <3>2, OneMore, FS_CardinalityType
    <3>4. Cardinality(Flying(c, k)') + dups + 1 <= Cardinality(Flying(c, k)) + dups'
          /\ Cardinality(Flying(c, k)') \in Nat
      <4>1. CASE net' = net \ {m} /\ dups' = dups
        <5>1. m \in Flying(c, k) /\ Flying(c, k)' \subseteq Flying(c, k) \ {m}
          BY <2>4, <4>1 DEF Flying
        <5>2. IsFiniteSet(Flying(c, k)') /\ Cardinality(Flying(c, k)') + 1 <= Cardinality(Flying(c, k))
          BY <3>2, <5>1, OneLess
        <5>3. Cardinality(Flying(c, k)') \in Nat
          BY <5>2, FS_CardinalityType
        <5> QED BY <1>0, <3>2, <4>1, <5>2, <5>3
      <4>2. CASE net' = net /\ dups' = dups + 1
        <5>1. Flying(c, k)' = Flying(c, k)
          BY <4>2 DEF Flying
        <5> QED BY <1>0, <3>2, <4>2, <5>1
      <4> QED BY <1>0, <4>1, <4>2
    <3>5. dups' \in Nat
      BY <1>0
    <3>6. execs'[c][k] + Cardinality(Flying(c, k)') + Cardinality(Lined(c, k)')
             + Cardinality(Working(c, k)') + dups
           <= execs[c][k] + Cardinality(Flying(c, k)) + Cardinality(Lined(c, k))
                + Cardinality(Working(c, k)) + dups'
      <4>1. Cardinality(Working(c, k)') = Cardinality(Working(c, k)) /\ execs'[c][k] = execs[c][k]
        BY <1>0, <2>2
      <4> PICK e \in Nat, f \in Nat, l \in Nat, w \in Nat, d \in Nat :
               /\ e = execs[c][k] /\ f = Cardinality(Flying(c, k)) /\ l = Cardinality(Lined(c, k))
               /\ w = Cardinality(Working(c, k)) /\ d = dups
        BY <1>0, <3>2
      <4> PICK f1 \in Nat, l1 \in Nat, d1 \in Nat :
               f1 = Cardinality(Flying(c, k)') /\ l1 = Cardinality(Lined(c, k)') /\ d1 = dups'
        BY <3>3, <3>4, <3>5
      <4>2. l1 <= l + 1 /\ f1 + d + 1 <= f + d1
        BY <3>3, <3>4
      <4>3. e + f1 + l1 + w + d <= e + f + l + w + d1
        BY <4>2, Balance, Zenon
      <4> QED BY <4>1, <4>3
    <3> QED BY <1>0, <1>1, <2>1, <3>6, CountStep
  <2> QED BY <2>3, <2>4
<1> QED BY <1>1, <1>4 DEF CountInv

\* A worker takes the head of the queue.
LEMMA CountAfterTake ==
  ASSUME CallInv, CallInv', CountInv, NEW t \in Threads, Take(t)
  PROVE  CountInv'
<1> PICK m : m = Head(m_vQueue)
  OBVIOUS
<1>0. /\ client' = client /\ execs' = execs /\ net' = net /\ dups' = dups
      /\ IsFiniteSet(net) /\ m_vQueue' = Tail(m_vQueue) /\ m_vQueue # <<>>
      /\ m_vQueue \in Seq(RequestRecords) /\ dups \in Nat
      /\ worker \in [Threads -> WorkerRecords] /\ worker[t].pc = "idle"
      /\ worker' = [worker EXCEPT ![t] = [Idle EXCEPT !.pc = "taken", !.req = m]]
  BY DEF Take, ClientVars, QueueAfterTake, CallInv, CallTypes, CountInv
<1>1. Len(m_vQueue) > 0 /\ m = m_vQueue[1] /\ 1 \in 1..Len(m_vQueue) /\ Len(m_vQueue) \in Nat
  BY <1>0
<1>2. /\ Len(m_vQueue') = Len(m_vQueue) - 1
      /\ \A i \in 1..Len(m_vQueue') : m_vQueue'[i] = m_vQueue[i + 1] /\ i + 1 \in 1..Len(m_vQueue)
  BY <1>0, <1>1
<1>3. /\ worker'[t].pc = "taken" /\ worker'[t].req = m
      /\ \A u \in Threads : u # t => worker'[u] = worker[u]
  BY <1>0 DEF Idle
<1>4. ASSUME NEW c \in Clients, NEW k \in 1..MaxCalls PROVE CountOK(c, k)'
  <2>1. CountOK(c, k) /\ Flying(c, k)' = Flying(c, k) /\ execs'[c][k] = execs[c][k]
    BY <1>0 DEF CountInv, Flying
  <2>2. /\ Cardinality(Flying(c, k)) \in Nat
        /\ IsFiniteSet(Lined(c, k)) /\ Cardinality(Lined(c, k)) \in Nat
        /\ IsFiniteSet(Working(c, k)) /\ Cardinality(Working(c, k)) \in Nat /\ execs[c][k] \in Nat
    BY <1>0, CountsAreNumbers
  <2>3. \A i \in Lined(c, k)' : i \in Nat /\ i + 1 \in Lined(c, k) \ {1}
    BY <1>1, <1>2 DEF Lined
  <2>4. Lined(c, k) \subseteq Nat
    BY DEF Lined
  <2>5. Cardinality(Lined(c, k)') + Cardinality(Working(c, k)')
          <= Cardinality(Lined(c, k)) + Cardinality(Working(c, k))
    <3>1. CASE IsCommand(m, c, k)
      <4>1. 1 \in Lined(c, k)
        BY <1>1, <3>1 DEF Lined
      <4>2. IsFiniteSet(Lined(c, k) \ {1})
            /\ Cardinality(Lined(c, k) \ {1}) + 1 <= Cardinality(Lined(c, k))
            /\ Cardinality(Lined(c, k) \ {1}) \in Nat
        BY <2>2, <4>1, OneLess, FS_CardinalityType
      <4>3. IsFiniteSet(Lined(c, k)') /\ Cardinality(Lined(c, k)') <= Cardinality(Lined(c, k) \ {1})
        BY <2>3, <2>4, <4>2, LinedAfterTail
      <4>4. Working(c, k)' \subseteq Working(c, k) \cup {t}
        BY <1>3 DEF Working
      <4>5. IsFiniteSet(Working(c, k)') /\ Cardinality(Working(c, k)') <= Cardinality(Working(c, k)) + 1
        BY <2>2, <4>4, OneMore
      <4>6. Cardinality(Lined(c, k)') \in Nat /\ Cardinality(Working(c, k)') \in Nat
        BY <4>3, <4>5, FS_CardinalityType
      <4> QED BY <2>2, <4>2, <4>3, <4>5, <4>6
    <3>2. CASE ~IsCommand(m, c, k)
      <4>1. IsFiniteSet(Lined(c, k)') /\ Cardinality(Lined(c, k)') <= Cardinality(Lined(c, k))
        <5>1. \A i \in Lined(c, k)' : i \in Nat /\ i + 1 \in Lined(c, k)
          BY <2>3
        <5> QED BY <2>2, <2>4, <5>1, LinedAfterTail
      <4>2. Working(c, k)' \subseteq Working(c, k)
        BY <1>3, <3>2 DEF Working, IsCommand
      <4>3. IsFiniteSet(Working(c, k)') /\ Cardinality(Working(c, k)') <= Cardinality(Working(c, k))
        BY <2>2, <4>2, FS_Subset
      <4>4. Cardinality(Lined(c, k)') \in Nat /\ Cardinality(Working(c, k)') \in Nat
        BY <4>1, <4>3, FS_CardinalityType
      <4> QED BY <2>2, <4>1, <4>3, <4>4
    <3> QED BY <3>1, <3>2
  <2>6. Cardinality(Lined(c, k)') \in Nat /\ Cardinality(Working(c, k)') \in Nat
    <3>1. IsFiniteSet(Lined(c, k)')
      <4>1. \A i \in Lined(c, k)' : i \in Nat /\ i + 1 \in Lined(c, k)
        BY <2>3
      <4> QED BY <2>2, <2>4, <4>1, LinedAfterTail
    <3>2. IsFiniteSet(Working(c, k)')
      <4>1. Working(c, k)' \subseteq Threads
        BY DEF Working
      <4> QED BY <4>1, FS_Subset, CallsAssumption
    <3> QED BY <3>1, <3>2, FS_CardinalityType
  <2>7. execs'[c][k] + Cardinality(Flying(c, k)') + Cardinality(Lined(c, k)')
           + Cardinality(Working(c, k)') + dups
         <= execs[c][k] + Cardinality(Flying(c, k)) + Cardinality(Lined(c, k))
              + Cardinality(Working(c, k)) + dups'
    <3>1. Cardinality(Flying(c, k)') = Cardinality(Flying(c, k)) /\ dups' = dups
      BY <1>0, <2>1
    <3> DEFINE e == execs[c][k]
               f == Cardinality(Flying(c, k))
               l == Cardinality(Lined(c, k))
               w == Cardinality(Working(c, k))
               e1 == execs'[c][k]
               f1 == Cardinality(Flying(c, k)')
               l1 == Cardinality(Lined(c, k)')
               w1 == Cardinality(Working(c, k)')
    <3>2. /\ e \in Nat /\ f \in Nat /\ l \in Nat /\ w \in Nat /\ l1 \in Nat /\ w1 \in Nat
          /\ dups \in Nat
      BY <1>0, <2>2, <2>6
    <3>3. e1 = e /\ f1 = f /\ l1 + w1 <= l + w /\ dups' = dups
      BY <2>1, <2>5, <3>1
    <3> HIDE DEF e, f, l, w, e1, f1, l1, w1
    <3>4. e1 + f1 + l1 + w1 + dups <= e + f + l + w + dups'
      BY <3>2, <3>3
    <3> QED BY <3>4 DEF e, f, l, w, e1, f1, l1, w1
  <2>8. IsFiniteSet(net)' /\ client'[c].call = client[c].call /\ client'[c].attempt = client[c].attempt
    BY <1>0
  <2> QED BY <1>0, <2>1, <2>7, <2>8, CountStep
<1> QED BY <1>0, <1>4 DEF CountInv

\* A request turns into an execution.
LEMMA CountAfterExecute ==
  ASSUME CallInv, CallInv', CountInv, NEW t \in Threads, Execute(t)
  PROVE  CountInv'
<1> PICK req : req = worker[t].req
  OBVIOUS
<1>0. /\ client' = client /\ net' = net /\ dups' = dups /\ m_vQueue' = m_vQueue
      /\ IsFiniteSet(net) /\ dups \in Nat
      /\ worker \in [Threads -> WorkerRecords] /\ worker[t].pc = "added"
      /\ worker'[t].pc = "executed" /\ worker'[t].req = req
      /\ \A u \in Threads : u # t => worker'[u] = worker[u]
      /\ execs \in [Clients -> [1..MaxCalls -> Nat]]
      /\ execs' = [execs EXCEPT ![req.from][req.call] = execs[req.from][req.call] + 1]
  BY DEF Execute, ClientVars, CallInv, CallTypes, CountInv, WorkerRecords
<1>1. RequestOK(req) /\ req.kind = "cmd" /\ req.to = "server"
  BY <1>0 DEF CallInv, WorkerOK, RequestOK, RequestRecords
<1>2. /\ req.from \in Clients /\ req.call \in 1..MaxCalls /\ req.call <= client[req.from].call
      /\ client[req.from].call \in Nat
  <2>1. req.from \in Clients /\ client[req.from] \in ClientRecords
    BY <1>1 DEF RequestOK, CallInv, CallTypes
  <2> QED BY <1>1, <2>1, CallsAssumption DEF RequestOK, ClientRecords
<1>3. ASSUME NEW c \in Clients, NEW k \in 1..MaxCalls PROVE CountOK(c, k)'
  <2>1. /\ CountOK(c, k) /\ Flying(c, k)' = Flying(c, k) /\ Lined(c, k)' = Lined(c, k)
    BY <1>0 DEF CountInv, Flying, Lined
  <2>2. CASE c = req.from /\ k = req.call
    <3>1. /\ Cardinality(Flying(c, k)) \in Nat /\ Cardinality(Lined(c, k)) \in Nat
          /\ IsFiniteSet(Working(c, k)) /\ Cardinality(Working(c, k)) \in Nat /\ execs[c][k] \in Nat
      BY <1>0, CountsAreNumbers
    <3>2. t \in Working(c, k) /\ Working(c, k)' \subseteq Working(c, k) \ {t}
      BY <1>0, <1>1, <2>2 DEF Working, IsCommand
    <3>3. /\ IsFiniteSet(Working(c, k)') /\ Cardinality(Working(c, k)') + 1 <= Cardinality(Working(c, k))
          /\ Cardinality(Working(c, k)') \in Nat
      BY <3>1, <3>2, OneLess, FS_CardinalityType
    <3>4. execs'[c][k] = execs[c][k] + 1
      <4>1. execs[c] \in [1..MaxCalls -> Nat]
        BY <1>0
      <4>2. execs'[c] = [execs[c] EXCEPT ![k] = execs[c][k] + 1]
        BY <1>0, <2>2
      <4> QED BY <4>1, <4>2
    <3>5. execs'[c][k] + Cardinality(Flying(c, k)') + Cardinality(Lined(c, k)')
             + Cardinality(Working(c, k)') + dups
           <= execs[c][k] + Cardinality(Flying(c, k)) + Cardinality(Lined(c, k))
                + Cardinality(Working(c, k)) + dups'
      <4>1. /\ Cardinality(Flying(c, k)') = Cardinality(Flying(c, k))
            /\ Cardinality(Lined(c, k)') = Cardinality(Lined(c, k)) /\ dups' = dups
        BY <1>0, <2>1
      <4> DEFINE e == execs[c][k]
                 f == Cardinality(Flying(c, k))
                 l == Cardinality(Lined(c, k))
                 w == Cardinality(Working(c, k))
                 e1 == execs'[c][k]
                 f1 == Cardinality(Flying(c, k)')
                 l1 == Cardinality(Lined(c, k)')
                 w1 == Cardinality(Working(c, k)')
      <4>2. e \in Nat /\ f \in Nat /\ l \in Nat /\ w \in Nat /\ w1 \in Nat /\ dups \in Nat
        BY <1>0, <3>1, <3>3
      <4>3. e1 = e + 1 /\ f1 = f /\ l1 = l /\ w1 + 1 <= w /\ dups' = dups
        BY <3>3, <3>4, <4>1
      <4> HIDE DEF e, f, l, w, e1, f1, l1, w1
      <4>4. e1 + f1 + l1 + w1 + dups <= e + f + l + w + dups'
        BY <4>2, <4>3
      <4> QED BY <4>4 DEF e, f, l, w, e1, f1, l1, w1
    <3>6. IsFiniteSet(net)' /\ client'[c].call = client[c].call /\ client'[c].attempt = client[c].attempt
          /\ ~(k > client[c].call)
      BY <1>0, <1>2, <2>2
    <3> QED BY <1>0, <2>1, <3>5, <3>6, CountStep
  <2>3. CASE c # req.from \/ k # req.call
    <3>1. Working(c, k)' = Working(c, k)
      BY <1>0, <2>3 DEF Working, IsCommand
    <3>2. execs'[c][k] = execs[c][k]
      <4>1. execs[c] \in [1..MaxCalls -> Nat]
        BY <1>0
      <4> QED BY <1>0, <1>2, <2>3, <4>1
    <3> QED BY <1>0, <2>1, <3>1, <3>2 DEF CountOK, Sends
  <2> QED BY <2>2, <2>3
<1> QED BY <1>0, <1>3 DEF CountInv

LEMMA CountNext ==
  ASSUME CallInv, CallInv', CountInv, [CallNext]_callVars
  PROVE  CountInv'
<1>0. IsFiniteSet(net) /\ dups \in Nat /\ dups' \in Nat
  BY DEF CountInv, CallInv, CallTypes
<1>1. ASSUME NEW x, net' \subseteq net \cup {x}, x \notin net => x.kind # "cmd" \/ x.to # "server",
             m_vQueue' = m_vQueue, execs' = execs, dups' >= dups,
             \A t \in Threads : \/ worker'[t] = worker[t]
                                \/ worker'[t].pc = "idle"
                                \/ /\ worker'[t].pc = "added" /\ worker[t].pc = "taken"
                                   /\ worker'[t].req = worker[t].req,
             \A d \in Clients : client'[d].call = client[d].call /\ client'[d].attempt = client[d].attempt
      PROVE  CountInv'
  <2>1. IsFiniteSet(net')
    BY <1>0, <1>1, OneMore
  <2>2. ASSUME NEW c \in Clients, NEW k \in 1..MaxCalls PROVE CountOK(c, k)'
    <3>1. Flying(c, k)' \subseteq Flying(c, k)
      BY <1>1 DEF Flying, IsCommand
    <3>2. Lined(c, k)' \subseteq Lined(c, k)
      BY <1>1 DEF Lined
    <3>3. Working(c, k)' \subseteq Working(c, k)
      BY <1>1 DEF Working, IsCommand
    <3>4. CountOK(c, k)
      BY DEF CountInv
    <3> QED BY <1>0, <1>1, <2>1, <3>1, <3>2, <3>3, <3>4, NoNewCommand
  <2> QED BY <2>1, <2>2 DEF CountInv
<1>2. ASSUME NEW c \in Clients, ClientStep(c) PROVE CountInv'
  <2>1. CASE \E k, attempt : /\ MaySend(c, k, attempt) /\ SendCmd(c, k, attempt)
                             /\ UNCHANGED <<ServerVars, now, dups>>
    BY <2>1, CountAfterSend
  <2>2. CASE /\ UNCHANGED ServerVars /\ dups' >= dups
             /\ \A d \in Clients : client'[d].call = client[d].call /\ client'[d].attempt = client[d].attempt
             /\ \E x : net' \subseteq net \cup {x} /\ (x \notin net => x.kind # "cmd")
    <3>1. worker' = worker /\ m_vQueue' = m_vQueue /\ execs' = execs
      BY <2>2 DEF ServerVars
    <3> QED BY <1>1, <2>2, <3>1
  <2> QED BY <1>2, <2>1, <2>2, ClientStepSplit
<1>3. ASSUME NEW t \in Threads, AnswerGet(t) PROVE CountInv'
  <2> DEFINE found == FindResult(worker[t].req.from, worker[t].req.seq)
  <2> PICK x : x = Reply(worker[t].req, found.status, found.reply)
    OBVIOUS
  <2>1. /\ net' = net \cup {x} /\ worker' = [worker EXCEPT ![t] = Idle] /\ client' = client
        /\ m_vQueue' = m_vQueue /\ execs' = execs /\ dups' = dups
        /\ worker \in [Threads -> WorkerRecords]
    BY <1>3 DEF AnswerGet, ClientVars, CallInv, CallTypes
  <2>2. x.to = "client"
    BY DEF Reply
  <2>3. \A u \in Threads : worker'[u] = worker[u] \/ worker'[u].pc = "idle"
    BY <2>1 DEF Idle
  <2> HIDE DEF found
  <2>4. net' \subseteq net \cup {x} /\ (x \notin net => x.kind # "cmd" \/ x.to # "server")
    BY <2>1, <2>2
  <2>5. m_vQueue' = m_vQueue /\ execs' = execs /\ dups' >= dups
    BY <1>0, <2>1
  <2>6. \A u \in Threads : \/ worker'[u] = worker[u]
                            \/ worker'[u].pc = "idle"
                            \/ /\ worker'[u].pc = "added" /\ worker[u].pc = "taken"
                               /\ worker'[u].req = worker[u].req
    BY <2>3
  <2>7. \A d \in Clients : client'[d].call = client[d].call /\ client'[d].attempt = client[d].attempt
    BY <2>1
  <2> QED BY <1>1, <2>4, <2>5, <2>6, <2>7
<1>4. ASSUME NEW t \in Threads, ReplyToCall(t) PROVE CountInv'
  <2> PICK x : x = Reply(worker[t].req, "InProcessing", worker[t].reply)
    OBVIOUS
  <2>1. /\ net' = net \cup {x} /\ worker' = [worker EXCEPT ![t] = Idle] /\ client' = client
        /\ m_vQueue' = m_vQueue /\ execs' = execs /\ dups' = dups
        /\ worker \in [Threads -> WorkerRecords]
    BY <1>4 DEF ReplyToCall, ClientVars, CallInv, CallTypes
  <2>2. x.to = "client"
    BY DEF Reply
  <2>3. \A u \in Threads : worker'[u] = worker[u] \/ worker'[u].pc = "idle"
    BY <2>1 DEF Idle
  <2>4. net' \subseteq net \cup {x} /\ (x \notin net => x.kind # "cmd" \/ x.to # "server")
    BY <2>1, <2>2
  <2>5. m_vQueue' = m_vQueue /\ execs' = execs /\ dups' >= dups
    BY <1>0, <2>1
  <2>6. \A u \in Threads : \/ worker'[u] = worker[u]
                            \/ worker'[u].pc = "idle"
                            \/ /\ worker'[u].pc = "added" /\ worker[u].pc = "taken"
                               /\ worker'[u].req = worker[u].req
    BY <2>3
  <2>7. \A d \in Clients : client'[d].call = client[d].call /\ client'[d].attempt = client[d].attempt
    BY <2>1
  <2> QED BY <1>1, <2>4, <2>5, <2>6, <2>7
<1>5. ASSUME NEW t \in Threads, AddCall(t) PROVE CountInv'
  <2>1. /\ net' = net /\ client' = client /\ m_vQueue' = m_vQueue /\ execs' = execs /\ dups' = dups
        /\ worker[t].pc = "taken" /\ worker' = [worker EXCEPT ![t].pc = "added"]
        /\ worker \in [Threads -> WorkerRecords]
    BY <1>5 DEF AddCall, ClientVars, CallInv, CallTypes
  <2>2. \A u \in Threads : worker'[u] = worker[u] \/ (u = t /\ worker'[u].pc = "added"
                                                      /\ worker'[u].req = worker[u].req)
    BY <2>1 DEF WorkerRecords
  <2>3. PICK x : x = Request(0, "get", 0, 0)
    OBVIOUS
  <2>4. x.kind # "cmd"
    BY <2>3 DEF Request
  <2> QED BY <1>0, <1>1, <2>1, <2>2, <2>4
<1>6. CASE Wait \/ UNCHANGED callVars
  <2>1. /\ net' = net /\ client' = client /\ m_vQueue' = m_vQueue /\ execs' = execs /\ dups' = dups
        /\ worker' = worker
    BY <1>6 DEF Wait, callVars
  <2>2. PICK x : x = Request(0, "get", 0, 0)
    OBVIOUS
  <2>3. x.kind # "cmd"
    BY <2>2 DEF Request
  <2> QED BY <1>0, <1>1, <2>1, <2>3
<1>7. ASSUME NEW t \in Threads, WorkerStep(t) PROVE CountInv'
  BY <1>3, <1>4, <1>5, <1>7, CountAfterTake, CountAfterExecute DEF WorkerStep
<1> QED BY <1>2, <1>6, <1>7, CountAfterArrive DEF CallNext

LEMMA CountInit == CallInit => CountInv
<1> SUFFICES ASSUME CallInit PROVE CountInv
  OBVIOUS
<1>1. IsFiniteSet(net) /\ CallInv
  BY CallInit_Inv, FS_EmptySet DEF CallInit
<1>2. ASSUME NEW c \in Clients, NEW k \in 1..MaxCalls PROVE CountOK(c, k)
  <2>1. execs[c][k] = 0 /\ client[c].call = 0 /\ k > 0
    BY DEF CallInit
  <2> QED BY <2>1 DEF CountOK
<1> QED BY <1>1, <1>2 DEF CountInv

\* A call is not executed more often than it was sent and its datagrams duplicated, for
\* any number of clients and workers.
THEOREM ExecutionsAreBounded == CallSpec => []ExecutionsBounded
<1>1. CallInv /\ CountInv => ExecutionsBounded
  <2> SUFFICES ASSUME CallInv, CountInv, NEW c \in Clients, NEW k \in 1..client[c].call
               PROVE  execs[c][k] <= dups + (IF k = client[c].call THEN client[c].attempt ELSE maxResendTimes)
    BY DEF ExecutionsBounded
  <2>1. client[c].call \in Nat /\ k \in 1..MaxCalls /\ ~(k > client[c].call)
    BY CallsAssumption DEF CallInv, CallTypes, ClientRecords
  <2>2. /\ Cardinality(Flying(c, k)) \in Nat /\ Cardinality(Lined(c, k)) \in Nat
        /\ Cardinality(Working(c, k)) \in Nat /\ execs[c][k] \in Nat /\ dups \in Nat
        /\ Sends(c, k) \in Nat
    BY <2>1, CountsAreNumbers DEF CountInv
  <2>3. execs[c][k] <= dups + Sends(c, k)
    BY <2>1, <2>2 DEF CountInv, CountOK
  <2> QED BY <2>3 DEF Sends
<1>2. CallInv /\ CountInv /\ [CallNext]_callVars => (CallInv /\ CountInv)'
  BY CallNext_Inv, CountNext
<1>3. CallInit => CallInv /\ CountInv
  BY CallInit_Inv, CountInit
<1> QED BY <1>1, <1>2, <1>3, PTL DEF CallSpec

=============================================================================
