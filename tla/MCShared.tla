------------------------------ MODULE MCShared ------------------------------
(***************************************************************************)
(* An instance of the three structures that the workers of the server      *)
(* share, each under a mutex of its own: the cache of replies, the caches  *)
(* of the storage, and the pool of coders.  None of them calls another, so *)
(* that in a run only one of them leaves its initial state: what TLC sees  *)
(* is the sum of their states and not the product.                         *)
(***************************************************************************)
EXTENDS OpenConsCache, Caches, CoderPool, TLC

SharedInit == CacheInit /\ CachesInit /\ PoolInit

RepliesAreNew == CacheInit /\ UNCHANGED <<cacheVars, now>>
CachesAreNew == CachesInit /\ UNCHANGED cachesVars
PoolIsNew == PoolInit /\ UNCHANGED poolVars

\* The part that moves comes last: it is not worked out when another one has moved.
SharedNext ==
  \/ CachesAreNew /\ PoolIsNew /\ CacheNext
  \/ RepliesAreNew /\ PoolIsNew /\ CachesNext
  \/ RepliesAreNew /\ CachesAreNew /\ PoolNext

sharedVars == <<cacheVars, now, cachesVars, poolVars>>
SharedSpec == SharedInit /\ [][SharedNext]_sharedVars

\* The clients are not interchangeable: the map orders them.  The workers and the threads
\* are, but leaving them out is faster.
Symmetry == Permutations(Numbers)
=============================================================================
