------------------------------- MODULE MCCall -------------------------------
(***************************************************************************)
(* One client and two workers; every execution of a command makes a reply  *)
(* of its own.                                                             *)
(***************************************************************************)
EXTENDS Call

MCReplies == Clients \X (1..MaxCalls) \X (1..(maxResendTimes + MaxDups))

\* Two calls and a duplicate until the time 5; after it only a first call with no duplicate,
\* which then has the time to use all its attempts.  A behaviour that this bound stops is
\* not fair (time stands still), so that it does not count against CallEnds.
Bound == now <= 5 \/ (dups = 0 /\ \A c \in Clients : client[c].call <= 1)

MCSpec == CallInit /\ [][CallNext /\ Bound']_callVars /\ CallFairness
=============================================================================
