------------------------------ MODULE MCParts ------------------------------
(***************************************************************************)
(* An instance of the parts that one thread works in at a time: a block of *)
(* messages with crashes between its writes, the repository with its       *)
(* config file, the files of an account, the facade of the client, and the *)
(* string.  None of them calls another here, so that in a run only one of  *)
(* them leaves its initial state: what TLC sees is the sum of their states *)
(* and not the product.                                                    *)
(***************************************************************************)
EXTENDS MCMsgBlock, Repository, AccountFiles, ZsClient, ZorgeString

BlockIsNew == Init /\ UNCHANGED vars
RepositoryIsNew == RepositoryInit /\ UNCHANGED repositoryVars
AccountIsNew == AccountInit /\ UNCHANGED accountVars
ClientIsNew == ZsInit /\ UNCHANGED zsVars
StringIsNew == StringInit /\ UNCHANGED str

PartsInit == Init /\ RepositoryInit /\ AccountInit /\ ZsInit /\ StringInit

\* The part that moves comes last: it is not worked out when another one has moved.
PartsNext ==
  \/ RepositoryIsNew /\ AccountIsNew /\ ClientIsNew /\ StringIsNew /\ Next
  \/ BlockIsNew /\ AccountIsNew /\ ClientIsNew /\ StringIsNew /\ RepositoryNext
  \/ BlockIsNew /\ RepositoryIsNew /\ ClientIsNew /\ StringIsNew /\ AccountNext
  \/ BlockIsNew /\ RepositoryIsNew /\ AccountIsNew /\ StringIsNew /\ ZsNext
  \/ BlockIsNew /\ RepositoryIsNew /\ AccountIsNew /\ ClientIsNew /\ StringNext

partsVars == <<vars, repositoryVars, accountVars, zsVars, str>>
PartsSpec == PartsInit /\ [][PartsNext]_partsVars

\* Of the block and of the files of an account; the other parts are small.
PartsSymmetry == Symmetry \cup Permutations(AccountPins) \cup Permutations(AccountTokens)
=============================================================================
