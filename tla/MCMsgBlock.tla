----------------------------- MODULE MCMsgBlock -----------------------------
(* A block of a few messages; fresh memory holds no record. *)
EXTENDS MsgBlock, TLC

CONSTANT Junk

Noise == [k \in 1..RecLen |-> Junk]
JunkHeap == {Noise}

Symmetry == Permutations(Ids)
=============================================================================
