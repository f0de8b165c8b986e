----------------------------- MODULE Selection -----------------------------
(***************************************************************************)
(* A part of a sequence in its order, named by the places it is taken from:*)
(* a form that can be reasoned about where SelectSeq, which is recursive,  *)
(* cannot.                                                                 *)
(***************************************************************************)
EXTENDS Naturals, Sequences, FiniteSets

\* The numbers of P in ascending order.
InOrder(P) ==
  [n \in 1..Cardinality(P) |-> CHOOSE i \in P : Cardinality({j \in P : j <= i}) = n]

\* The elements of seq at the places P.
Selected(seq, P) ==
  LET places == InOrder(P)
  IN  [n \in DOMAIN places |-> seq[places[n]]]
=============================================================================
