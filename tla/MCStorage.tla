------------------------------ MODULE MCStorage ------------------------------
(* Two workers on two numbers: every pair of calls, on one number or on both. *)
EXTENDS Storage, TLC

\* A number whose id deciphers with a wrong pin is the only one there is.
OneFits ==
  \A n \in DOMAIN config : config[n].id # {config[n].pin} => DOMAIN config = {n}

Symmetry == Permutations(Workers) \cup Permutations(Numbers) \cup Permutations(Pins)
=============================================================================
