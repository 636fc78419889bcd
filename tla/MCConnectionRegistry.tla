-------------------------- MODULE MCConnectionRegistry --------------------------
(* Instances of ConnectionRegistry for TLC.  Which object or engine is      *)
(* created next does not matter, nor which thread does what.                *)
EXTENDS ConnectionRegistry, TLC

Symmetry ==
  Permutations(Threads) \cup Permutations(Keys)
    \cup Permutations(Conns) \cup Permutations(Engines)

=============================================================================
