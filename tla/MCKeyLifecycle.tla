-------------------------- MODULE MCKeyLifecycle --------------------------
(* Instances of KeyLifecycle for TLC. *)
EXTENDS KeyLifecycle, TLC

(* No definition tells two keys apart, and both identities need one. *)
Symmetry == Permutations(Keys) \union Permutations(Identities)
===========================================================================
