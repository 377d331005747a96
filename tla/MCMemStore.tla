----------------------------- MODULE MCMemStore -----------------------------
(* Model values and symmetry for model-checking MemStore. *)
EXTENDS MemStore, TLC

Symmetry == Permutations(Kids) \cup Permutations(Keys) \cup Permutations(Pages)
=============================================================================
