----------------------------- MODULE MCStoreMap -----------------------------
(* Model checking of StoreMap: a slot shared by a few kids.                *)
EXTENDS StoreMap, TLC

\* Kids are interchangeable, and so are the keys of the slot.
Symmetry == Permutations(Kids) \cup Permutations(Keys)
=============================================================================
