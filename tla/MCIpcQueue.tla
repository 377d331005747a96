----------------------------- MODULE MCIpcQueue -----------------------------
(* Model checking of IpcQueue: two writers with small rings.  The values   *)
(* of items are only copied, so they are symmetric.                        *)
EXTENDS IpcQueue, TLC

ValueSymmetry == Permutations(Values)
=============================================================================
