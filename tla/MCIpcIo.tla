------------------------------ MODULE MCIpcIo ------------------------------
(* Model values and symmetry for model-checking IpcIo. *)
EXTENDS IpcIo, TLC

PageSymmetry == Permutations(Pages)
=============================================================================
