-------------------------- MODULE MCReadWriteLock --------------------------
(* Model checking of ReadWriteLock with a few kid processes.               *)
EXTENDS ReadWriteLock
============================================================================
