-------------------------- MODULE SharedExclusive --------------------------
(***************************************************************************)
(* What a shared/exclusive lock promises its users: at any time it is held *)
(* either by one process exclusively or by any number of processes in      *)
(* shared mode.  Acquiring is one step and may be refused at any time (a   *)
(* refusal changes nothing, so it is a stuttering step here); an exclusive *)
(* holder may turn its lock into a shared one without letting another      *)
(* exclusive holder in between.                                            *)
(*                                                                         *)
(* Ipc::ReadWriteLock (module ReadWriteLock) implements this specification.*)
(***************************************************************************)
CONSTANT Procs

VARIABLE mode   \* mode[p]: how process p holds the lock

Modes == {"none", "shared", "exclusive"}

Init == mode = [p \in Procs |-> "none"]

AcquireShared(p) ==
    /\ mode[p] = "none"
    /\ \A q \in Procs : mode[q] # "exclusive"
    /\ mode' = [mode EXCEPT ![p] = "shared"]

AcquireExclusive(p) ==
    /\ \A q \in Procs : mode[q] = "none"
    /\ mode' = [mode EXCEPT ![p] = "exclusive"]

Release(p) ==
    /\ mode[p] # "none"
    /\ mode' = [mode EXCEPT ![p] = "none"]

Downgrade(p) ==
    /\ mode[p] = "exclusive"
    /\ mode' = [mode EXCEPT ![p] = "shared"]

Next ==
    \E p \in Procs :
        AcquireShared(p) \/ AcquireExclusive(p) \/ Release(p) \/ Downgrade(p)

Spec == Init /\ [][Next]_mode
============================================================================
