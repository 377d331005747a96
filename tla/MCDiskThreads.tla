---------------------------- MODULE MCDiskThreads ----------------------------
(* Two I/O threads serve a reader and a writer, or a reader and unlinks.   *)
(* There is one descriptor, so that open() fails while it is in use and a  *)
(* closed one is given out again; two requests make the queue overlong.    *)
EXTENDS DiskThreads

CONSTANTS a, b, u

MCModeOf == [s \in Sio |-> IF s = a THEN "read" ELSE "write"]
MCWorkloads == {{a, b}, {a, u}}
=============================================================================
