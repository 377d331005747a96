--------------------------------- MODULE Kids ---------------------------------
(***************************************************************************)
(* The master process and its kids: watch_child() in main.cc with the      *)
(* Kid and Kids classes of ipc/.  A kid is a worker, a disker or the       *)
(* Coordinator.  proc is what the kernel knows of the processes; kids is   *)
(* what the master has recorded of them, and lags behind.                  *)
(***************************************************************************)
EXTENDS Naturals, FiniteSets

CONSTANTS
    Kid,             \* names of kids
    badFailureLimit  \* frequent failures after which a kid is given up

VARIABLES
    master,          \* where watch_child() is
    shutting_down,   \* set by the SIGUSR1 of a kid that shuts down
    kids,            \* Kid objects: isRunning, pid, badFailures, status
    proc,            \* processes: alive, told to shut down, how they ended
    crashes          \* bound: deaths still to come, orderly exits apart

kidVars == <<master, shutting_down, kids, proc, crashes>>

ExitStatus == {"none", "happy", "error", "forced"}

Configured == DOMAIN kids

KidsTypeOK ==
    /\ Configured \subseteq Kid
    /\ master \in {"starting", "waiting", "exited", "aborted"}
    /\ shutting_down \in BOOLEAN
    /\ kids \in [Configured -> [isRunning: BOOLEAN, pid: Nat, badFailures: Nat,
                         status: ExitStatus]]
    /\ proc \in [Configured -> [alive: BOOLEAN, told: BOOLEAN, exit: ExitStatus,
                         fast: BOOLEAN]]
    /\ crashes \in Nat

(* Kids::init() makes a record for every kid of the configuration.        *)
KidsInit(configured, maxCrashes) ==
    /\ master = "starting"
    /\ shutting_down = FALSE
    /\ kids = [k \in configured |-> [isRunning |-> FALSE, pid |-> 0,
                                     badFailures |-> 0, status |-> "none"]]
    /\ proc = [k \in configured |-> [alive |-> FALSE, told |-> FALSE, exit |-> "none",
                              fast |-> FALSE]]
    /\ crashes = maxCrashes

-----------------------------------------------------------------------------

hopeless(kid) == kid.badFailures > badFailureLimit

(* Faulty: a kid that crashed is final like one that exited.               *)
shouldRestartFinal(kid, stopping) ==
    ~(kid.isRunning \/ kid.status # "none" \/ hopeless(kid) \/ stopping)

(* Faulty: the shutdown of the whole system is not looked at.              *)
shouldRestartAlways(kid, stopping) ==
    ~(kid.isRunning \/ kid.status = "forced" \/ hopeless(kid))

shouldRestart(kid, stopping) ==
    ~ \/ kid.isRunning
      \/ kid.status \in {"happy", "forced"}
      \/ hopeless(kid)
      \/ stopping

(* The body of the restart loop.  A failed fork() returns -1, which        *)
(* assert(cpid > 0) in Kid::start() turns into the end of the master.      *)
StartKids ==
    /\ master = "starting"
    /\ LET due == {k \in Configured : shouldRestart(kids[k], shutting_down)}
       IN  \E started \in SUBSET due :
              /\ master' = IF started = due THEN "waiting" ELSE "aborted"
              /\ kids' = [k \in Configured |-> IF k \in started
                             THEN [kids[k] EXCEPT !.isRunning = TRUE, !.pid = @ + 1]
                             ELSE kids[k]]
              /\ proc' = [k \in Configured |-> IF k \in started
                             THEN [proc[k] EXCEPT !.alive = TRUE] ELSE proc[k]]
    /\ UNCHANGED <<shutting_down, crashes>>

(* Kid::stop(): fast says whether the kid lived less than                  *)
(* fastFailureTimeLimit.                                                   *)
stop(kid, p) == [kid EXCEPT !.isRunning = FALSE, !.status = p.exit,
                            !.badFailures = IF p.fast THEN @ + 1 ELSE 0]

(* Faulty: the master leaves when nobody is to be restarted.               *)
CollectKidsFaulty ==
    /\ master = "waiting"
    /\ LET dead == {k \in Configured : kids[k].isRunning /\ ~proc[k].alive}
       IN  /\ dead # {}
           /\ kids' = [k \in Configured |-> IF k \in dead THEN stop(kids[k], proc[k])
                                             ELSE kids[k]]
           /\ master' = IF \E k \in Configured : shouldRestart(kids'[k], shutting_down)
                        THEN "starting" ELSE "exited"
    /\ UNCHANGED <<shutting_down, proc, crashes>>

(* waitpid() blocks until a kid is dead; the loop around it then collects  *)
(* every dead kid, and the master exits or sleeps before it restarts some. *)
CollectKids ==
    /\ master = "waiting"
    /\ LET dead == {k \in Configured : kids[k].isRunning /\ ~proc[k].alive}
           after == [k \in Configured |-> IF k \in dead THEN stop(kids[k], proc[k]) ELSE kids[k]]
       IN  /\ dead # {}
           /\ kids' = after
           /\ master' = IF \A k \in Configured : /\ ~after[k].isRunning
                                          /\ ~shouldRestart(after[k], shutting_down)
                        THEN "exited" ELSE "starting"
    /\ UNCHANGED <<shutting_down, proc, crashes>>

(* A kid process ends; the master does not know yet.                       *)
Ends(k, how, isFast) ==
    proc' = [proc EXCEPT ![k] = [alive |-> FALSE, told |-> FALSE, exit |-> how,
                                 fast |-> isFast]]

(* An unhandled error or a signal ends kid k at any time.                  *)
Crash(k) ==
    /\ proc[k].alive
    /\ crashes > 0
    /\ crashes' = crashes - 1
    /\ \E how \in {"error", "forced"}, isFast \in BOOLEAN : Ends(k, how, isFast)
    /\ UNCHANGED <<master, shutting_down, kids>>

(* The kid's event loop has stopped after a shutdown signal.               *)
OrderlyExit(k) ==
    /\ proc[k].alive /\ proc[k].told
    /\ \E isFast \in BOOLEAN : Ends(k, "happy", isFast)
    /\ UNCHANGED <<master, shutting_down, kids, crashes>>

-----------------------------------------------------------------------------

(* The master never calls waitpid() without a child, whose -1 would fail   *)
(* the assert(pid > 0) of Kids::find(), and it does not exit while a kid   *)
(* process lives, however deaths, restarts and shutdown interleave.        *)
MasterWatches ==
    /\ master = "waiting" => \E k \in Configured : kids[k].isRunning
    /\ master = "exited" => \A k \in Configured : ~proc[k].alive

(* A kid that crashed and has not failed fast too often.                   *)
DueForRestart(k) == /\ k \in Configured
                    /\ ~proc[k].alive /\ proc[k].exit = "error"
                    /\ ~hopeless(kids[k])

(* The restart loop brings a crashed kid back, or finds it hopeless, unless *)
(* the system shuts down or the master itself is gone.                     *)
CrashedKidRestarts ==
    \A k \in Kid :
        DueForRestart(k) ~> \/ ~DueForRestart(k)
                            \/ shutting_down \/ master \in {"exited", "aborted"}

=============================================================================
