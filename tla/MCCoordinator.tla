---- MODULE MCCoordinator ----
EXTENDS Coordinator

MCDbOf == [d \in {2} |-> "rock"]

MCWorkloads == {[asks |-> "open", max |-> 0, crashes |-> 1, kids |-> {1, 2, 4}],
                [asks |-> "listen", max |-> 2, crashes |-> 1, kids |-> {1, 4}],
                [asks |-> "mgr", max |-> 1, crashes |-> 0, kids |-> {1, 2, 4}],
                [asks |-> "stop", max |-> 0, crashes |-> 2, kids |-> {1, 4}]}
====
