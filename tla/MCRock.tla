---- MODULE MCRock ----
EXTENDS Rock

MCSlotOf == [k \in Key |-> 1]

(* Cell 2 may hold an entry that belongs into slot 1: the size of the      *)
(* cache_dir has been changed.                                             *)
MCScenarios == {[cells |-> [s \in Slot |-> [key |-> "a", ver |-> IF s = 1 THEN 1 ELSE sc[1]]],
                 faults |-> sc[2]] : sc \in {<<0, 1>>, <<2, 0>>}}
====
