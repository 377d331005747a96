----------------------------- MODULE MCPagePool -----------------------------
(* Model checking of PagePool: three pages for two purposes, so that two   *)
(* kids can both pass the test for the only page of a purpose.             *)
EXTENDS PagePool

MCPurposes == {"cachePage", "ioPage"}
MCPageLimit == [cachePage |-> 2, ioPage |-> 1]
============================================================================
