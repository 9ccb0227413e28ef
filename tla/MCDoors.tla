------------------------------ MODULE MCDoors ------------------------------
(* Small instances of Doors for TLC. *)
EXTENDS Doors

EveryOp == OnThreads \cup OnTasks
=============================================================================
