---------------------------- MODULE MCProcesses ----------------------------
(* Two workers with one engine each, which is replaced once in all. There is no *)
(* symmetry set: liveness is checked.                                           *)
EXTENDS Processes
=============================================================================
