---------------------------- MODULE MCEventLog ----------------------------
(***************************************************************************)
(* A small instance of EventLog: processes and events are interchangeable. *)
(***************************************************************************)
EXTENDS EventLog, TLC

Symmetry == Permutations(Procs) \cup Permutations(Events)
=============================================================================
