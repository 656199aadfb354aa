---------------------------- MODULE MCSessionRun ----------------------------
(***************************************************************************)
(* Small instances of SessionRun.  Requests are interchangeable, and so    *)
(* are run tasks.                                                          *)
(***************************************************************************)
EXTENDS SessionRun, TLC

Symmetry == Permutations(Clients) \cup Permutations(Tasks)
=============================================================================
