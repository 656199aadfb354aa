---------------------------- MODULE MCAdmission ----------------------------
(***************************************************************************)
(* Small instances of Admission.  The conversations that are not broken    *)
(* are interchangeable where symmetry is used: all or none of them are     *)
(* shared, and all or none of them may be held by another process.         *)
(***************************************************************************)
EXTENDS Admission, TLC

Symmetry == Permutations(Convs \ Broken)

\* All but the history variables, which SubmissionOrder and RunsAreLoaded do
\* not read.
View == <<disp, disk, mem, run, flags, queue, lock, sched, stopping, deleting, clock, crashes>>
=============================================================================
