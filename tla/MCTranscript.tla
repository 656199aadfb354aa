---------------------------- MODULE MCTranscript ----------------------------
(***************************************************************************)
(* A small instance of Transcript.  The history variables are read by      *)
(* RunOnce alone, and only before the first crash.                         *)
(***************************************************************************)
EXTENDS Transcript

View == <<log, mem, disk, depth, dirty, owner, run, client, crashes, faults,
          IF crashes = 0 THEN <<ran, lost>> ELSE <<>> >>
=============================================================================
