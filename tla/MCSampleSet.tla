----------------------------- MODULE MCSampleSet -----------------------------
(* SampleSet on a small instance. *)
EXTENDS SampleSet

CONSTANTS ifOne, ifTwo, grpA, grpB
=============================================================================
