----------------------------- MODULE MCRecorder -----------------------------
(* The recorder on small instances: groups of two or three frames, two groups of
   lingering as in the code. *)
EXTENDS Recorder
=============================================================================
