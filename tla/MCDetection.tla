---------------------------- MODULE MCDetection -----------------------------
(* Five frames and two detections a second, so that a detection takes two or
   three callbacks; a region with a left-over row and one without, so far down
   that a mix of the two has a negative height. *)
EXTENDS Detection
Upper == [start |-> 0, end |-> 3]
Lower == [start |-> 12, end |-> 14]
SomeRegions == {Upper, Lower}
=============================================================================
