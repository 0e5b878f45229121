--------------------------- MODULE MCRequestLoop ---------------------------
(* Three requests: one is kept, two can both be with the encoder.  Every second
   frame is checked; a recording lasts two frames after motion.  One signal, at
   any point and to any thread. *)
EXTENDS RequestLoop
=============================================================================
