---------------------------- MODULE MCHttpServer ----------------------------
(* Three connections for a listener and one or two slots more: one is refused, or
   takes the descriptor and the slot of one that left. *)
EXTENDS HttpServer
=============================================================================
