---------------------------- MODULE MCLifecycle ----------------------------
(* Two buffers in a pool, so that one is lost and one left. *)
EXTENDS Lifecycle
=============================================================================
