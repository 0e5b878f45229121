---------------------------- MODULE VideoArchive ----------------------------
(***************************************************************************)
(* What the recorder promises whoever copies its videos.                   *)
(*                                                                         *)
(* The camera films, one buffer after the other.  Now and then a clip is   *)
(* published: the buffers from some earlier one up to the newest, later    *)
(* than every clip before it and under a later name.  Published clips are  *)
(* never changed or removed, and no buffer is in two of them.              *)
(***************************************************************************)
EXTENDS Integers

VARIABLES end,      \* buffers filmed; they are numbered from zero
          archive   \* published clips, by name

vars == <<end, archive>>

Init == end = 0 /\ archive = <<>>

Film == end' = end + 1

\* The clip ends before the buffer that comes in as it is published.
Publish(t, from) ==
    /\ \A u \in DOMAIN archive : u < t /\ archive[u].to < from
    /\ archive' = [u \in DOMAIN archive \cup {t} |->
                      IF u = t THEN [from |-> from, to |-> end - 1] ELSE archive[u]]

Next == Film /\ (UNCHANGED archive \/ \E t \in DOMAIN archive', from \in 0 .. end - 1 : Publish(t, from))

Spec == Init /\ [][Next]_vars
=============================================================================
