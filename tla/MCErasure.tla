----------------------------- MODULE MCErasure -----------------------------
(* Two objects and a batch of one: the job has to choose, and the queue holds
   what it did not choose. *)
EXTENDS Erasure

CONSTANTS o1, o2

TwoObjects == {o1, o2}
=============================================================================
