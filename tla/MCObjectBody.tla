---------------------------- MODULE MCObjectBody ----------------------------
(* Three updates and two groups: two updates that race each other and the
   migration, and one after them. *)
EXTENDS ObjectBody

CONSTANTS w1, w2, w3, g1, g2

ThreeWriters == {w1, w2, w3}
TwoGroups    == {g1, g2}
=============================================================================
