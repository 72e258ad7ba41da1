---------------------------- MODULE MCGroupKeys ----------------------------
(* Three people and two documents of different owners; the runs that look for
   a counterexample make do with two people and one document. *)
EXTENDS GroupKeys

CONSTANTS u1, u2, u3, o1, o2

ThreeUsers == {u1, u2, u3}
TwoUsers   == {u1, u2}
OneObject  == {o1}
TwoObjects == {o1, o2}
OneOwner   == [o \in OneObject |-> u1]
TwoOwners  == [o \in TwoObjects |-> IF o = o1 THEN u1 ELSE u2]
=============================================================================
