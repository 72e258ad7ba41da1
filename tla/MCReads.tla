------------------------------- MODULE MCReads -------------------------------
(* A parent with up to three resources, one of which is the parent of another
   one.  The full-text select finds up to four objects, the vector select one. *)
EXTENDS Reads

CONSTANTS p, a, b, c, none

FourObjects == {p, a, b, c}
Possible    == {<<p, a>>, <<p, b>>, <<p, c>>, <<a, b>>}
Before      == {<<>>, <<<<p, a>>, <<p, b>>>>, <<<<p, c>>, <<p, b>>, <<p, a>>>>, <<<<a, b>>, <<p, a>>>>}
TwoMemos    == {p, b}
Ages        == [o \in FourObjects |-> IF o = p THEN 1 ELSE 2]
=============================================================================
