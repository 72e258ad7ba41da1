------------------------------- MODULE MCLists -------------------------------
(* Three calls on a list of at most two items, of which one fits the row,
   through four versions. *)
EXTENDS Lists, TLC

CONSTANTS c1, c2, c3, t

ThreeCalls == {c1, c2, c3}
OneText    == {t}
Symmetric  == Permutations(ThreeCalls)
=============================================================================
