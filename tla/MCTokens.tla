------------------------------ MODULE MCTokens ------------------------------
(* Three requests, two of them in one process; one family and room for two
   rotations; a client that owns the family and one that does not; one code. *)
EXTENDS Tokens, TLC

CONSTANTS p1, p2, r1, r2, r3, k1, k2, k3, t1, t2, t3, a, b, c1

TwoProcs   == {p1, p2}
Three      == {r1, r2, r3}
Serves     == [r \in Three |-> IF r = r3 THEN p2 ELSE p1]
ThreeKids  == {k1, k2, k3}
ThreeTokens == {t1, t2, t3}
Old        == {t1}
TwoClients == {a, b}
Owners     == [t \in Old |-> a]
OneCode    == {c1}
Symmetric  == Permutations(ThreeKids) \cup Permutations({t2, t3})
=============================================================================
