------------------------------- MODULE MCRefs -------------------------------
(* Two calls at a time on two skills, one of them still to be created, a doc
   they share and a doc of another user.  The references close a cycle of two
   (s2, d) and one of three (s1, d, s2). *)
EXTENDS Refs, TLC

CONSTANTS c1, c2, s1, s2, d, f, g1

TwoCalls     == {c1, c2}
OneDoc       == {d}
TwoSkills    == {s1, s2}
Unborn       == {s2}
SharedByThem == {f}
OneGroup     == {g1}
Deleted      == {d}
Symmetric    == Permutations(TwoCalls)
Wanted       == {Resource(s1, d), Resource(s2, d), Resource(s1, f),
                 [from |-> d, to |-> s2, role |-> "references"],
                 [from |-> s2, to |-> s1, role |-> "depends_on"]}
FromBefore   == [s \in TwoSkills |-> IF s = s1 THEN {d} ELSE {}]
=============================================================================
