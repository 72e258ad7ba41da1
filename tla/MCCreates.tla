----------------------------- MODULE MCCreates ------------------------------
(* Three requests with one key, two of them with an embedding, and one with
   another key; room for two objects and one embedding call per window. *)
EXTENDS Creates

CONSTANTS r1, r2, r3, r4, k1, k2

FourRequests == {r1, r2, r3, r4}
TwoKeys      == {k1, k2}
Headers      == [r \in FourRequests |-> IF r = r4 THEN k2 ELSE k1]
Embedded     == {r1, r2, r4}
=============================================================================
