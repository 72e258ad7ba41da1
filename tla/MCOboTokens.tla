----------------------------- MODULE MCOboTokens -----------------------------
(* Two logins, two pushes and two requests at a time on two emails, one of
   them invited, beginning with an empty registry; a token with an id and an
   approval, one with neither, and a receipt. *)
EXTENDS OboTokens, TLC

CONSTANTS e1, e2, i1, i2, l1, l2, s1, s2, r1, r2, t1, t2, w1

TwoEmails   == {e1, e2}
TwoIds      == {i1, i2}
TwoLogins   == {l1, l2}
TwoSyncs    == {s1, s2}
TwoRequests == {r1, r2}
OboTokensOf == {t1, t2}
OneReceipt  == {w1}
WithoutId   == {t2}
ForWrites   == {t1}
Nobodies    == {}
Guests      == {e2}
ClaimsOf    == [t \in OboTokensOf |-> [email |-> e1, sub |-> i1]]
ExpiryOf    == [t \in OboTokensOf \cup OneReceipt |-> 1]
Symmetric   == Permutations(TwoLogins) \cup Permutations(TwoSyncs) \cup Permutations(TwoRequests)
=============================================================================
