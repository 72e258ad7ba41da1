----------------------------- MODULE MCUploads -----------------------------
(* Two PUTs with different bodies and three finalize calls: enough for two
   calls that overlap and one retry after them. *)
EXTENDS Uploads

CONSTANTS p1, p2, f1, f2, f3

TwoPuts    == {p1, p2}
ThreeCalls == {f1, f2, f3}
=============================================================================
