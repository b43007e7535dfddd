--------------------------- MODULE MCManualReview ---------------------------
(***************************************************************************)
(* Small instances of ManualReview for TLC.                                *)
(***************************************************************************)
EXTENDS ManualReview, TLC

CONSTANTS u1, s1, s2, t1, t2, r1, w1, w2, d1, d2

SameOwner       == [t \in Tasks |-> u1]
SameSession     == [t \in Tasks |-> s1]
OneImage        == [t \in Tasks |-> 1]
TwoImages       == [t \in Tasks |-> 2]

=============================================================================
