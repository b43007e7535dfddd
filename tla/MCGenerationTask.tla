-------------------------- MODULE MCGenerationTask --------------------------
(***************************************************************************)
(* Small instances of GenerationTask for TLC.                              *)
(***************************************************************************)
EXTENDS GenerationTask, TLC

CONSTANTS u1, s1, s2, t1, t2, r1, r2, w1, w2


(* Every task belongs to the same user, who can pay for one of them at a   *)
(* time, and is created in the same session, or in one of its own.         *)
SameOwner       == [t \in Tasks |-> u1]
SameSession     == [t \in Tasks |-> s1]

OneImage  == [t \in Tasks |-> 1]
TwoImages == [t \in Tasks |-> 2]
Uneven    == [t \in Tasks |-> IF t = t1 THEN 1 ELSE 3]

Symmetry == Permutations(Workers) \cup Permutations(Requests)

=============================================================================
