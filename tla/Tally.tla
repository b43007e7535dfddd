-------------------------------- MODULE Tally --------------------------------
(***************************************************************************)
(* Sums of natural numbers, as the number of coins that make up the        *)
(* values of a function.  A fold would say the same to TLC, but what it    *)
(* computes can only be proved by an induction that is out of the prover's *)
(* reach, while the number of elements of a set can be reasoned about.     *)
(***************************************************************************)
EXTENDS Integers, FiniteSets

Coins(f) == UNION {{x} \X (1..f[x]) : x \in DOMAIN f}

Tally(f) == Cardinality(Coins(f))

=============================================================================
