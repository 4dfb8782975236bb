-------------------------------- MODULE Tally --------------------------------
(***************************************************************************)
(* The sum of the values of a function, natural numbers, as the number of  *)
(* units they have together: what one value more or less does to the sum   *)
(* follows from the laws of cardinalities, without a recursion.            *)
(***************************************************************************)
EXTENDS Integers, FiniteSets

Units(f) == UNION {{x} \X (1 .. f[x]) : x \in DOMAIN f}

SumOf(f) == Cardinality(Units(f))
=============================================================================
