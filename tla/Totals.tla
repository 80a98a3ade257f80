------------------------------- MODULE Totals -------------------------------
(***************************************************************************)
(* The sum of a function with natural values, without recursion: each      *)
(* element x of the domain contributes f[x] distinct units, and the sum is *)
(* the number of units.  Written this way it is an operator about which    *)
(* the theorems of FiniteSetTheorems can be used (see ArithmeticProofs).   *)
(***************************************************************************)
EXTENDS Integers, FiniteSets

Units(f) == UNION {{x} \X (1 .. f[x]) : x \in DOMAIN f}

Total(f) == Cardinality(Units(f))
=============================================================================
