---------------------------- MODULE Exponential ----------------------------
(***************************************************************************)
(* Fixed point arithmetic of contracts/Utils/Exponential.sol and           *)
(* ExponentialNoError.sol.  A mantissa is a natural number that stands for *)
(* mantissa / expScale; every operation truncates, and the order in which  *)
(* it multiplies, divides and truncates is the order of the source.        *)
(*                                                                         *)
(* Solidity 0.8 reverts on overflow and the CarefulMath helpers report it. *)
(* The amounts of the models stay far below 2^256, so that the overflow    *)
(* branches are unreachable here and are left out.                         *)
(***************************************************************************)
EXTENDS Integers

CONSTANT expScale    \* 1e18 in the contracts, small in the instances

ASSUME ExpScaleAssumption == expScale \in Nat \ {0}

\* The mantissa of the ratio num / denom.
getExp(num, denom) == (num * expScale) \div denom

\* The integer part of a mantissa.
truncate(mantissa) == mantissa \div expScale

\* Exp * scalar, truncated.
mulScalarTruncate(a, scalar) == truncate(a * scalar)

\* Exp * scalar, truncated, plus addend.
mulScalarTruncateAddUInt(a, scalar, addend) == truncate(a * scalar) + addend

\* scalar / Exp, truncated.  The intermediate quotient keeps one expScale.
divScalarByExpTruncate(scalar, divisor) ==
  truncate(getExp(expScale * scalar, divisor))

\* Exp * Exp of ExponentialNoError (truncates; Exponential.mulExp rounds).
mulExp(a, b) == (a * b) \div expScale

\* Exp / Exp of ExponentialNoError.
divExp(a, b) == (a * expScale) \div b
=============================================================================
