------------------------------- MODULE Int32 --------------------------------
(***************************************************************************)
(* The arithmetic of i32: what the operators of offset.rs and of           *)
(* expression.rs return when the mathematical result does not fit.  The    *)
(* release profile wraps; the debug profile panics instead.                *)
(***************************************************************************)
EXTENDS Integers

CONSTANT MaxInt     \* i32::MAX (a smaller power of two minus one in the models)

ASSUME MaxIntAssumption == MaxInt \in Nat \ {0}

MinInt == -(MaxInt + 1)

\* Two's complement: what an i32 operation of mathematical result n returns.
Wrap(n) == ((n + MaxInt + 1) % (2 * (MaxInt + 1))) - (MaxInt + 1)
=============================================================================
