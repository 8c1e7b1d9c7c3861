------------------------------- MODULE Offset -------------------------------
(***************************************************************************)
(* load_file/offset.rs: positions in the circular core.  An Offset is an   *)
(* i32 kept in 0..CoreSize-1; every operator works on the raw i32 values   *)
(* and then brings the result back with rem_euclid.  The raw operation is  *)
(* an i32 operation, so it wraps at i32::MAX (the release profile; the     *)
(* debug profile panics instead) before the remainder is taken.            *)
(* All offsets of one core share its core_size, so check_core_size never   *)
(* fails and an Offset is represented by its value.                        *)
(***************************************************************************)
EXTENDS Int32

CONSTANT CoreSize   \* config.core_size, the number of instructions of the core

ASSUME CoreSizeAssumption == CoreSize \in 1..MaxInt

Addr == 0 .. CoreSize - 1

\* Mutant: the remainder operator of Rust, which keeps the sign of n.
SignedRem(value) ==
  IF value >= 0 THEN value % CoreSize ELSE -((-value) % CoreSize)

New(value) == value % CoreSize

-----------------------------------------------------------------------------
\* Mutant: a difference is not brought back into the core.
SubUnreduced(a, b) == Wrap(a - b)

Add(a, b) == New(Wrap(a + b))
Sub(a, b) == New(Wrap(a - b))
Mul(a, b) == New(Wrap(a * b))
Div(a, b) == New(a \div b)      \* b # 0; the operands are never negative
Rem(a, b) == New(a % b)         \* b # 0

\* The operators whose right-hand side is an i32.
AddInt(a, i) == Add(a, New(i))
SubInt(a, i) == Sub(a, New(i))
=============================================================================
