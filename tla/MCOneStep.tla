----------------------------- MODULE MCOneStep ------------------------------
(***************************************************************************)
(* Every opcode, modifier and pair of address modes in a core of five      *)
(* cells.  The fields of the instruction reach itself and its neighbours,  *)
(* which hold zero and non-zero values that lead to different cells.       *)
(***************************************************************************)
EXTENDS OneStep

Tested(opcode, modifier, a_mode, b_mode, a, b) ==
  [opcode |-> opcode, modifier |-> modifier,
   a_field |-> [address_mode |-> a_mode, value |-> a],
   b_field |-> [address_mode |-> b_mode, value |-> b]]

Plain(opcode, modifier, a, b) == Tested(opcode, modifier, "Direct", "Direct", a, b)

Others ==
  { <<Plain("Add", "X", 1, 0), Plain("Dat", "F", 2, 1),
      Plain("Dat", "F", 3, 3), Plain("Jmp", "B", 4, 2)>>,
    <<Plain("Dat", "F", 0, 4), Plain("Dat", "F", 0, 2),
      Plain("Nop", "A", 4, 4), Plain("Dat", "F", 1, 1)>> }

MCMemories ==
  { [a \in Addr |-> IF a = 0 THEN Tested(op, mf, am, bm, av, bv) ELSE o[a]] :
      op \in Opcode, mf \in Modifier, am \in AddressMode, bm \in AddressMode,
      av \in {0, 1}, bv \in {1, 4}, o \in Others }
=============================================================================
