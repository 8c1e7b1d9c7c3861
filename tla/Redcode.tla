------------------------------ MODULE Redcode -------------------------------
(***************************************************************************)
(* load_file: the instruction set and the shape of an instruction, as the  *)
(* core stores it.  Field values are literals in 0..CoreSize-1 there:      *)
(* labels are gone before a warrior is loaded (the parser substitutes      *)
(* them) and loading normalises every value.  In a program a value is any  *)
(* i32.                                                                    *)
(***************************************************************************)
EXTENDS Offset, Sequences

Arithmetic == {"Add", "Sub", "Mul", "Div", "Mod"}
PSpace     == {"Ldp", "Stp"}
Opcode     == Arithmetic \cup PSpace \cup
              {"Mov", "Dat", "Nop", "Cmp", "Seq", "Sne", "Slt",
               "Djn", "Jmn", "Jmz", "Jmp", "Spl"}

Modifier == {"A", "B", "AB", "BA", "F", "X", "I"}

PreDec == {"PreDecIndirectA", "PreDecIndirectB"}
PostInc == {"PostIncIndirectA", "PostIncIndirectB"}
AddressMode ==
  {"Immediate", "Direct", "IndirectA", "IndirectB"} \cup PreDec \cup PostInc

FieldOf(Values) == [address_mode : AddressMode, value : Values]
InstructionOf(Values) ==
  [opcode : Opcode, modifier : Modifier,
   a_field : FieldOf(Values), b_field : FieldOf(Values)]

Instruction == InstructionOf(Addr)
Memory      == [Addr -> Instruction]
Warrior     == [instructions : Seq(InstructionOf(Int)), origin : 0 .. MaxInt]

DefaultField == [address_mode |-> "Direct", value |-> 0]
DefaultInstruction ==
  [opcode |-> "Dat", modifier |-> "F",
   a_field |-> DefaultField, b_field |-> DefaultField]

-----------------------------------------------------------------------------
(* The two fields of an instruction, by side.                              *)
Side == {"a", "b"}
Other(side) == IF side = "a" THEN "b" ELSE "a"

Field(instruction, side) ==
  IF side = "a" THEN instruction.a_field ELSE instruction.b_field

Value(instruction, side) == Field(instruction, side).value

\* Field::set_value: the address mode of the field stays.
SetValue(instruction, side, value) ==
  IF side = "a" THEN [instruction EXCEPT !.a_field.value = value]
                ELSE [instruction EXCEPT !.b_field.value = value]

\* Core::normalize.
Normalize(instruction) ==
  [instruction EXCEPT !.a_field.value = New(@), !.b_field.value = New(@)]
=============================================================================
