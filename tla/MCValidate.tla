----------------------------- MODULE MCValidate -----------------------------
(***************************************************************************)
(* The validation suite of testdata/input/simple/validate.redcode, played  *)
(* alone, as tests/validate.rs plays it (the test looks at no result).     *)
(* The program is the assembled one of testdata/expected_output, with the  *)
(* values above half its core of 8000 written as the negative offsets they *)
(* stand for; a core of 100 keeps its cells apart.                         *)
(***************************************************************************)
EXTENDS Core

Imm(value) == [address_mode |-> "Immediate", value |-> value]
Dir(value) == [address_mode |-> "Direct", value |-> value]
Ind(value) == [address_mode |-> "IndirectB", value |-> value]
Dec(value) == [address_mode |-> "PreDecIndirectB", value |-> value]
I(op, modifier, a, b) ==
  [opcode |-> op, modifier |-> modifier, a_field |-> a, b_field |-> b]

Validate == <<
  I("Spl", "B", Dir(8), Dir(3)), I("Jmz", "B", Dec(-1), Dir(0)),
  I("Djn", "B", Dir(0), Imm(36)), I("Sub", "AB", Imm(1), Ind(-3)),
  I("Mov", "I", Dir(2), Dec(87)), I("Jmp", "B", Dir(-1), Dir(0)),
  I("Dat", "F", Imm(0), Imm(1)), I("Dat", "F", Imm(0), Imm(3)),
  I("Spl", "B", Dir(2), Dir(0)), I("Dat", "F", Dec(-2), Dec(-2)),
  I("Cmp", "I", Dir(-4), Dir(-3)), I("Jmp", "B", Dir(73), Dir(0)),
  I("Spl", "B", Dir(5), Dir(0)), I("Jmz", "B", Dir(3), Dec(0)),
  I("Dat", "F", Imm(0), Imm(1)), I("Dat", "F", Imm(0), Imm(2)),
  I("Jmp", "B", Ind(0), Dec(0)), I("Jmp", "B", Dec(2), Imm(0)),
  I("Jmp", "B", Dir(3), Dir(0)), I("Dat", "F", Imm(0), Imm(0)),
  I("Dat", "F", Imm(0), Imm(-1)), I("Cmp", "I", Dir(-7), Dir(-6)),
  I("Jmp", "B", Dir(62), Dir(0)), I("Cmp", "I", Dir(-4), Dir(-3)),
  I("Jmp", "B", Dir(60), Dir(0)), I("Jmp", "B", Dec(2), Dec(2)),
  I("Jmp", "B", Dir(3), Dir(0)), I("Dat", "F", Imm(0), Imm(0)),
  I("Dat", "F", Imm(0), Imm(-2)), I("Cmp", "I", Dir(-2), Dir(-1)),
  I("Jmp", "B", Dir(54), Dir(0)), I("Mov", "I", Dir(1), Dec(1)),
  I("Jmn", "B", Dir(2), Dir(1)), I("Jmn", "B", Dir(2), Dir(1)),
  I("Cmp", "I", Dir(-2), Dir(-1)), I("Jmp", "B", Dir(49), Dir(0)),
  I("Mov", "I", Ind(0), Dec(1)), I("Jmn", "B", Dir(2), Dir(1)),
  I("Jmn", "B", Dir(2), Dir(1)), I("Cmp", "I", Dir(-2), Dir(-1)),
  I("Jmp", "B", Dir(44), Dir(0)), I("Spl", "B", Dir(5), Dir(0)),
  I("Mov", "I", Dec(1), Dir(2)), I("Dat", "F", Dec(0), Imm(1)),
  I("Dat", "F", Dec(0), Imm(1)), I("Dat", "F", Dec(0), Imm(-1)),
  I("Mov", "I", Dec(1), Dir(1)), I("Jmz", "B", Dir(2), Dir(1)),
  I("Jmp", "B", Dir(36), Dir(0)), I("Cmp", "I", Dir(-6), Dir(-4)),
  I("Jmp", "B", Dir(34), Dir(0)), I("Add", "F", Dir(1), Dec(1)),
  I("Jmp", "B", Dir(1), Dir(1)), I("Jmp", "B", Dir(2), Dir(1)),
  I("Cmp", "I", Dir(-2), Dir(-1)), I("Jmp", "B", Dir(29), Dir(0)),
  I("Add", "F", Ind(0), Dec(1)), I("Jmp", "B", Dir(1), Dir(1)),
  I("Jmp", "B", Dir(26), Dir(0)), I("Cmp", "I", Dir(-6), Dir(-2)),
  I("Jmp", "B", Dir(24), Dir(0)), I("Spl", "B", Dir(4), Dir(0)),
  I("Cmp", "I", Dir(4), Dir(5)), I("Jmp", "B", Dir(5), Dir(0)),
  I("Jmp", "B", Dir(20), Dir(0)), I("Sub", "F", Dec(1), Dir(1)),
  I("Dat", "F", Imm(2), Imm(1)), I("Dat", "F", Imm(0), Imm(0)),
  I("Cmp", "I", Dir(-2), Dir(-1)), I("Jmp", "B", Dir(15), Dir(0)),
  I("Sub", "F", Dec(1), Dec(1)), I("Jmp", "B", Dir(3), Dir(1)),
  I("Sub", "F", Dec(-2), Dec(1)), I("Jmp", "B", Dir(3), Dir(-1)),
  I("Cmp", "I", Dir(-4), Dir(-2)), I("Jmp", "B", Dir(9), Dir(0)),
  I("Cmp", "I", Dir(-5), Dir(-3)), I("Jmp", "B", Dir(7), Dir(0)),
  I("Cmp", "I", Dir(-79), Dir(3)), I("Jmp", "B", Dir(3), Dir(0)),
  I("Jmp", "B", Dir(4), Dir(0)), I("Dat", "F", Imm(0), Imm(0)),
  I("Slt", "AB", Imm(0), Dir(-80)), I("Jmp", "B", Dir(5), Dir(0)),
  I("Mov", "I", Dir(-82), Dir(3)), I("Mov", "I", Dir(-79), Dir(-83)),
  I("Jmp", "B", Dir(-82), Dir(0)), I("Dat", "F", Imm(0), Imm(0)),
  I("Mov", "I", Dir(-1), Dir(-84)), I("Jmp", "B", Dir(0), Dir(0))
>>

MCBattles ==
  { [config |-> [max_cycles |-> 150, max_processes |-> 8,
                 max_warrior_length |-> 100, min_distance |-> 100],
     warriors |-> << [instructions |-> Validate, origin |-> 0] >>] }

\* validate.redcode:6-10: the program "self-ties (i.e. loops forever) if the running
\* system is ICWS88-compliant and uses in-register evaluation; suicides
\* (terminates)" otherwise.  It ends with one task in the loop at its label `last'.
SelfTies ==
  <>[](/\ phase = "finished"
       /\ [i \in DOMAIN process_queue.queue |-> process_queue.queue[i].offset]
            = << Len(Validate) - 1 >>)
=============================================================================
