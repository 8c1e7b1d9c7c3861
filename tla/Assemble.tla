------------------------------ MODULE Assemble ------------------------------
(***************************************************************************)
(* parser/phase/evaluation/mod.rs: a line of words becomes an instruction, *)
(* with the modifier and the field that it may leave out.  And the way     *)
(* back, Display of an instruction.  Mnemonics have the names of opcodes.  *)
(***************************************************************************)
EXTENDS Expression, Redcode

ASSUME MnemonicsAssumption == Opcode \cup {"Org", "End"} \subseteq Names

\* AddressMode::from_str.
ModeOf ==
  [s \in Modes |->
     CASE s = "#" -> "Immediate" [] s = "$" -> "Direct"
       [] s = "*" -> "IndirectA" [] s = "@" -> "IndirectB"
       [] s = "{" -> "PreDecIndirectA" [] s = "<" -> "PreDecIndirectB"
       [] s = "}" -> "PostIncIndirectA" [] s = ">" -> "PostIncIndirectB"]

\* The Display of an address mode.
SignOf == Inverse(ModeOf, Modes, AddressMode)

NoModifier == ""

\* default_88_to_94.  LDP and STP may be without one, which is `unreachable'.
Default88To94(opcode, a_mode, b_mode) ==
  IF opcode = "Dat" THEN "F"
  ELSE IF opcode \in {"Jmp", "Jmz", "Jmn", "Djn", "Spl", "Nop"} THEN "B"
  ELSE IF a_mode = "Immediate" THEN "AB"
  ELSE IF b_mode = "Immediate" THEN "B"
  ELSE CASE opcode \in {"Mov", "Cmp", "Seq", "Sne"} -> "I"
         [] opcode = "Slt" -> "B"
         [] opcode \in Arithmetic -> "F"
         [] OTHER -> NoModifier

-----------------------------------------------------------------------------
\* parse_field, for the words of a Field.
ParseField(words) ==
  LET mode  == IF HasMode(words) THEN ModeOf[words[1].name] ELSE "Direct"
      value == Evaluate(IF HasMode(words) THEN Tail(words) ELSE words)
  IN  [panics |-> value.panics,
       field  |-> [address_mode |-> mode, value |-> value.value]]

Ok(instruction) == [panics |-> FALSE, error |-> "", instruction |-> instruction]
Err(error)      == [panics |-> FALSE, error |-> error, instruction |-> DefaultInstruction]
Panics          == [panics |-> TRUE, error |-> "", instruction |-> DefaultInstruction]

\* With two fields.
FullInstruction(opcode, modifier, a, b) ==
  LET default == Default88To94(opcode, a.address_mode, b.address_mode)
      chosen  == IF modifier = NoModifier THEN default ELSE modifier
  IN  IF chosen = NoModifier THEN Panics
      ELSE Ok([opcode |-> opcode, modifier |-> chosen, a_field |-> a, b_field |-> b])

\* With one field, which is the B field of a DAT.
ShortInstruction(opcode, modifier, field) ==
  LET Chosen(default) == IF modifier = NoModifier THEN default ELSE modifier
  IN  CASE opcode = "Dat" ->
             Ok([opcode  |-> opcode, modifier |-> Chosen("F"),
                 a_field |-> [address_mode |-> "Immediate", value |-> 0], b_field |-> field])
        [] opcode \in {"Jmp", "Spl", "Nop"} ->
             Ok([opcode  |-> opcode, modifier |-> Chosen("B"),
                 a_field |-> field, b_field |-> [address_mode |-> "Direct", value |-> 0]])
        [] OTHER -> Err("InvalidArguments")

\* parse_instruction, for words that begin with an Instruction.  ORG and END are
\* Instructions of the grammar and no opcodes.
ParseInstruction(words) ==
  LET opcode    == words[1].name
      operation == OperationEnd(words)
      modifier  == IF operation = 2 THEN words[2].name ELSE NoModifier
      end       == AEnd(words)
      a         == ParseField(SubSeq(words, operation + 1, end))
      b         == ParseField(SubSeq(words, end + 2, BEnd(words, end)))
  IN  IF opcode \notin Opcode \/ a.panics THEN Panics
      ELSE IF BEnd(words, end) = 0 THEN ShortInstruction(opcode, modifier, a.field)
      ELSE IF b.panics THEN Panics
      ELSE FullInstruction(opcode, modifier, a.field, b.field)

-----------------------------------------------------------------------------
\* Display of a field and of an instruction, as words.
FieldText(field) == << Sign(SignOf[field.address_mode]) >> \o Digits(field.value)

InstructionText(instruction) ==
  << Mnemonic(instruction.opcode), Suffix(instruction.modifier) >>
    \o FieldText(instruction.a_field) \o << Punctuation("Comma") >>
    \o FieldText(instruction.b_field)
=============================================================================
