------------------------------- MODULE Lines --------------------------------
(***************************************************************************)
(* parser/grammar: lines of Redcode and their tokens.  A line is a         *)
(* sequence of words: labels, numbers, mnemonics, modifiers, signs         *)
(* (operators and address modes, by their text) and punctuation.  Spaces   *)
(* and the colon after a label are left out.  A keyword or mnemonic that   *)
(* the grammar takes as one is a label everywhere else.                    *)
(***************************************************************************)
EXTENDS Integers, SequencesExt

CONSTANT Names      \* of labels, mnemonics and keywords

Modes      == {"#", "$", "*", "@", "{", "<", "}", ">"}
UnaryOp    == {"-", "+", "!"}
MultiplyOp == {"*", "/", "%"}
AddOp      == {"+", "-"}
CompareOp  == {"<=", "<", ">=", ">", "==", "!="}
BooleanOp  == {"&&", "||"}
BinaryOp   == MultiplyOp \cup AddOp \cup CompareOp \cup BooleanOp

\* The kinds of words that are spelt like a label.
Spelt == {"Label", "Opcode", "Equ", "For", "Rof"}

ModifierNames == {"A", "B", "AB", "BA", "F", "X", "I"}

Word ==
  [kind : Spelt, name : Names, value : {0}]
    \cup [kind : {"Number"}, name : {""}, value : Nat]
    \cup [kind : {"Modifier"}, name : ModifierNames, value : {0}]
    \cup [kind : {"Sign"}, name : Modes \cup UnaryOp \cup BinaryOp, value : {0}]
    \cup [kind : {"Comma", "Open", "Close"}, name : {""}, value : {0}]
Line == Seq(Word)

Label(name)    == [kind |-> "Label", name |-> name, value |-> 0]
Number(n)      == [kind |-> "Number", name |-> "", value |-> n]
Mnemonic(name) == [kind |-> "Opcode", name |-> name, value |-> 0]
Suffix(name)   == [kind |-> "Modifier", name |-> name, value |-> 0]
Keyword(k)     == [kind |-> k, name |-> k, value |-> 0]
Sign(s)        == [kind |-> "Sign", name |-> s, value |-> 0]
Punctuation(k) == [kind |-> k, name |-> "", value |-> 0]

\* i32::to_string.
Digits(n) == IF n < 0 THEN << Sign("-"), Number(-n) >> ELSE << Number(n) >>

-----------------------------------------------------------------------------
\* The words from one on.
From(words, k) == SubSeq(words, k, Len(words))

Begins(words, kind) == words # << >> /\ words[1].kind = kind

\* Where an operand is due in an expression, and an operator is not.
OperandDue(words, k) == k = 1 \/ words[k - 1].kind \in {"Sign", "Open"}

InPlace(words, k) ==
  IF OperandDue(words, k)
    THEN \/ words[k].kind \in Spelt \cup {"Number", "Open"}
         \/ words[k].kind = "Sign" /\ words[k].name \in UnaryOp
    ELSE \/ words[k].kind = "Close"
         \/ words[k].kind = "Sign" /\ words[k].name \in BinaryOp

\* How many parentheses are open after a word.
Depth(words, k) ==
  Cardinality({ j \in 1 .. k : words[j].kind = "Open" })
    - Cardinality({ j \in 1 .. k : words[j].kind = "Close" })

\* The length of the Expression that the words begin with, 0 if there is none: the
\* grammar takes as many operators as it finds an operand behind.
ExpressionEnd(words) ==
  Max({0} \cup { k \in DOMAIN words :
        /\ words[k].kind \in Spelt \cup {"Number", "Close"} /\ Depth(words, k) = 0
        /\ \A j \in 1 .. k : InPlace(words, j) /\ Depth(words, j) >= 0 })

\* The end of what has a length and begins behind a word; 0 without it.
EndBehind(k, length) == IF length = 0 THEN 0 ELSE k + length

HasMode(words) == Begins(words, "Sign") /\ words[1].name \in Modes
ModeEnd(words) == IF HasMode(words) THEN 1 ELSE 0

FieldEnd(words) ==
  EndBehind(ModeEnd(words), ExpressionEnd(From(words, ModeEnd(words) + 1)))

\* Where the operation ends, the first field and the second; 0 without that field.
OperationEnd(words) == IF Begins(Tail(words), "Modifier") THEN 2 ELSE 1

AEnd(words) ==
  EndBehind(OperationEnd(words), FieldEnd(From(words, OperationEnd(words) + 1)))

BEnd(words, a) ==
  IF Begins(From(words, a + 1), "Comma")
    THEN EndBehind(a + 1, FieldEnd(From(words, a + 2))) ELSE 0

FieldsEnd(words, a) == IF a = 0 THEN 0 ELSE Max({a, BEnd(words, a)})

\* The length of the Instruction that the words begin with.
InstructionEnd(words) ==
  IF Begins(words, "Opcode") THEN FieldsEnd(words, AEnd(words)) ELSE 0

\* The rule of a word within a statement, or "" if it has no token.
Rule(word) ==
  IF word.kind \in Spelt THEN "Label"
  ELSE IF word.kind \in {"Comma", "Open", "Close"} THEN "" ELSE word.kind

Ruled(words, rule, end) == [k \in 1 .. end |-> IF k = 1 THEN rule ELSE Rule(words[k])]

\* The tokens of the grammar's Statement, without a lone label: << >> if there is none.
Statement(words) ==
  CASE Begins(words, "Opcode") -> Ruled(words, "Opcode", InstructionEnd(words))
    [] Begins(words, "For") -> Ruled(words, "For", EndBehind(1, ExpressionEnd(Tail(words))))
    [] Begins(words, "Equ") -> << "Substitution" >>
    [] Begins(words, "Rof") -> << "Rof" >>
    [] OTHER -> << >>

LoneLabel(words) ==
  IF words # << >> /\ words[1].kind \in Spelt THEN << "Label" >> ELSE << >>

\* The grammar's choice: the first one that is there.
Choice(one, other) == IF one # << >> THEN one ELSE other

\* tokenize: the rules of the words that the grammar's Line takes, which is a
\* prefix of the line; the words after it are in the line and not seen.
Tokenize(line) ==
  IF LoneLabel(line) = << >> THEN << >>
  ELSE Choice(Statement(line),
              << "Label" >> \o Choice(Statement(Tail(line)), LoneLabel(Tail(line))))
=============================================================================
