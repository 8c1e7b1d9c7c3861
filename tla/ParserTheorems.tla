--------------------------- MODULE ParserTheorems ---------------------------
(***************************************************************************)
(* The parser, for every text, every set of names and every width of i32:  *)
(* the tokens of a line are tokens of its words, an expression has a value *)
(* that is an i32, and no phase hands on anything outside of its types.    *)
(***************************************************************************)
EXTENDS Parser, OffsetTheorems, SequenceTheorems

-----------------------------------------------------------------------------
(* Numbers and sequences.                                                  *)

LEMMA LargestExists ==
  ASSUME NEW n \in Nat, NEW S \in SUBSET (0 .. n), S # {}
  PROVE  \E x \in S : \A y \in S : x >= y
<1> DEFINE Has(R) == R # {} => \E x \in R : \A y \in R : x >= y
           T == { m \in Nat : \A R \in SUBSET (0 .. m) : Has(R) }
<1>1. 0 \in T
  <2> SUFFICES ASSUME NEW R \in SUBSET (0 .. 0), R # {}
               PROVE  \E x \in R : \A y \in R : x >= y
    OBVIOUS
  <2>1. PICK x \in R : TRUE
    OBVIOUS
  <2>2. \A y \in R : x >= y
    OBVIOUS
  <2> QED BY <2>2
<1>2. ASSUME NEW m \in Nat, m \in T
      PROVE  m + 1 \in T
  <2> SUFFICES ASSUME NEW R \in SUBSET (0 .. m + 1), R # {}
               PROVE  \E x \in R : \A y \in R : x >= y
    OBVIOUS
  <2>1. CASE m + 1 \in R
    BY <2>1
  <2>2. CASE m + 1 \notin R
    <3>1. R \in SUBSET (0 .. m)
      BY <2>2
    <3> QED BY <1>2, <3>1
  <2> QED BY <2>1, <2>2
<1>3. n \in T
  <2> HIDE DEF T
  <2> QED BY <1>1, <1>2, NatSetInduction
<1> QED BY <1>3

\* A table of lines or words is a sequence.
LEMMA TableSeq ==
  ASSUME NEW S, NEW n \in Nat, NEW f \in [1 .. n -> S]
  PROVE  f \in Seq(S) /\ Len(f) = n
  OBVIOUS

LEMMA OneSeq ==
  ASSUME NEW S, NEW x \in S
  PROVE  << x >> \in Seq(S) /\ Len(<< x >>) = 1 /\ << x >>[1] = x
  OBVIOUS

\* The part of a sequence that SubSeq takes.
LEMMA PartSeq ==
  ASSUME NEW S, NEW s \in Seq(S), NEW m \in Nat, NEW n \in Nat, 1 <= m, n <= Len(s)
  PROVE  /\ SubSeq(s, m, n) \in Seq(S)
         /\ Len(SubSeq(s, m, n)) = IF m <= n THEN n - m + 1 ELSE 0
         /\ \A k \in 1 .. Len(SubSeq(s, m, n)) : SubSeq(s, m, n)[k] = s[m + k - 1]
  OBVIOUS

-----------------------------------------------------------------------------
(* The ends of the grammar's rules.                                        *)

LEMMA ExpressionEndIn == \A words \in Line : ExpressionEnd(words) \in 0 .. Len(words)
<1> SUFFICES ASSUME NEW words \in Line PROVE ExpressionEnd(words) \in 0 .. Len(words)
  OBVIOUS
<1> DEFINE S == {0} \cup { k \in DOMAIN words :
                     /\ words[k].kind \in Spelt \cup {"Number", "Close"} /\ Depth(words, k) = 0
                     /\ \A j \in 1 .. k : InPlace(words, j) /\ Depth(words, j) >= 0 }
<1>1. Len(words) \in Nat /\ S \in SUBSET (0 .. Len(words)) /\ S # {}
  BY LenProperties DEF Line
<1>2. ExpressionEnd(words) = CHOOSE x \in S : \A y \in S : x >= y
  BY DEF ExpressionEnd, Max
<1> HIDE DEF S
<1>3. ExpressionEnd(words) \in S
  BY <1>1, <1>2, LargestExists
<1> QED BY <1>1, <1>3

LEMMA FromType ==
  ASSUME NEW words \in Line, NEW k \in 1 .. Len(words) + 1
  PROVE  /\ From(words, k) \in Line
         /\ Len(From(words, k)) = Len(words) - k + 1
         /\ \A j \in 1 .. Len(From(words, k)) : From(words, k)[j] = words[k + j - 1]
<1>1. Len(words) \in Nat /\ k \in Nat /\ 1 <= k /\ words \in Seq(Word)
  BY LenProperties DEF Line
<1> QED BY <1>1, PartSeq DEF From, Line

LEMMA FieldEndIn == \A words \in Line : FieldEnd(words) \in 0 .. Len(words)
<1> SUFFICES ASSUME NEW words \in Line PROVE FieldEnd(words) \in 0 .. Len(words)
  OBVIOUS
<1> DEFINE m == ModeEnd(words)
           e == ExpressionEnd(From(words, m + 1))
<1>1. Len(words) \in Nat /\ m \in 0 .. Len(words)
  BY LenProperties, EmptySeq DEF ModeEnd, HasMode, Begins, Line
<1> HIDE DEF m
<1>2. /\ m + 1 \in 1 .. Len(words) + 1
      /\ From(words, m + 1) \in Line
      /\ Len(From(words, m + 1)) = Len(words) - m
  BY <1>1, FromType
<1>3. e \in 0 .. Len(words) - m
  BY <1>1, <1>2, ExpressionEndIn
<1> HIDE DEF e
<1>4. EndBehind(m, e) \in 0 .. Len(words)
  BY <1>1, <1>3 DEF EndBehind
<1> QED BY <1>4 DEF FieldEnd, m, e

\* Where the fields and the instruction end is inside the line.
LEMMA InstructionEndIn ==
  ASSUME NEW words \in Line, Begins(words, "Opcode")
  PROVE  /\ OperationEnd(words) \in 1 .. 2 /\ OperationEnd(words) <= Len(words)
         /\ OperationEnd(words) = 2 => words[2].kind = "Modifier"
         /\ AEnd(words) = 0 \/ AEnd(words) \in OperationEnd(words) + 1 .. Len(words)
         /\ AEnd(words) # 0 =>
              \/ BEnd(words, AEnd(words)) = 0
              \/ BEnd(words, AEnd(words)) \in AEnd(words) + 2 .. Len(words)
         /\ InstructionEnd(words) \in 0 .. Len(words)
         /\ InstructionEnd(words) # 0 => AEnd(words) # 0
<1> DEFINE o == OperationEnd(words)
           a == AEnd(words)
           b == BEnd(words, a)
<1>0. /\ words \in Seq(Word) /\ words # << >> /\ Len(words) \in Nat \ {0}
  BY LenProperties, EmptySeq DEF Line, Begins
<1>1. /\ o \in 1 .. 2 /\ o <= Len(words)
      /\ o = 2 => words[2].kind = "Modifier"
  <2>1. /\ Tail(words) \in Seq(Word) /\ Len(Tail(words)) = Len(words) - 1
        /\ \A k \in 1 .. Len(Tail(words)) : Tail(words)[k] = words[k + 1]
    BY <1>0, HeadTailProperties
  <2> QED BY <1>0, <2>1, EmptySeq DEF OperationEnd, Begins
<1> HIDE DEF o
<1>2. a = 0 \/ a \in o + 1 .. Len(words)
  <2> DEFINE f == FieldEnd(From(words, o + 1))
  <2>1. f \in 0 .. Len(words) - o
    BY <1>0, <1>1, FromType, FieldEndIn
  <2> HIDE DEF f
  <2>2. EndBehind(o, f) = 0 \/ EndBehind(o, f) \in o + 1 .. Len(words)
    BY <1>0, <1>1, <2>1 DEF EndBehind
  <2> QED BY <2>2 DEF AEnd, o, f
<1> HIDE DEF a
<1>3. ASSUME a # 0
      PROVE  b = 0 \/ b \in a + 2 .. Len(words)
  <2> DEFINE f == FieldEnd(From(words, a + 2))
  <2>1. a \in 1 .. Len(words) /\ a \in Nat
    BY <1>0, <1>1, <1>2, <1>3
  <2>2. /\ From(words, a + 1) \in Line /\ Len(From(words, a + 1)) = Len(words) - a
    BY <1>0, <2>1, FromType
  <2>3. CASE Begins(From(words, a + 1), "Comma")
    <3>1. Len(From(words, a + 1)) # 0
      BY <2>2, <2>3, EmptySeq DEF Begins, Line
    <3>2. a + 1 <= Len(words)
      BY <1>0, <2>1, <2>2, <3>1
    <3>3. f \in 0 .. Len(words) - a - 1
      BY <1>0, <2>1, <3>2, FromType, FieldEndIn
    <3> HIDE DEF f
    <3>4. EndBehind(a + 1, f) = 0 \/ EndBehind(a + 1, f) \in a + 2 .. Len(words)
      BY <1>0, <2>1, <3>2, <3>3 DEF EndBehind
    <3> QED BY <2>3, <3>4 DEF BEnd, f
  <2>4. CASE ~ Begins(From(words, a + 1), "Comma")
    BY <2>4 DEF BEnd
  <2> QED BY <2>3, <2>4
<1> HIDE DEF b
<1>4. FieldsEnd(words, a) \in 0 .. Len(words) /\ (a = 0 => FieldsEnd(words, a) = 0)
  <2>1. CASE a = 0
    BY <1>0, <2>1 DEF FieldsEnd
  <2>2. CASE a # 0
    <3>1. a \in 0 .. Len(words) /\ b \in 0 .. Len(words)
      BY <1>0, <1>1, <1>2, <1>3, <2>2
    <3>2. {a, b} \in SUBSET (0 .. Len(words)) /\ {a, b} # {}
      BY <3>1
    <3>3. FieldsEnd(words, a) = CHOOSE x \in {a, b} : \A y \in {a, b} : x >= y
      BY <2>2 DEF FieldsEnd, Max, b
    <3>4. FieldsEnd(words, a) \in {a, b}
      BY <1>0, <3>2, <3>3, LargestExists
    <3> QED BY <2>2, <3>1, <3>4
  <2> QED BY <2>1, <2>2
<1>5. InstructionEnd(words) = FieldsEnd(words, a)
  BY DEF InstructionEnd, a
<1> QED BY <1>1, <1>2, <1>3, <1>4, <1>5 DEF o, a, b

LEMMA InstructionEndType == \A words \in Line : InstructionEnd(words) \in 0 .. Len(words)
<1> SUFFICES ASSUME NEW words \in Line PROVE InstructionEnd(words) \in 0 .. Len(words)
  OBVIOUS
<1>1. CASE Begins(words, "Opcode")
  BY <1>1, InstructionEndIn
<1>2. CASE ~ Begins(words, "Opcode")
  BY <1>2, LenProperties DEF InstructionEnd, Line
<1> QED BY <1>1, <1>2

-----------------------------------------------------------------------------
(* The tokens of a line.                                                   *)

Rules == {"Label", "Opcode", "For", "Substitution", "Rof", "Number", "Modifier", "Sign", ""}

WordKinds == Spelt \cup {"Number", "Modifier", "Sign", "Comma", "Open", "Close"}

LEMMA WordFields ==
  ASSUME NEW word \in Word
  PROVE  /\ word.kind \in WordKinds
         /\ word.kind \in Spelt => word.name \in Names
         /\ word.kind = "Number" => word.value \in Nat
         /\ word.kind = "Modifier" => word.name \in ModifierNames
  BY DEF Word, WordKinds, Spelt

\* The tokens of so many words, of which the first has a rule of its own.
LEMMA RuledTokens ==
  ASSUME NEW words \in Line, NEW rule \in Rules, NEW end \in 0 .. Len(words)
  PROVE  /\ Ruled(words, rule, end) \in Seq(Rules)
         /\ Len(Ruled(words, rule, end)) = end
         /\ end # 0 => Ruled(words, rule, end)[1] = rule
         /\ \A k \in 2 .. end : Ruled(words, rule, end)[k] = "Label" => words[k].kind \in Spelt
<1>1. /\ end \in Nat /\ \A k \in 1 .. end : words[k] \in Word
  BY LenProperties, ElementOfSeq DEF Line
<1>2. \A word \in Word : Rule(word) \in Rules /\ (Rule(word) = "Label" => word.kind \in Spelt)
  BY WordFields DEF Rule, Rules, WordKinds, Spelt
<1>3. Ruled(words, rule, end) \in [1 .. end -> Rules]
  BY <1>1, <1>2 DEF Ruled
<1>4. Ruled(words, rule, end) \in Seq(Rules) /\ Len(Ruled(words, rule, end)) = end
  BY <1>1, <1>3, TableSeq
<1>5. \A k \in 2 .. end : Ruled(words, rule, end)[k] = Rule(words[k])
  BY <1>1 DEF Ruled
<1>6. end # 0 => Ruled(words, rule, end)[1] = rule
  BY <1>1 DEF Ruled
<1> QED BY <1>1, <1>2, <1>4, <1>5, <1>6

\* What is true of the tokens of a line, by the words that they are tokens of.
TokensOf(tokens, words) ==
  /\ tokens \in Seq(Rules)
  /\ Len(tokens) <= Len(words)
  /\ tokens # << >> => words[1].kind \in Spelt
  /\ \A k \in 1 .. Len(tokens) : tokens[k] = "Label" => words[k].kind \in Spelt

LEMMA StatementTokens ==
  ASSUME NEW words \in Line
  PROVE  /\ TokensOf(Statement(words), words)
         /\ Statement(words) # << >> =>
              Statement(words)[1] \in {"Opcode", "For", "Substitution", "Rof"}
<1> DEFINE s == Statement(words)
<1>0. Len(words) \in Nat /\ words \in Seq(Word)
  BY LenProperties DEF Line
<1>1. CASE Begins(words, "Opcode")
  <2>1. s = Ruled(words, "Opcode", InstructionEnd(words))
    BY <1>1 DEF Statement, Begins
  <2>2. InstructionEnd(words) \in 0 .. Len(words)
    BY InstructionEndType
  <2> HIDE DEF s
  <2>3. PICK end \in 0 .. Len(words) : s = Ruled(words, "Opcode", end)
    BY <2>1, <2>2
  <2>4. "Opcode" \in Rules
    BY DEF Rules
  <2>5. /\ s \in Seq(Rules) /\ Len(s) <= Len(words)
        /\ Len(s) # 0 => s[1] = "Opcode"
        /\ \A k \in 2 .. Len(s) : s[k] = "Label" => words[k].kind \in Spelt
    BY <2>3, <2>4, RuledTokens
  <2> QED BY <1>1, <2>5, EmptySeq DEF TokensOf, Begins, Spelt, s
<1>2. CASE Begins(words, "For")
  <2>1. s = Ruled(words, "For", EndBehind(1, ExpressionEnd(Tail(words))))
    BY <1>2 DEF Statement, Begins
  <2>2. EndBehind(1, ExpressionEnd(Tail(words))) \in 0 .. Len(words)
    <3>1. Len(words) # 0 /\ Tail(words) \in Line /\ Len(Tail(words)) = Len(words) - 1
      BY <1>0, <1>2, EmptySeq, HeadTailProperties DEF Begins, Line
    <3>2. ExpressionEnd(Tail(words)) \in 0 .. Len(words) - 1
      BY <3>1, ExpressionEndIn
    <3> QED BY <1>0, <3>1, <3>2 DEF EndBehind
  <2> HIDE DEF s
  <2>3. PICK end \in 0 .. Len(words) : s = Ruled(words, "For", end)
    BY <2>1, <2>2
  <2>4. "For" \in Rules
    BY DEF Rules
  <2>5. /\ s \in Seq(Rules) /\ Len(s) <= Len(words)
        /\ Len(s) # 0 => s[1] = "For"
        /\ \A k \in 2 .. Len(s) : s[k] = "Label" => words[k].kind \in Spelt
    BY <2>3, <2>4, RuledTokens
  <2> QED BY <1>2, <2>5, EmptySeq DEF TokensOf, Begins, Spelt, s
<1>3. CASE Begins(words, "Equ") \/ Begins(words, "Rof")
  <2>1. s = << "Substitution" >> \/ s = << "Rof" >>
    BY <1>3 DEF Statement, Begins
  <2>2. Len(words) >= 1 /\ words[1].kind \in Spelt
    BY <1>0, <1>3, EmptySeq DEF Begins, Spelt
  <2> HIDE DEF s
  <2>3. s \in Seq(Rules) /\ Len(s) = 1 /\ s[1] \in {"Substitution", "Rof"}
    <3>1. "Substitution" \in Rules /\ "Rof" \in Rules
      BY DEF Rules
    <3> QED BY <2>1, <3>1, OneSeq
  <2> QED BY <2>2, <2>3, <1>0 DEF TokensOf, s
<1>4. CASE ~ (\E kind \in {"Opcode", "For", "Equ", "Rof"} : Begins(words, kind))
  <2>1. s = << >>
    BY <1>4 DEF Statement
  <2> QED BY <1>0, <2>1 DEF TokensOf
<1> QED BY <1>1, <1>2, <1>3, <1>4

LEMMA LoneLabelTokens ==
  ASSUME NEW words \in Line
  PROVE  /\ TokensOf(LoneLabel(words), words)
         /\ LoneLabel(words) # << >> <=> words # << >> /\ words[1].kind \in Spelt
         /\ LoneLabel(words) \in {<< >>, << "Label" >>}
<1>1. Len(words) \in Nat /\ (words # << >> => Len(words) >= 1)
  BY LenProperties, EmptySeq DEF Line
<1>2. << "Label" >> \in Seq(Rules) /\ Len(<< "Label" >>) = 1
  BY OneSeq DEF Rules
<1>3. CASE words # << >> /\ words[1].kind \in Spelt
  <2>1. LoneLabel(words) = << "Label" >> /\ << "Label" >> # << >>
    BY <1>2, <1>3, EmptySeq DEF LoneLabel
  <2> QED BY <1>1, <1>2, <1>3, <2>1 DEF TokensOf
<1>4. CASE ~ (words # << >> /\ words[1].kind \in Spelt)
  <2>1. LoneLabel(words) = << >>
    BY <1>4 DEF LoneLabel
  <2> QED BY <1>1, <1>4, <2>1 DEF TokensOf
<1> QED BY <1>3, <1>4

\* Every token is of a word of the line, a Label of one that is spelt so.
LEMMA LineTokens ==
  ASSUME NEW line \in Line
  PROVE  TokensOf(Tokenize(line), line)
<1> DEFINE rest == Choice(Statement(Tail(line)), LoneLabel(Tail(line)))
<1>1. CASE LoneLabel(line) = << >>
  <2>1. Tokenize(line) = << >>
    BY <1>1 DEF Tokenize
  <2> QED BY <2>1, LenProperties DEF TokensOf, Line
<1>2. CASE LoneLabel(line) # << >> /\ Statement(line) # << >>
  BY <1>2, StatementTokens DEF Tokenize, Choice
<1>3. CASE LoneLabel(line) # << >> /\ Statement(line) = << >>
  <2>1. /\ Len(line) \in Nat \ {0} /\ line[1].kind \in Spelt
        /\ Tail(line) \in Line /\ Len(Tail(line)) = Len(line) - 1
        /\ \A k \in 1 .. Len(Tail(line)) : Tail(line)[k] = line[k + 1]
    BY <1>3, LoneLabelTokens, EmptySeq, LenProperties, HeadTailProperties DEF Line
  <2>2. TokensOf(rest, Tail(line))
    BY <2>1, StatementTokens, LoneLabelTokens DEF Choice
  <2>3. Tokenize(line) = << "Label" >> \o rest
    BY <1>3 DEF Tokenize, Choice
  <2> HIDE DEF rest
  <2>4. /\ Tokenize(line) \in Seq(Rules) /\ Len(Tokenize(line)) = 1 + Len(rest)
        /\ Len(rest) \in Nat
        /\ \A k \in 2 .. Len(Tokenize(line)) : Tokenize(line)[k] = rest[k - 1]
    <3>1. << "Label" >> \in Seq(Rules) /\ Len(<< "Label" >>) = 1 /\ rest \in Seq(Rules)
      BY <2>2, OneSeq DEF TokensOf, Rules
    <3> QED BY <2>3, <3>1, ConcatProperties, LenProperties
  <2>5. ASSUME NEW k \in 1 .. Len(Tokenize(line)), Tokenize(line)[k] = "Label"
        PROVE  line[k].kind \in Spelt
    <3>1. CASE k = 1
      BY <2>1, <3>1
    <3>2. CASE k # 1
      <4>1. k - 1 \in 1 .. Len(rest) /\ rest[k - 1] = "Label" /\ (k - 1) + 1 = k
        BY <2>4, <2>5, <3>2
      <4>2. Tail(line)[k - 1].kind \in Spelt /\ k - 1 \in 1 .. Len(Tail(line))
        BY <2>1, <2>2, <4>1 DEF TokensOf
      <4> QED BY <2>1, <4>1, <4>2
    <3> QED BY <3>1, <3>2
  <2> QED BY <2>1, <2>2, <2>4, <2>5 DEF TokensOf
<1> QED BY <1>1, <1>2, <1>3

\* Behind the label of a line with more tokens begins a statement or another label.
LEMMA AfterLabel ==
  ASSUME NEW line \in Line, Tokenize(line) # << >>, Tokenize(line)[1] = "Label",
         Len(Tokenize(line)) # 1
  PROVE  /\ Tail(line) \in Line
         /\ Tokenize(Tail(line)) # << >>
<1> DEFINE rest == Choice(Statement(Tail(line)), LoneLabel(Tail(line)))
<1>1. LoneLabel(line) # << >> /\ Statement(line) = << >>
  BY StatementTokens DEF Tokenize, Choice
<1>2. Tokenize(line) = << "Label" >> \o rest
  BY <1>1 DEF Tokenize, Choice
<1>3. Tail(line) \in Line
  <2>1. line \in Seq(Word) /\ line # << >>
    BY <1>1 DEF LoneLabel, Line
  <2> QED BY <2>1, HeadTailProperties DEF Line
<1>4. rest # << >>
  <2>1. << "Label" >> \in Seq(Rules) /\ Len(<< "Label" >>) = 1
    BY OneSeq DEF Rules
  <2>2. rest = << >> => Tokenize(line) = << "Label" >>
    BY <1>2, <2>1, ConcatEmptySeq
  <2> HIDE DEF rest
  <2> QED BY <2>1, <2>2
<1>5. LoneLabel(Tail(line)) # << >>
  <2>1. CASE Statement(Tail(line)) = << >>
    BY <1>4, <2>1 DEF Choice
  <2>2. CASE Statement(Tail(line)) # << >>
    <3>1. Len(Statement(Tail(line))) \in Nat \ {0}
      BY <1>3, <2>2, StatementTokens, EmptySeq DEF TokensOf
    <3>2. Tail(line)[1].kind \in Spelt /\ Len(Tail(line)) # 0
      <4>1. TokensOf(Statement(Tail(line)), Tail(line)) /\ Len(Tail(line)) \in Nat
        BY <1>3, StatementTokens, LenProperties DEF Line
      <4> QED BY <2>2, <3>1, <4>1 DEF TokensOf
    <3>3. Tail(line) # << >>
      BY <3>2, EmptySeq
    <3> QED BY <1>3, <3>2, <3>3, LoneLabelTokens
  <2> QED BY <2>1, <2>2
<1>6. CASE Statement(Tail(line)) # << >>
  BY <1>3, <1>5, <1>6 DEF Tokenize, Choice
<1>7. CASE Statement(Tail(line)) = << >>
  <2> DEFINE more == Choice(Statement(Tail(Tail(line))), LoneLabel(Tail(Tail(line))))
  <2>1. Tokenize(Tail(line)) = << "Label" >> \o more
    BY <1>5, <1>7 DEF Tokenize, Choice
  <2>2. more \in Seq(Rules)
    <3>1. Tail(line) # << >>
      BY <1>3, <1>5, LoneLabelTokens
    <3>2. Tail(Tail(line)) \in Line
      BY <1>3, <3>1, HeadTailProperties DEF Line
    <3> QED BY <3>2, StatementTokens, LoneLabelTokens DEF Choice, TokensOf
  <2> HIDE DEF more
  <2>3. << "Label" >> \in Seq(Rules) /\ Len(<< "Label" >>) = 1
    BY OneSeq DEF Rules
  <2>4. Len(Tokenize(Tail(line))) = 1 + Len(more) /\ Len(more) \in Nat
    BY <2>1, <2>2, <2>3, ConcatProperties, LenProperties
  <2>5. Len(Tokenize(Tail(line))) # 0
    BY <2>4
  <2> QED BY <1>3, <2>5, EmptySeq
<1> QED BY <1>6, <1>7

-----------------------------------------------------------------------------
(* Lines put together.                                                     *)

\* The sequence of sequences that FlattenSeq puts together, up to each place.
Flattens(f, seqs) ==
  f = [k \in 1 .. Len(seqs) |-> IF k = 1 THEN seqs[k] ELSE f[k - 1] \o seqs[k]]

LEMMA FlattensExists ==
  ASSUME NEW S, NEW seqs \in Seq(Seq(S))
  PROVE  \E f \in [1 .. Len(seqs) -> Seq(S)] : Flattens(f, seqs)
<1> DEFINE D == 1 .. Len(seqs)
           Body(f, k) == IF k = 1 THEN seqs[k] ELSE f[k - 1] \o seqs[k]
           Good(f, m) == \A k \in D : k <= m => f[k] = Body(f, k)
           T == { m \in Nat : \E f \in [D -> Seq(S)] : Good(f, m) }
<1>0. Len(seqs) \in Nat /\ \A k \in D : seqs[k] \in Seq(S)
  BY LenProperties, ElementOfSeq
<1>1. 0 \in T
  <2> DEFINE f == [k \in D |-> << >>]
  <2>1. f \in [D -> Seq(S)]
    BY EmptySeq
  <2>2. Good(f, 0)
    BY <1>0
  <2> HIDE DEF f, Good
  <2> QED BY <2>1, <2>2
<1>2. ASSUME NEW m \in Nat, m \in T
      PROVE  m + 1 \in T
  <2>1. PICK f \in [D -> Seq(S)] : Good(f, m)
    BY <1>2
  <2> DEFINE g == [k \in D |-> IF k = m + 1 THEN Body(f, k) ELSE f[k]]
  <2>2. ASSUME NEW k \in D
        PROVE  Body(f, k) \in Seq(S)
    <3>1. CASE k = 1
      BY <1>0, <3>1
    <3>2. CASE k # 1
      <4>1. k - 1 \in D
        BY <1>0, <3>2
      <4>2. f[k - 1] \in Seq(S) /\ seqs[k] \in Seq(S)
        BY <1>0, <4>1
      <4> QED BY <3>2, <4>2, ConcatProperties
    <3> QED BY <3>1, <3>2
  <2>3. g \in [D -> Seq(S)]
    <3> HIDE DEF Body
    <3> QED BY <2>2
  <2>4. ASSUME NEW k \in D, k <= m + 1
        PROVE  g[k] = Body(g, k)
    <3>1. k # 1 => k - 1 \in D /\ k - 1 # m + 1
      BY <1>0, <2>4
    <3>2. Body(g, k) = Body(f, k)
      BY <3>1
    <3>3. CASE k = m + 1
      BY <3>2, <3>3
    <3>4. CASE k # m + 1
      <4>1. k <= m
        BY <1>0, <2>4, <3>4
      <4>2. g[k] = f[k]
        BY <3>4
      <4>3. f[k] = Body(f, k)
        BY <2>1, <4>1
      <4> QED BY <3>2, <4>2, <4>3
    <3> QED BY <3>3, <3>4
  <2> HIDE DEF g
  <2>5. Good(g, m + 1)
    BY <2>4
  <2> HIDE DEF Good
  <2> QED BY <2>3, <2>5
<1>3. Len(seqs) \in T
  <2> HIDE DEF T
  <2> QED BY <1>0, <1>1, <1>2, NatSetInduction
<1>4. PICK f \in [D -> Seq(S)] : Good(f, Len(seqs))
  BY <1>3
<1>5. ASSUME NEW k \in D
      PROVE  f[k] = Body(f, k)
  <2>1. k <= Len(seqs)
    BY <1>0
  <2> QED BY <1>4, <2>1
<1>6. Flattens(f, seqs)
  BY <1>4, <1>5 DEF Flattens
<1> QED BY <1>4, <1>6

LEMMA FlattenType ==
  ASSUME NEW S, NEW seqs \in Seq(Seq(S))
  PROVE  FlattenSeq(seqs) \in Seq(S)
<1> DEFINE f == CHOOSE g : Flattens(g, seqs)
<1>1. Flattens(f, seqs)
  BY FlattensExists
<1>2. Len(seqs) # 0 => FlattenSeq(seqs) = f[Len(seqs)]
  BY DEF FlattenSeq, Flattens
<1>3. Len(seqs) = 0 => FlattenSeq(seqs) = << >>
  BY EmptySeq DEF FlattenSeq
<1> HIDE DEF f
<1> DEFINE T == { m \in Nat : m + 1 <= Len(seqs) => f[m + 1] \in Seq(S) }
<1>4. Len(seqs) \in Nat /\ \A k \in 1 .. Len(seqs) : seqs[k] \in Seq(S)
  BY LenProperties, ElementOfSeq
<1>5. \A k \in 1 .. Len(seqs) : f[k] = IF k = 1 THEN seqs[k] ELSE f[k - 1] \o seqs[k]
  BY <1>1 DEF Flattens
<1>6. 0 \in T
  BY <1>4, <1>5
<1>7. ASSUME NEW m \in Nat, m \in T
      PROVE  m + 1 \in T
  <2> SUFFICES ASSUME m + 1 + 1 <= Len(seqs)
               PROVE  f[m + 1 + 1] \in Seq(S)
    BY <1>7
  <2>1. f[m + 1] \in Seq(S) /\ seqs[m + 1 + 1] \in Seq(S)
    BY <1>4, <1>7
  <2>2. f[m + 1 + 1] = f[m + 1] \o seqs[m + 1 + 1]
    <3>1. m + 1 + 1 \in 1 .. Len(seqs) /\ m + 1 + 1 # 1 /\ (m + 1 + 1) - 1 = m + 1
      BY <1>4
    <3> QED BY <1>5, <3>1
  <2> QED BY <2>1, <2>2, ConcatProperties
<1>8. \A m \in Nat : m \in T
  <2> HIDE DEF T
  <2> QED BY <1>6, <1>7, NatSetInduction
<1>9. CASE Len(seqs) = 0
  BY <1>3, <1>9
<1>10. CASE Len(seqs) # 0
  <2>1. PICK m \in Nat : m + 1 = Len(seqs)
    <3>1. Len(seqs) - 1 \in Nat /\ (Len(seqs) - 1) + 1 = Len(seqs)
      BY <1>4, <1>10
    <3> QED BY <3>1
  <2>2. m + 1 <= Len(seqs) => f[m + 1] \in Seq(S)
    BY <1>8
  <2>3. f[Len(seqs)] \in Seq(S)
    BY <1>4, <2>1, <2>2
  <2> QED BY <1>2, <1>10, <2>3
<1> QED BY <1>9, <1>10

-----------------------------------------------------------------------------
(* The value of an expression.                                             *)

I32 == MinInt .. MaxInt

LEMMA WrapInI32 == \A n \in Int : Wrap(n) \in I32
  BY MaxIntAssumption DEF Wrap, I32, MinInt

\* A division that does not panic: what Rust's / and % return.
LEMMA QuotientInI32 ==
  ASSUME NEW a \in I32, NEW b \in I32, ~ Undivided(a, b)
  PROVE  Quotient(a, b) \in I32 /\ a - b * Quotient(a, b) \in I32
<1> DEFINE x == Abs(a)
           y == Abs(b)
           q == x \div y
           m == MaxInt
<1>0. /\ m \in Nat /\ a \in Int /\ b \in Int /\ b # 0
      /\ -(m + 1) <= a /\ a <= m /\ -(m + 1) <= b /\ b <= m
      /\ ~ (a = -(m + 1) /\ b = -1)
  BY MaxIntAssumption DEF I32, MinInt, Undivided
<1>1. /\ x \in Nat /\ y \in Nat /\ y >= 1 /\ x <= m + 1
      /\ (a >= 0 => x = a) /\ (a < 0 => x = -a)
      /\ (b >= 0 => y = b) /\ (b < 0 => y = -b)
  BY <1>0 DEF Abs
<1> HIDE DEF x, y, m
<1>2. q \in Nat /\ y * q <= x /\ x < y * q + y
  BY <1>1
<1> HIDE DEF q
<1>3. y * q \in Nat /\ q <= y * q /\ (y >= 2 => 2 * q <= y * q)
  BY <1>1, <1>2
<1>4. Quotient(a, b) = IF (a < 0) = (b < 0) THEN q ELSE -q
  BY DEF Quotient, q, x, y
<1>5. b * Quotient(a, b) = IF a < 0 THEN -(y * q) ELSE y * q
  <2>1. CASE b >= 0
    <3>1. b = y /\ Quotient(a, b) = IF a < 0 THEN -q ELSE q
      BY <1>0, <1>1, <1>4, <2>1
    <3>2. y * (-q) = -(y * q)
      BY <1>1, <1>2
    <3> QED BY <3>1, <3>2
  <2>2. CASE b < 0
    <3>1. b = -y /\ Quotient(a, b) = IF a < 0 THEN q ELSE -q
      BY <1>0, <1>1, <1>4, <2>2
    <3>2. (-y) * q = -(y * q) /\ (-y) * (-q) = y * q
      BY <1>1, <1>2
    <3> QED BY <3>1, <3>2
  <2> QED BY <1>0, <2>1, <2>2
<1>6. Quotient(a, b) \in -(m + 1) .. m
  <2>1. CASE q <= m
    BY <1>0, <1>2, <1>4, <2>1
  <2>2. CASE q > m
    <3>1. q = m + 1 /\ y * q = x /\ x = m + 1 /\ y = 1
      BY <1>0, <1>1, <1>2, <1>3, <2>2
    <3>2. a = -(m + 1) /\ b = 1
      BY <1>0, <1>1, <3>1
    <3>3. Quotient(a, b) = -q
      BY <1>0, <1>4, <3>2
    <3> QED BY <1>0, <3>1, <3>3
  <2> QED BY <1>0, <1>2, <2>1, <2>2
<1>7. a - b * Quotient(a, b) \in -(m + 1) .. m
  <2> DEFINE p == y * q
  <2>1. p \in Nat /\ p <= x
    BY <1>2, <1>3
  <2> HIDE DEF p
  <2>2. CASE a < 0
    <3>1. a - b * Quotient(a, b) = p - x
      BY <1>0, <1>1, <1>5, <2>1, <2>2 DEF p
    <3> QED BY <1>0, <1>1, <2>1, <3>1
  <2>3. CASE a >= 0
    <3>1. a - b * Quotient(a, b) = x - p
      BY <1>0, <1>1, <1>5, <2>1, <2>3 DEF p
    <3> QED BY <1>0, <1>1, <2>1, <2>3, <3>1
  <2> QED BY <1>0, <2>2, <2>3
<1> QED BY <1>6, <1>7 DEF I32, MinInt, m

LEMMA OutcomeType ==
  /\ \A n \in I32 : Is(n) \in Outcome
  /\ Panicked \in Outcome
  /\ 0 \in I32
<1>1. 0 \in MinInt .. MaxInt
  BY MaxIntAssumption DEF MinInt
<1> QED BY <1>1 DEF Is, Panicked, Outcome, I32

LEMMA CombinedType ==
  ASSUME NEW op \in BinaryOp, NEW a \in I32, NEW b \in I32
  PROVE  Combined(op, a, b) \in Outcome
<1>0. a \in Int /\ b \in Int
  BY MaxIntAssumption DEF I32, MinInt
<1>1. a * b \in Int /\ a + b \in Int /\ a - b \in Int
  BY <1>0
<1>2. Is(Wrap(a * b)) \in Outcome /\ Is(Wrap(a + b)) \in Outcome /\ Is(Wrap(a - b)) \in Outcome
  BY <1>1, WrapInI32, OutcomeType
<1>3. ~ Undivided(a, b) =>
        Is(Quotient(a, b)) \in Outcome /\ Is(a - b * Quotient(a, b)) \in Outcome
  BY QuotientInI32, OutcomeType
<1>4. \A t : Is(Truth(t)) \in Outcome
  <2>1. 1 \in I32
    BY MaxIntAssumption DEF I32, MinInt
  <2> QED BY <2>1, OutcomeType DEF Truth
<1>5. op \in {"*", "/", "%", "+", "-", ">", ">=", "<", "<=", "==", "!=", "&&", "||"}
  BY DEF BinaryOp, MultiplyOp, AddOp, CompareOp, BooleanOp
<1> HIDE DEF Outcome, Is, Truth, Wrap
<1> QED BY <1>2, <1>3, <1>4, <1>5, OutcomeType DEF Combined

\* The signs in front of an operand, as FoldLeft applies them: the last one of each
\* set of places upon the others.
Signings(g, base, signs) ==
  g = [s \in SUBSET DOMAIN signs |->
         IF s = {} THEN base
         ELSE LET k == Max(s) IN Signed(signs[k].name, g[s \ {k}])]

LEMMA SignSets ==
  ASSUME NEW signs \in Line
  PROVE  /\ \A name : \A n \in I32 : Signed(name, n) \in I32
         /\ Cardinality(DOMAIN signs) \in Nat
         /\ \A s \in SUBSET DOMAIN signs :
              /\ Cardinality(s) \in 0 .. Cardinality(DOMAIN signs)
              /\ s # {} => /\ s \ {Max(s)} \in SUBSET DOMAIN signs
                           /\ Cardinality(s \ {Max(s)}) < Cardinality(s)
<1> DEFINE D == DOMAIN signs
           S == SUBSET D
<1>1. \A name : \A n \in I32 : Signed(name, n) \in I32
  <2>1. \A n \in I32 : -n \in Int /\ Truth(n = 0) \in I32
    BY MaxIntAssumption DEF I32, MinInt, Truth
  <2> QED BY <2>1, WrapInI32 DEF Signed
<1>2. IsFiniteSet(D) /\ D = 1 .. Len(signs) /\ Len(signs) \in Nat
  BY LenProperties, FS_Interval DEF Line
<1>3. \A s \in S : s # {} => Max(s) \in s
  <2> SUFFICES ASSUME NEW s \in S, s # {} PROVE Max(s) \in s
    OBVIOUS
  <2>1. s \in SUBSET (0 .. Len(signs))
    BY <1>2
  <2> QED BY <1>2, <2>1, LargestExists DEF Max
<1>4. /\ \A s \in S : IsFiniteSet(s) /\ Cardinality(s) \in 0 .. Cardinality(D)
      /\ Cardinality(D) \in Nat
  BY <1>2, FS_Subset, FS_CardinalityType
<1>5. ASSUME NEW s \in S, s # {}
      PROVE  s \ {Max(s)} \in S /\ Cardinality(s \ {Max(s)}) < Cardinality(s)
  <2>1. Cardinality(s \ {Max(s)}) = Cardinality(s) - 1
    BY <1>3, <1>4, <1>5, FS_RemoveElement
  <2> QED BY <1>4, <1>5, <2>1
<1> QED BY <1>1, <1>4, <1>5

LEMMA AppliedSigns ==
  ASSUME NEW base \in I32, NEW signs \in Line
  PROVE  \E f : Signings(f, base, signs) /\ Applied(signs, base) = f[DOMAIN signs]
<1> DEFINE D == DOMAIN signs
           S == SUBSET D
           Body(g) == [s \in S |-> IF s = {} THEN base
                                   ELSE LET k == Max(s) IN Signed(signs[k].name, g[s \ {k}])]
<1>1. \A name : \A n \in I32 : Signed(name, n) \in I32
  BY SignSets
<1>2. /\ \A s \in S : Cardinality(s) \in 0 .. Cardinality(D)
      /\ Cardinality(D) \in Nat
  BY SignSets
<1>3. ASSUME NEW s \in S, s # {}
      PROVE  s \ {Max(s)} \in S /\ Cardinality(s \ {Max(s)}) < Cardinality(s)
  BY <1>3, SignSets
<1> DEFINE measure == [s \in S |-> Cardinality(s)]
           body == [g \in [S -> I32] |-> Body(g)]
<1>4. \E g \in [S -> I32] : g = body[g]
  <2>1. measure \in [S -> 0 .. Cardinality(D)]
    BY <1>2
  <2>2. body \in [[S -> I32] -> [S -> I32]]
    <3>1. ASSUME NEW g \in [S -> I32], NEW s \in S, s # {}
          PROVE  Signed(signs[Max(s)].name, g[s \ {Max(s)}]) \in I32
      <4>1. g[s \ {Max(s)}] \in I32
        BY <1>3, <3>1
      <4> HIDE DEF S, D
      <4> QED BY <1>1, <4>1
    <3>2. \A g \in [S -> I32] : Body(g) \in [S -> I32]
      <4> HIDE DEF S, D
      <4> QED BY <3>1
    <3> HIDE DEF S, D, Body
    <3> QED BY <3>2
  <2>3. ASSUME NEW g \in [S -> I32], NEW h \in [S -> I32], NEW s \in S,
               \A t \in S : measure[t] < measure[s] => g[t] = h[t]
        PROVE  body[g][s] = body[h][s]
    <3>1. CASE s = {}
      BY <3>1
    <3>2. CASE s # {}
      <4>1. g[s \ {Max(s)}] = h[s \ {Max(s)}]
        BY <1>3, <2>3, <3>2
      <4> QED BY <3>2, <4>1
    <3> QED BY <3>1, <3>2
  <2>4. Descends(body, measure, Cardinality(D), S, I32)
    <3> HIDE DEF measure, body, S, D
    <3> QED BY <1>2, <2>1, <2>2, <2>3 DEF Descends
  <2> HIDE DEF measure, body, S, D
  <2> QED BY <2>4, RecursionExists
<1>5. \E g : Signings(g, base, signs)
  BY <1>4 DEF Signings
<1> DEFINE f == CHOOSE g : Signings(g, base, signs)
<1>6. Applied(signs, base) = f[D]
  BY DEF Applied, FoldLeft, MapThenFoldSet, Signings, Max
<1>7. Signings(f, base, signs)
  BY <1>5
<1> QED BY <1>6, <1>7

LEMMA SignsType ==
  ASSUME NEW base \in I32, NEW signs \in Line
  PROVE  Applied(signs, base) \in I32
<1> DEFINE D == DOMAIN signs
           S == SUBSET D
           Body(g) == [s \in S |-> IF s = {} THEN base
                                   ELSE LET k == Max(s) IN Signed(signs[k].name, g[s \ {k}])]
<1>1. \A name : \A n \in I32 : Signed(name, n) \in I32
  BY SignSets
<1>2. /\ \A s \in S : Cardinality(s) \in 0 .. Cardinality(D)
      /\ Cardinality(D) \in Nat
  BY SignSets
<1>3. ASSUME NEW s \in S, s # {}
      PROVE  s \ {Max(s)} \in S /\ Cardinality(s \ {Max(s)}) < Cardinality(s)
  BY <1>3, SignSets
<1>4. PICK f : Signings(f, base, signs) /\ Applied(signs, base) = f[D]
  BY AppliedSigns
<1>5. f = Body(f)
  BY <1>4 DEF Signings
<1> DEFINE U == { n \in Nat : \A s \in S : Cardinality(s) <= n => f[s] \in I32 }
<1>6. \A s \in S : f[s] = IF s = {} THEN base ELSE Signed(signs[Max(s)].name, f[s \ {Max(s)}])
  BY <1>5
<1>7. f[{}] \in I32
  BY <1>6
<1>8. 0 \in U
  <2>1. ASSUME NEW s \in S, Cardinality(s) <= 0
        PROVE  f[s] \in I32
    <3>1. Cardinality(s) = 0
      BY <1>2, <2>1
    <3>2. s = {}
      <4> SUFFICES ASSUME s # {} PROVE FALSE
        OBVIOUS
      <4>1. s \ {Max(s)} \in S /\ Cardinality(s \ {Max(s)}) < 0
        BY <1>3, <3>1
      <4>2. Cardinality(s \ {Max(s)}) \in 0 .. Cardinality(D)
        BY <1>2, <4>1
      <4> QED BY <1>2, <4>1, <4>2
    <3> QED BY <1>7, <3>2
  <2> QED BY <2>1
<1>9. ASSUME NEW n \in Nat, n \in U
       PROVE  n + 1 \in U
  <2>1. ASSUME NEW s \in S, Cardinality(s) <= n + 1
        PROVE  f[s] \in I32
    <3>1. CASE s = {}
      BY <1>7, <3>1
    <3>2. CASE s # {}
      <4>1. s \ {Max(s)} \in S /\ Cardinality(s \ {Max(s)}) <= n
        BY <1>2, <1>3, <2>1, <3>2
      <4>2. f[s \ {Max(s)}] \in I32
        BY <1>9, <4>1
      <4>3. f[s] = Signed(signs[Max(s)].name, f[s \ {Max(s)}])
        <5> HIDE DEF S, D
        <5> QED BY <1>6, <3>2
      <4> QED BY <1>1, <4>2, <4>3
    <3> QED BY <3>1, <3>2
  <2> QED BY <2>1
<1>10. \A n \in Nat : n \in U
  <2> HIDE DEF U
  <2> QED BY <1>8, <1>9, NatSetInduction
<1>11. f[D] \in I32
  BY <1>2, <1>10
<1> QED BY <1>4, <1>11

\* A span comes after those inside it, and after itself on a level further inside.
SpanMeasure(words, s) == (s.to + Len(words) + 1 - s.from) * 5 + 5 - s.level

Below(words, s) ==
  { t \in Spans(words) : SpanMeasure(words, t) < SpanMeasure(words, s) }

LEMMA SpansBelow ==
  ASSUME NEW words \in Line, NEW s \in Spans(words)
  PROVE  /\ SpanMeasure(words, s) \in 0 .. 10 * Len(words) + 10
         /\ s.level # 5 => [s EXCEPT !.level = @ + 1] \in Below(words, s)
         /\ \A k \in s.from .. s.to :
              /\ k \in 1 .. Len(words)
              /\ s.level = 5 => [level |-> 1, from |-> k + 1, to |-> s.to - 1] \in Below(words, s)
              /\ s.level # 5 =>
                   /\ [s EXCEPT !.to = k - 1] \in Below(words, s)
                   /\ [level |-> s.level + 1, from |-> k + 1, to |-> s.to] \in Below(words, s)
<1>1. Len(words) \in Nat
  BY LenProperties DEF Line
<1>2. PICK n \in Nat : n = Len(words)
  BY <1>1
<1>3. /\ s \in [level : 1 .. 5, from : 1 .. n + 1, to : 0 .. n]
      /\ Spans(words) = [level : 1 .. 5, from : 1 .. n + 1, to : 0 .. n]
  BY <1>2 DEF Spans
<1>4. \A t : SpanMeasure(words, t) = (t.to + n + 1 - t.from) * 5 + 5 - t.level
  BY <1>2 DEF SpanMeasure
<1>5. /\ s.level \in 1 .. 5 /\ s.from \in 1 .. n + 1 /\ s.to \in 0 .. n
      /\ s = [level |-> s.level, from |-> s.from, to |-> s.to]
  BY <1>3
<1>6. SpanMeasure(words, s) \in 0 .. 10 * Len(words) + 10
  <2>1. PICK l \in 1 .. 5, from \in 1 .. n + 1, to \in 0 .. n :
           l = s.level /\ from = s.from /\ to = s.to
    BY <1>5
  <2>2. SpanMeasure(words, s) = (to + n + 1 - from) * 5 + 5 - l
    BY <1>4, <2>1
  <2>3. (to + n + 1 - from) * 5 + 5 - l \in 0 .. 10 * n + 10
    OBVIOUS
  <2> QED BY <1>2, <2>2, <2>3
<1>7. ASSUME s.level # 5
      PROVE  [s EXCEPT !.level = @ + 1] \in Below(words, s)
  <2>1. [s EXCEPT !.level = @ + 1] = [level |-> s.level + 1, from |-> s.from, to |-> s.to]
    BY <1>5
  <2>2. [level |-> s.level + 1, from |-> s.from, to |-> s.to] \in Below(words, s)
    BY <1>3, <1>4, <1>5, <1>7 DEF Below
  <2> QED BY <2>1, <2>2
<1>8. ASSUME NEW k \in s.from .. s.to
      PROVE  /\ k \in 1 .. Len(words)
             /\ s.level = 5 => [level |-> 1, from |-> k + 1, to |-> s.to - 1] \in Below(words, s)
             /\ s.level # 5 =>
                  /\ [s EXCEPT !.to = k - 1] \in Below(words, s)
                  /\ [level |-> s.level + 1, from |-> k + 1, to |-> s.to] \in Below(words, s)
  <2>1. k \in 1 .. n /\ k >= s.from /\ k <= s.to
    BY <1>5
  <2>2. s.level = 5 => [level |-> 1, from |-> k + 1, to |-> s.to - 1] \in Below(words, s)
    BY <1>3, <1>4, <1>5, <2>1 DEF Below
  <2>3. [s EXCEPT !.to = k - 1] = [level |-> s.level, from |-> s.from, to |-> k - 1]
    BY <1>5
  <2>4. [level |-> s.level, from |-> s.from, to |-> k - 1] \in Below(words, s)
    BY <1>3, <1>4, <1>5, <2>1 DEF Below
  <2>5. s.level # 5 => [level |-> s.level + 1, from |-> k + 1, to |-> s.to] \in Below(words, s)
    BY <1>3, <1>4, <1>5, <2>1 DEF Below
  <2> QED BY <1>2, <2>1, <2>2, <2>3, <2>4, <2>5
<1> QED BY <1>6, <1>7, <1>8

\* The operand and the last operator of a span, where there is one.
LEMMA SpanParts ==
  ASSUME NEW words \in Line, NEW s \in Spans(words)
  PROVE  /\ Operands(words, s) # {} =>
              (CHOOSE k \in Operands(words, s) : \A j \in Operands(words, s) : k <= j)
                \in s.from .. s.to
         /\ Splits(words, s) # {} =>
              /\ LastSplit(Splits(words, s)) \in s.from .. s.to
              /\ words[LastSplit(Splits(words, s))].name \in Levels[s.level]
<1>1. /\ Len(words) \in Nat
      /\ s.from \in 1 .. Len(words) + 1 /\ s.to \in 0 .. Len(words)
  BY LenProperties DEF Line, Spans
<1>2. ASSUME Operands(words, s) # {}
      PROVE  (CHOOSE k \in Operands(words, s) : \A j \in Operands(words, s) : k <= j)
               \in s.from .. s.to
  <2>1. Operands(words, s) \subseteq s.from .. s.to /\ s.from .. s.to \subseteq Nat
    BY <1>1 DEF Operands
  <2>2. \E k \in Operands(words, s) : \A j \in Operands(words, s) : k <= j
    BY <1>2, <2>1, SmallestExists
  <2> QED BY <2>1, <2>2
<1>3. ASSUME Splits(words, s) # {}
      PROVE  /\ LastSplit(Splits(words, s)) \in s.from .. s.to
             /\ words[LastSplit(Splits(words, s))].name \in Levels[s.level]
  <2>1. Splits(words, s) \in SUBSET (0 .. Len(words))
    BY <1>1 DEF Splits
  <2>2. \E k \in Splits(words, s) : \A j \in Splits(words, s) : k >= j
    BY <1>1, <1>3, <2>1, LargestExists
  <2>3. \A k \in Splits(words, s), j \in Splits(words, s) : k >= j <=> j <= k
    BY <1>1, <2>1
  <2>4. LastSplit(Splits(words, s)) \in Splits(words, s)
    BY <2>2, <2>3 DEF LastSplit
  <2> QED BY <2>4 DEF Splits
<1> QED BY <1>2, <1>3

LEMMA AtomType == \A word \in Word : AtomValue(word) \in Outcome
<1> SUFFICES ASSUME NEW word \in Word, word.kind = "Number", word.value <= MaxInt
             PROVE  Is(word.value) \in Outcome
  BY OutcomeType DEF AtomValue
<1>1. word.value \in I32
  BY WordFields, MaxIntAssumption DEF I32, MinInt
<1> QED BY <1>1, OutcomeType

\* If the values inside of a span are i32, so is its own.
LEMMA SpanType ==
  ASSUME NEW words \in Line, NEW s \in Spans(words), NEW value,
         \A t \in Below(words, s) : value[t] \in Outcome
  PROVE  SpanValue(words, value, s) \in Outcome
<1>0. s.level \in 1 .. 5 /\ s.from \in 1 .. Len(words) + 1 /\ s.to \in 0 .. Len(words)
  BY DEF Spans
<1>1. CASE s.level = 5 /\ Operands(words, s) = {}
  BY <1>1, OutcomeType DEF SpanValue
<1>2. CASE s.level = 5 /\ Operands(words, s) # {}
  <2> DEFINE k     == CHOOSE k \in Operands(words, s) : \A j \in Operands(words, s) : k <= j
             atom  == IF words[k].kind = "Open"
                        THEN value[[level |-> 1, from |-> k + 1, to |-> s.to - 1]]
                        ELSE AtomValue(words[k])
             signs == SubSeq(words, s.from, k - 1)
  <2>1. SpanValue(words, value, s) =
          IF atom.panics THEN Panicked
          ELSE Is(Applied(signs, atom.value))
    BY <1>2 DEF SpanValue
  <2>2. k \in s.from .. s.to
    BY <1>2, SpanParts
  <2> HIDE DEF k
  <2>3. words[k] \in Word
    <3>1. k \in 1 .. Len(words)
      BY <2>2, SpansBelow
    <3> QED BY <3>1, ElementOfSeq DEF Line
  <2>4. atom \in Outcome
    BY <1>2, <2>2, <2>3, SpansBelow, AtomType
  <2>5. signs \in Line
    <3>1. Len(words) \in Nat /\ words \in Seq(Word)
      BY LenProperties DEF Line
    <3>2. s.from \in Nat /\ 1 <= s.from /\ k - 1 \in Nat /\ k - 1 <= Len(words)
      BY <1>0, <2>2, <3>1
    <3> QED BY <3>1, <3>2, PartSeq DEF Line
  <2> HIDE DEF atom, signs
  <2>6. atom.value \in I32
    BY <2>4 DEF Outcome, I32
  <2>7. Applied(signs, atom.value) \in I32
    BY <2>5, <2>6, SignsType
  <2> QED BY <2>1, <2>7, OutcomeType
<1>3. CASE s.level # 5 /\ Splits(words, s) = {}
  <2>1. SpanValue(words, value, s) = value[[s EXCEPT !.level = @ + 1]]
    BY <1>3 DEF SpanValue
  <2> QED BY <1>3, <2>1, SpansBelow
<1>4. CASE s.level # 5 /\ Splits(words, s) # {}
  <2> DEFINE k     == LastSplit(Splits(words, s))
             left  == value[[s EXCEPT !.to = k - 1]]
             right == value[[level |-> s.level + 1, from |-> k + 1, to |-> s.to]]
  <2>1. SpanValue(words, value, s) =
          IF left.panics \/ right.panics THEN Panicked
          ELSE Combined(words[k].name, left.value, right.value)
    BY <1>4 DEF SpanValue
  <2>2. k \in s.from .. s.to /\ words[k].name \in Levels[s.level]
    BY <1>4, SpanParts
  <2> HIDE DEF k
  <2>3. left \in Outcome /\ right \in Outcome
    <3> DEFINE one   == [s EXCEPT !.to = k - 1]
               other == [level |-> s.level + 1, from |-> k + 1, to |-> s.to]
    <3>1. one \in Below(words, s) /\ other \in Below(words, s)
      BY <1>4, <2>2, SpansBelow
    <3> HIDE DEF one, other
    <3>2. value[one] \in Outcome /\ value[other] \in Outcome
      BY <3>1
    <3> QED BY <3>2 DEF one, other
  <2> HIDE DEF left, right
  <2>4. left.value \in I32 /\ right.value \in I32
    BY <2>3 DEF Outcome, I32
  <2>5. words[k].name \in BinaryOp
    <3>1. \A l \in 1 .. 4 : Levels[l] \subseteq BinaryOp
      BY DEF Levels, BinaryOp
    <3>2. s.level \in 1 .. 4
      BY <1>0, <1>4
    <3> QED BY <2>2, <3>1, <3>2
  <2> QED BY <2>1, <2>4, <2>5, CombinedType, OutcomeType
<1> QED BY <1>1, <1>2, <1>3, <1>4

\* The value of a span is that of those inside it.
LEMMA SpanSame ==
  ASSUME NEW words \in Line, NEW s \in Spans(words), NEW v, NEW w,
         \A t \in Below(words, s) : v[t] = w[t]
  PROVE  SpanValue(words, v, s) = SpanValue(words, w, s)
<1>1. CASE s.level = 5 /\ Operands(words, s) = {}
  BY <1>1 DEF SpanValue
<1>2. CASE s.level = 5 /\ Operands(words, s) # {}
  <2> DEFINE k     == CHOOSE k \in Operands(words, s) : \A j \in Operands(words, s) : k <= j
             inner == [level |-> 1, from |-> k + 1, to |-> s.to - 1]
             atom(value)  == IF words[k].kind = "Open" THEN value[inner] ELSE AtomValue(words[k])
  <2>1. \A value :
          SpanValue(words, value, s) =
            IF atom(value).panics THEN Panicked
            ELSE Is(Applied(SubSeq(words, s.from, k - 1), atom(value).value))
    BY <1>2 DEF SpanValue
  <2>2. k \in s.from .. s.to
    BY <1>2, SpanParts
  <2> HIDE DEF k
  <2>3. v[inner] = w[inner]
    BY <1>2, <2>2, SpansBelow
  <2> HIDE DEF inner
  <2>4. atom(v) = atom(w)
    BY <2>3
  <2> HIDE DEF atom
  <2> QED BY <2>1, <2>4
<1>3. CASE s.level # 5 /\ Splits(words, s) = {}
  <2>1. \A value : SpanValue(words, value, s) = value[[s EXCEPT !.level = @ + 1]]
    BY <1>3 DEF SpanValue
  <2> QED BY <1>3, <2>1, SpansBelow
<1>4. CASE s.level # 5 /\ Splits(words, s) # {}
  <2> DEFINE k     == LastSplit(Splits(words, s))
             left  == [s EXCEPT !.to = k - 1]
             right == [level |-> s.level + 1, from |-> k + 1, to |-> s.to]
  <2>1. \A value :
          SpanValue(words, value, s) =
            IF value[left].panics \/ value[right].panics THEN Panicked
            ELSE Combined(words[k].name, value[left].value, value[right].value)
    BY <1>4 DEF SpanValue
  <2>2. k \in s.from .. s.to
    BY <1>4, SpanParts
  <2> HIDE DEF k
  <2>3. v[left] = w[left] /\ v[right] = w[right]
    BY <1>4, <2>2, SpansBelow
  <2> HIDE DEF left, right
  <2> QED BY <2>1, <2>3
<1>5. s.level = 5 \/ s.level # 5
  OBVIOUS
<1> QED BY <1>1, <1>2, <1>3, <1>4

\* The values of all spans, as Evaluate recurs through them.
Evaluates(value, words) == value = [s \in Spans(words) |-> SpanValue(words, value, s)]

LEMMA EvaluatesExists ==
  ASSUME NEW words \in Line
  PROVE  \E value \in [Spans(words) -> Outcome] : Evaluates(value, words)
<1> DEFINE D == Spans(words)
           N == 10 * Len(words) + 10
           measure == [s \in D |-> SpanMeasure(words, s)]
           body == [v \in [D -> Outcome] |-> [s \in D |-> SpanValue(words, v, s)]]
<1>1. N \in Nat
  BY LenProperties DEF Line
<1>2. measure \in [D -> 0 .. N]
  BY SpansBelow
<1>3. ASSUME NEW v \in [D -> Outcome], NEW s \in D
      PROVE  SpanValue(words, v, s) \in Outcome
  <2>1. \A t \in Below(words, s) : v[t] \in Outcome
    BY DEF Below
  <2> QED BY <2>1, SpanType
<1>4. body \in [[D -> Outcome] -> [D -> Outcome]]
  <2> HIDE DEF D
  <2> QED BY <1>3
<1>5. ASSUME NEW v \in [D -> Outcome], NEW w \in [D -> Outcome], NEW s \in D,
             \A t \in D : measure[t] < measure[s] => v[t] = w[t]
      PROVE  body[v][s] = body[w][s]
  <2>1. \A t \in Below(words, s) : v[t] = w[t]
    BY <1>5 DEF Below
  <2>2. SpanValue(words, v, s) = SpanValue(words, w, s)
    BY <2>1, SpanSame
  <2> QED BY <2>2
<1>6. Descends(body, measure, N, D, Outcome)
  <2> HIDE DEF body, measure, N, D
  <2> QED BY <1>1, <1>2, <1>4, <1>5 DEF Descends
<1>7. PICK v \in [D -> Outcome] : v = body[v]
  <2> HIDE DEF body, measure, N, D
  <2> QED BY <1>6, OutcomeType, RecursionExists
<1> QED BY <1>7 DEF Evaluates

\* An expression has a value that is an i32, or its evaluation panics, for all words.
THEOREM EvaluateCorrect == \A words \in Line : Evaluate(words) \in Outcome
<1> SUFFICES ASSUME NEW words \in Line PROVE Evaluate(words) \in Outcome
  OBVIOUS
<1> DEFINE value == CHOOSE v : Evaluates(v, words)
           whole == [level |-> 1, from |-> 1, to |-> Len(words)]
           T == { n \in Nat : \A s \in Spans(words) :
                                SpanMeasure(words, s) < n => value[s] \in Outcome }
<1>1. Evaluates(value, words)
  BY EvaluatesExists
<1>2. Evaluate(words) = value[whole]
  BY DEF Evaluate, Evaluates
<1> HIDE DEF value
<1>3. \A s \in Spans(words) : SpanMeasure(words, s) \in Nat
  <2>1. Len(words) \in Nat
    BY LenProperties DEF Line
  <2> SUFFICES ASSUME NEW s \in Spans(words) PROVE SpanMeasure(words, s) \in Nat
    OBVIOUS
  <2>2. SpanMeasure(words, s) \in 0 .. 10 * Len(words) + 10
    BY SpansBelow
  <2> QED BY <2>1, <2>2
<1>4. 0 \in T
  BY <1>3
<1>5. ASSUME NEW n \in Nat, n \in T
      PROVE  n + 1 \in T
  <2>1. ASSUME NEW s \in Spans(words), SpanMeasure(words, s) < n + 1
        PROVE  value[s] \in Outcome
    <3>1. ASSUME NEW t \in Below(words, s)
          PROVE  value[t] \in Outcome
      <4>1. t \in Spans(words) /\ SpanMeasure(words, t) < n
        BY <1>3, <2>1, <3>1 DEF Below
      <4> QED BY <1>5, <4>1
    <3>2. SpanValue(words, value, s) \in Outcome
      BY <3>1, SpanType
    <3> QED BY <1>1, <3>2 DEF Evaluates
  <2> QED BY <2>1
<1>6. \A n \in Nat : n \in T
  <2> HIDE DEF T
  <2> QED BY <1>4, <1>5, NatSetInduction
<1>7. whole \in Spans(words)
  BY LenProperties DEF Spans, Line
<1>8. SpanMeasure(words, whole) + 1 \in T
  BY <1>3, <1>6, <1>7
<1>9. value[whole] \in Outcome
  <2> HIDE DEF whole
  <2> QED BY <1>3, <1>7, <1>8
<1> QED BY <1>2, <1>9

\* What is taken as an expression is one, and its value is natural unless it is refused.
LEMMA EvaluateExpressionType ==
  ASSUME NEW words \in Line
  PROVE  /\ EvaluateExpression(words).value \in I32
         /\ EvaluateExpression(words).error \in {"", "InvalidOrigin", "InvalidSyntax"}
         /\ EvaluateExpression(words).error = "" => EvaluateExpression(words).value \in 0 .. MaxInt
         /\ EvaluateExpression(words).panics \in BOOLEAN
<1> DEFINE e == ExpressionEnd(words)
           v == Evaluate(SubSeq(words, 1, e))
<1>1. CASE e = 0
  BY <1>1, OutcomeType DEF EvaluateExpression, NoExpression
<1>2. CASE e # 0
  <2>1. e \in 0 .. Len(words) /\ Len(words) \in Nat
    BY ExpressionEndIn, LenProperties DEF Line
  <2>2. SubSeq(words, 1, e) \in Line
    BY <2>1, PartSeq DEF Line
  <2>3. v \in Outcome
    BY <2>2, EvaluateCorrect
  <2>4. EvaluateExpression(words) =
          [panics |-> v.panics, value |-> v.value,
           error  |-> IF v.value < 0 THEN "InvalidOrigin" ELSE ""]
    BY <1>2 DEF EvaluateExpression
  <2> HIDE DEF v
  <2>5. PICK p \in BOOLEAN, n \in I32 : v.panics = p /\ v.value = n
    BY <2>3 DEF Outcome, I32
  <2> DEFINE r == IF n < 0 THEN "InvalidOrigin" ELSE ""
  <2>6. EvaluateExpression(words) = [panics |-> p, value |-> n, error |-> r]
    BY <2>4, <2>5
  <2>7. r \in {"", "InvalidOrigin"} /\ (r = "" => n \in 0 .. MaxInt)
    BY MaxIntAssumption DEF I32, MinInt
  <2> HIDE DEF r
  <2>8. EvaluateExpression(words).value = n
    BY <2>6
  <2>9. EvaluateExpression(words).error = r
    BY <2>6
  <2>10. EvaluateExpression(words).panics = p
    BY <2>6
  <2> QED BY <2>7, <2>8, <2>9, <2>10
<1> QED BY <1>1, <1>2

-----------------------------------------------------------------------------
(* The parts of the expansion, for any words W that the text is made of: so *)
(* what the proof says of all words it says of those that are not ORG.      *)

\* Words that the numbers are among, which are put for labels.
Closed(W) == W \subseteq Word /\ Sign("-") \in W /\ \A n \in Nat : Number(n) \in W

Texts(W) == Seq(Seq(W))

ValuesOf(W) ==
  [kind : {"AbsoluteOffset", "RelativeOffset", "Substitution", "Unknown"},
   offset : Int, text : Texts(W)]

CollectorOf(W) ==
  [labels : [Names -> ValuesOf(W)],
   current_equ : [label : Names \cup {NoName}, values : Texts(W)],
   pending_labels : SUBSET Names,
   for_stack : Seq(ForStatement)]

LEMMA LinesOf ==
  ASSUME NEW W, Closed(W)
  PROVE  Seq(W) \subseteq Line /\ Texts(W) \subseteq Seq(Line)
<1>1. \A s \in Seq(W) : s \in Seq(Word)
  <2> SUFFICES ASSUME NEW s \in Seq(W) PROVE s \in Seq(Word)
    OBVIOUS
  <2>1. Len(s) \in Nat /\ s \in [1 .. Len(s) -> W] /\ W \subseteq Word
    BY LenProperties DEF Closed
  <2>2. s \in [1 .. Len(s) -> Word]
    BY <2>1
  <2> QED BY <2>1, <2>2, TableSeq
<1>2. \A s \in Seq(Seq(W)) : s \in Seq(Seq(Word))
  <2> SUFFICES ASSUME NEW s \in Seq(Seq(W)) PROVE s \in Seq(Seq(Word))
    OBVIOUS
  <2>1. Len(s) \in Nat /\ s \in [1 .. Len(s) -> Seq(W)]
    BY LenProperties
  <2>2. s \in [1 .. Len(s) -> Seq(Word)]
    BY <1>1, <2>1
  <2> QED BY <2>1, <2>2, TableSeq
<1> QED BY <1>1, <1>2 DEF Line, Texts

LEMMA DigitsType ==
  ASSUME NEW W, Closed(W), NEW n \in Int
  PROVE  Digits(n) \in Seq(W)
<1>1. CASE n < 0
  <2>1. -n \in Nat
    BY <1>1
  <2>2. Sign("-") \in W /\ Number(-n) \in W
    BY <2>1 DEF Closed
  <2> HIDE DEF Sign, Number
  <2>3. << Sign("-"), Number(-n) >> \in Seq(W)
    BY <2>2
  <2> QED BY <1>1, <2>3 DEF Digits
<1>2. CASE ~ (n < 0)
  <2>1. Number(n) \in W
    BY <1>2 DEF Closed
  <2>2. << Number(n) >> \in Seq(W)
    BY <2>1, OneSeq
  <2> QED BY <1>2, <2>2 DEF Digits
<1> QED BY <1>1, <1>2

\* A label among the tokens is a name.
LEMMA LabelIsName ==
  ASSUME NEW line \in Line, NEW k \in LabelsIn(Tokenize(line))
  PROVE  k \in 1 .. Len(line) /\ line[k].name \in Names
<1>1. TokensOf(Tokenize(line), line)
  BY LineTokens
<1>2. /\ Len(line) \in Nat /\ Len(Tokenize(line)) \in Nat
      /\ DOMAIN Tokenize(line) = 1 .. Len(Tokenize(line))
  BY <1>1, LenProperties DEF TokensOf, Line
<1>3. k \in 1 .. Len(line) /\ line[k].kind \in Spelt
  BY <1>1, <1>2 DEF TokensOf, LabelsIn
<1>4. line[k] \in Word
  BY <1>3, ElementOfSeq DEF Line
<1> QED BY <1>3, <1>4, WordFields

LEMMA OffsetsPutType ==
  ASSUME NEW W, Closed(W), NEW line \in Seq(W), NEW labels \in [Names -> ValuesOf(W)],
         NEW from_offset \in Int, NEW known \in SUBSET LabelsIn(Tokenize(line))
  PROVE  OffsetsPut(line, known, labels, from_offset) \in Seq(W)
<1> DEFINE Put(k) == IF k \in known /\ (1 \in known => k = 1)
                       THEN Digits(LineOffset(labels[line[k].name], from_offset))
                       ELSE << line[k] >>
           parts == [k \in DOMAIN line |-> Put(k)]
<1>1. /\ Len(line) \in Nat /\ DOMAIN line = 1 .. Len(line)
      /\ \A k \in 1 .. Len(line) : line[k] \in W
      /\ line \in Line
  BY LenProperties, ElementOfSeq, LinesOf
<1>2. ASSUME NEW k \in DOMAIN line
      PROVE  Put(k) \in Seq(W)
  <2>1. CASE k \in known /\ (1 \in known => k = 1)
    <3>1. labels[line[k].name] \in ValuesOf(W)
      BY <1>1, <2>1, LabelIsName
    <3>2. LineOffset(labels[line[k].name], from_offset) \in Int
      BY <3>1 DEF LineOffset, ValuesOf
    <3>3. Digits(LineOffset(labels[line[k].name], from_offset)) \in Seq(W)
      BY <3>2, DigitsType
    <3> QED BY <2>1, <3>3
  <2>2. CASE ~ (k \in known /\ (1 \in known => k = 1))
    <3>1. << line[k] >> \in Seq(W)
      BY <1>1, OneSeq
    <3> QED BY <2>2, <3>1
  <2> QED BY <2>1, <2>2
<1>3. parts \in Seq(Seq(W))
  <2> HIDE DEF Put
  <2>1. parts \in [1 .. Len(line) -> Seq(W)]
    BY <1>1, <1>2
  <2> HIDE DEF parts
  <2> QED BY <1>1, <2>1, TableSeq
<1>4. OffsetsPut(line, known, labels, from_offset) = FlattenSeq(parts)
  BY DEF OffsetsPut
<1> HIDE DEF parts
<1> QED BY <1>3, <1>4, FlattenType

LEMMA SubstituteType ==
  ASSUME NEW W, Closed(W), NEW line \in Seq(W), NEW labels \in [Names -> ValuesOf(W)],
         NEW from_offset \in Int
  PROVE  SubstituteOffsetsInLine(line, labels, from_offset) \in Seq(W)
<1> DEFINE known == { k \in LabelsIn(Tokenize(line)) :
                        labels[line[k].name].kind \in {"AbsoluteOffset", "RelativeOffset"} }
<1>1. known \in SUBSET LabelsIn(Tokenize(line))
  OBVIOUS
<1>2. SubstituteOffsetsInLine(line, labels, from_offset)
        = OffsetsPut(line, known, labels, from_offset)
  BY DEF SubstituteOffsetsInLine
<1> HIDE DEF known
<1> QED BY <1>1, <1>2, OffsetsPutType

LEMMA ConcatKeeps ==
  ASSUME NEW S, NEW s \in Seq(S), NEW t \in Seq(S)
  PROVE  /\ s \o t \in Seq(S) /\ Len(s) \in Nat /\ Len(t) \in Nat
         /\ Len(s \o t) = Len(s) + Len(t)
         /\ \A k \in 1 .. Len(s) : (s \o t)[k] = s[k]
  OBVIOUS

\* Lines put behind the lines in front of one.
LEMMA FrontKept ==
  ASSUME NEW S, NEW s \in Seq(S), NEW n \in Nat, n <= Len(s),
         NEW new \in Seq(S), NEW rest \in Seq(S)
  PROVE  /\ SubSeq(s, 1, n) \o new \o rest \in Seq(S)
         /\ Len(SubSeq(s, 1, n) \o new \o rest) = n + Len(new) + Len(rest)
         /\ Len(new) \in Nat /\ Len(rest) \in Nat
         /\ \A k \in 1 .. n : (SubSeq(s, 1, n) \o new \o rest)[k] = s[k]
<1> DEFINE front == SubSeq(s, 1, n)
           both  == front \o new
<1>1. front \in Seq(S) /\ Len(front) = n /\ \A k \in 1 .. n : front[k] = s[k]
  <2>1. /\ front \in Seq(S)
        /\ Len(front) = IF 1 <= n THEN n - 1 + 1 ELSE 0
        /\ \A k \in 1 .. Len(front) : front[k] = s[1 + k - 1]
    BY PartSeq
  <2>2. Len(front) = n /\ \A k \in 1 .. n : 1 + k - 1 = k
    BY <2>1
  <2> QED BY <2>1, <2>2
<1> HIDE DEF front
<1>2. /\ both \in Seq(S) /\ Len(both) = n + Len(new)
      /\ \A k \in 1 .. n : both[k] = s[k]
      /\ Len(new) \in Nat /\ Len(rest) \in Nat
  BY <1>1, ConcatKeeps
<1> HIDE DEF both
<1>3. /\ both \o rest \in Seq(S) /\ Len(both \o rest) = Len(both) + Len(rest)
      /\ \A k \in 1 .. Len(both) : (both \o rest)[k] = both[k]
  BY <1>2, ConcatKeeps
<1>4. \A k \in 1 .. n : k \in 1 .. Len(both)
  BY <1>2
<1> QED BY <1>2, <1>3, <1>4 DEF both, front

LEMMA ExpandLinesType ==
  ASSUME NEW W, NEW ls \in Texts(W), NEW at \in 1 .. Len(ls), NEW word \in 1 .. Len(ls[at]),
         NEW text \in Texts(W)
  PROVE  /\ ExpandLines(ls, at, word, text) \in Texts(W)
         /\ Len(ExpandLines(ls, at, word, text)) \in Nat
         /\ Len(ExpandLines(ls, at, word, text)) >= at - 1
         /\ \A k \in 1 .. at - 1 : ExpandLines(ls, at, word, text)[k] = ls[k]
<1> DEFINE before == SubSeq(ls[at], 1, word - 1)
           after  == SubSeq(ls[at], word + 1, Len(ls[at]))
           part(k) == (IF k = 1 THEN before ELSE << >>) \o text[k]
                        \o (IF k = Len(text) THEN after ELSE << >>)
           new    == [k \in DOMAIN text |-> part(k)]
           rest   == SubSeq(ls, at + 1, Len(ls))
<1>1. /\ Len(ls) \in Nat /\ ls[at] \in Seq(W) /\ Len(ls[at]) \in Nat
      /\ Len(text) \in Nat /\ DOMAIN text = 1 .. Len(text)
      /\ \A k \in 1 .. Len(text) : text[k] \in Seq(W)
  <2>1. Len(ls) \in Nat /\ ls[at] \in Seq(W)
    BY LenProperties, ElementOfSeq DEF Texts
  <2>2. Len(text) \in Nat /\ DOMAIN text = 1 .. Len(text)
    BY LenProperties DEF Texts
  <2>3. \A k \in 1 .. Len(text) : text[k] \in Seq(W)
    BY ElementOfSeq DEF Texts
  <2> QED BY <2>1, <2>2, <2>3, LenProperties
<1>2. before \in Seq(W) /\ after \in Seq(W)
  <2>1. word \in Nat /\ 1 <= word /\ word <= Len(ls[at])
    BY <1>1
  <2> HIDE DEF before, after
  <2>2. \A m \in Nat, n \in Nat :
          1 <= m /\ n <= Len(ls[at]) => SubSeq(ls[at], m, n) \in Seq(W)
    BY <1>1, PartSeq
  <2>3. word - 1 \in Nat /\ word + 1 \in Nat
    BY <2>1
  <2> QED BY <1>1, <2>1, <2>2, <2>3 DEF before, after
<1> HIDE DEF before, after
<1>3. ASSUME NEW k \in DOMAIN text
      PROVE  part(k) \in Seq(W)
  <2>1. /\ text[k] \in Seq(W)
        /\ (IF k = 1 THEN before ELSE << >>) \in Seq(W)
        /\ (IF k = Len(text) THEN after ELSE << >>) \in Seq(W)
    BY <1>1, <1>2
  <2> QED BY <2>1
<1>4. new \in Seq(Seq(W))
  <2> HIDE DEF part
  <2>1. new \in [1 .. Len(text) -> Seq(W)]
    BY <1>1, <1>3
  <2> HIDE DEF new
  <2> QED BY <1>1, <2>1, TableSeq
<1>5. rest \in Seq(Seq(W))
  <2>1. at + 1 \in Nat /\ 1 <= at + 1 /\ ls \in Seq(Seq(W))
    BY <1>1 DEF Texts
  <2> QED BY <1>1, <2>1, PartSeq
<1>6. ExpandLines(ls, at, word, text) = SubSeq(ls, 1, at - 1) \o new \o rest
  BY DEF ExpandLines, before, after
<1> HIDE DEF new, rest
<1> DEFINE n == at - 1
<1>7. ls \in Seq(Seq(W)) /\ n \in Nat /\ n <= Len(ls)
  BY <1>1 DEF Texts
<1> DEFINE result == SubSeq(ls, 1, n) \o new \o rest
<1> HIDE DEF n
<1>8. /\ result \in Seq(Seq(W))
      /\ Len(result) = n + Len(new) + Len(rest)
      /\ Len(new) \in Nat /\ Len(rest) \in Nat
      /\ \A k \in 1 .. n : result[k] = ls[k]
  <2> DEFINE S == Seq(W)
  <2>1. ls \in Seq(S) /\ new \in Seq(S) /\ rest \in Seq(S)
    BY <1>4, <1>5, <1>7
  <2> HIDE DEF S
  <2>2. result \in Seq(S)
    BY <1>7, <2>1, FrontKept
  <2>3. Len(result) = n + Len(new) + Len(rest)
    BY <1>7, <2>1, FrontKept
  <2>4. \A k \in 1 .. n : result[k] = ls[k]
    BY <1>7, <2>1, FrontKept
  <2> QED BY <2>1, <2>2, <2>3, <2>4, LenProperties DEF S
<1> HIDE DEF result
<1>9. Len(result) \in Nat /\ Len(result) >= n
  BY <1>7, <1>8
<1> QED BY <1>6, <1>8, <1>9 DEF Texts, result, n

\* What the tables of the collector hold, through its operations; none of them
\* touches the stack of loops.
LEMMA CollectorFields ==
  ASSUME NEW W, NEW c \in CollectorOf(W)
  PROVE  /\ c.labels \in [Names -> ValuesOf(W)]
         /\ c.current_equ \in [label : Names \cup {NoName}, values : Texts(W)]
         /\ c.pending_labels \in SUBSET Names
         /\ c.for_stack \in Seq(ForStatement)
         /\ WithEqu(c) \in [Names -> ValuesOf(W)]
<1>1. /\ c.labels \in [Names -> ValuesOf(W)]
      /\ c.current_equ \in [label : Names \cup {NoName}, values : Texts(W)]
      /\ c.pending_labels \in SUBSET Names
      /\ c.for_stack \in Seq(ForStatement)
  BY DEF CollectorOf
<1>2. \A text \in Texts(W) : Substitution(text) \in ValuesOf(W)
  BY DEF Substitution, ValuesOf
<1>3. WithEqu(c) \in [Names -> ValuesOf(W)]
  <2>1. c.current_equ.values \in Texts(W)
    BY <1>1
  <2>2. Substitution(c.current_equ.values) \in ValuesOf(W)
    BY <1>2, <2>1
  <2> HIDE DEF Substitution
  <2> QED BY <1>1, <2>2 DEF WithEqu
<1> QED BY <1>1, <1>3

LEMMA EmptyText == \A S : << >> \in Seq(S)
  OBVIOUS

\* A collector of given tables.
Tables(labels, equ, pending, stack) ==
  [labels |-> labels, current_equ |-> equ, pending_labels |-> pending, for_stack |-> stack]

LEMMA TablesType ==
  ASSUME NEW W, NEW labels \in [Names -> ValuesOf(W)],
         NEW equ \in [label : Names \cup {NoName}, values : Texts(W)],
         NEW pending \in SUBSET Names, NEW stack \in Seq(ForStatement)
  PROVE  /\ Tables(labels, equ, pending, stack) \in CollectorOf(W)
         /\ Tables(labels, equ, pending, stack).labels = labels
         /\ Tables(labels, equ, pending, stack).for_stack = stack
  BY DEF Tables, CollectorOf

LEMMA CollectorTables ==
  ASSUME NEW W, NEW c \in CollectorOf(W)
  PROVE  \E labels \in [Names -> ValuesOf(W)],
            equ \in [label : Names \cup {NoName}, values : Texts(W)],
            pending \in SUBSET Names, stack \in Seq(ForStatement) :
           c = Tables(labels, equ, pending, stack)
<1>1. c = [labels |-> c.labels, current_equ |-> c.current_equ,
           pending_labels |-> c.pending_labels, for_stack |-> c.for_stack]
  BY DEF CollectorOf
<1> QED BY <1>1, CollectorFields DEF Tables

\* The operations of the collector; none of them touches the stack of loops.
LEMMA ResolvePendingEquType ==
  ASSUME NEW W, NEW c \in CollectorOf(W)
  PROVE  /\ ResolvePendingEqu(c) \in CollectorOf(W)
         /\ ResolvePendingEqu(c).labels = WithEqu(c)
         /\ ResolvePendingEqu(c).for_stack = c.for_stack
<1>1. NoEqu \in [label : Names \cup {NoName}, values : Texts(W)]
  BY EmptyText DEF NoEqu, Texts
<1>2. ResolvePendingEqu(c) = Tables(WithEqu(c), NoEqu, c.pending_labels, c.for_stack)
  BY DEF ResolvePendingEqu, Tables
<1> QED BY <1>1, <1>2, CollectorFields, TablesType

LEMMA ResolvePendingLabelsType ==
  ASSUME NEW W, NEW c \in CollectorOf(W), NEW at \in Int
  PROVE  /\ ResolvePendingLabels(c, at) \in CollectorOf(W)
         /\ ResolvePendingLabels(c, at).for_stack = c.for_stack
<1> DEFINE labels == [n \in Names |-> IF n \in c.pending_labels THEN Absolute(at) ELSE WithEqu(c)[n]]
<1>1. NoEqu \in [label : Names \cup {NoName}, values : Texts(W)]
  BY EmptyText DEF NoEqu, Texts
<1>2. Absolute(at) \in ValuesOf(W)
  BY EmptyText DEF Absolute, ValuesOf, Texts
<1>3. labels \in [Names -> ValuesOf(W)]
  <2> HIDE DEF Absolute
  <2> QED BY <1>2, CollectorFields
<1>4. ResolvePendingLabels(c, at) = Tables(labels, NoEqu, {}, c.for_stack)
  BY DEF ResolvePendingLabels, Tables
<1> HIDE DEF labels
<1> QED BY <1>1, <1>3, <1>4, CollectorFields, TablesType

LEMMA ProcessEquType ==
  ASSUME NEW W, NEW c \in CollectorOf(W), NEW name \in Names, NEW text \in Seq(W)
  PROVE  /\ ProcessEqu(c, name, text) \in CollectorOf(W)
         /\ ProcessEqu(c, name, text).for_stack = c.for_stack
<1> DEFINE equ == [label |-> name, values |-> << text >>]
<1>1. equ \in [label : Names \cup {NoName}, values : Texts(W)]
  BY OneSeq DEF Texts
<1>2. ResolvePendingEqu(c) = Tables(WithEqu(c), NoEqu, c.pending_labels, c.for_stack)
  BY DEF ResolvePendingEqu, Tables
<1>3. ProcessEqu(c, name, text) = [ResolvePendingEqu(c) EXCEPT !.current_equ = equ]
  BY DEF ProcessEqu
<1> HIDE DEF equ
<1>4. ProcessEqu(c, name, text) = Tables(WithEqu(c), equ, c.pending_labels, c.for_stack)
  BY <1>2, <1>3 DEF Tables
<1> QED BY <1>1, <1>4, CollectorFields, TablesType

LEMMA ProcessEquContinuationType ==
  ASSUME NEW W, NEW c \in CollectorOf(W), NEW text \in Seq(W)
  PROVE  /\ ProcessEquContinuation(c, text) \in CollectorOf(W)
         /\ ProcessEquContinuation(c, text).for_stack = c.for_stack
<1>1. CASE c.current_equ.values = << >>
  BY <1>1 DEF ProcessEquContinuation
<1>2. CASE c.current_equ.values # << >>
  <2>1. PICK labels \in [Names -> ValuesOf(W)],
             equ \in [label : Names \cup {NoName}, values : Texts(W)],
             pending \in SUBSET Names, stack \in Seq(ForStatement) :
               c = Tables(labels, equ, pending, stack)
    BY CollectorTables
  <2>2. /\ c.labels = labels /\ c.current_equ = equ /\ c.pending_labels = pending
        /\ c.for_stack = stack
    BY <2>1 DEF Tables
  <2>3. equ.label \in Names \cup {NoName} /\ equ.values \in Texts(W)
    OBVIOUS
  <2>4. PICK label \in Names \cup {NoName}, values \in Texts(W) :
          equ = [label |-> label, values |-> values]
    <3>1. equ = [label |-> equ.label, values |-> equ.values]
      OBVIOUS
    <3> QED BY <2>3, <3>1
  <2> DEFINE longer == [label |-> label, values |-> Append(values, text)]
  <2>5. longer \in [label : Names \cup {NoName}, values : Texts(W)]
    <3>1. Append(values, text) \in Seq(Seq(W))
      BY AppendProperties DEF Texts
    <3> QED BY <3>1 DEF Texts
  <2>6. ProcessEquContinuation(c, text) = [c EXCEPT !.current_equ.values = Append(@, text)]
    BY <1>2 DEF ProcessEquContinuation
  <2>7. ProcessEquContinuation(c, text) = Tables(labels, longer, pending, stack)
    BY <2>1, <2>4, <2>6 DEF Tables
  <2> HIDE DEF longer
  <2> QED BY <2>2, <2>5, <2>7, TablesType
<1> QED BY <1>1, <1>2

LEMMA AddPendingLabelType ==
  ASSUME NEW W, NEW c \in CollectorOf(W), NEW name \in Names
  PROVE  /\ AddPendingLabel(c, name) \in CollectorOf(W)
         /\ AddPendingLabel(c, name).for_stack = c.for_stack
<1>1. PICK labels \in [Names -> ValuesOf(W)],
           equ \in [label : Names \cup {NoName}, values : Texts(W)],
           pending \in SUBSET Names, stack \in Seq(ForStatement) :
             c = Tables(labels, equ, pending, stack)
  BY CollectorTables
<1> DEFINE more == c.pending_labels \cup {name}
<1>2. c.for_stack = stack /\ c.pending_labels = pending
  BY <1>1 DEF Tables
<1>3. AddPendingLabel(c, name) = [c EXCEPT !.pending_labels = more]
  BY DEF AddPendingLabel
<1>4. more \in SUBSET Names
  BY <1>2
<1> HIDE DEF more
<1>5. [c EXCEPT !.pending_labels = more] = Tables(labels, equ, more, stack)
  BY <1>1 DEF Tables
<1> QED BY <1>2, <1>3, <1>4, <1>5, TablesType


LEMMA LoopClosedType ==
  ASSUME NEW W, NEW c \in CollectorOf(W), NEW labels \in [Names -> ValuesOf(W)],
         c.for_stack # << >>
  PROVE  /\ LoopClosed(c, labels) \in CollectorOf(W)
         /\ LoopClosed(c, labels).for_stack = Front(c.for_stack)
         /\ Front(c.for_stack) \in Seq(ForStatement)
         /\ Len(Front(c.for_stack)) = Len(c.for_stack) - 1
         /\ \A k \in 1 .. Len(c.for_stack) - 1 : Front(c.for_stack)[k] = c.for_stack[k]
         /\ Len(c.for_stack) \in Nat \ {0}
         /\ Last(c.for_stack) = c.for_stack[Len(c.for_stack)]
         /\ Last(c.for_stack) \in ForStatement
<1> DEFINE s == c.for_stack
           n == Len(s) - 1
<1>1. s \in Seq(ForStatement) /\ s # << >>
  BY CollectorFields
<1>2. Len(s) \in Nat \ {0}
  BY <1>1, LenProperties, EmptySeq
<1>3. n \in Nat /\ n <= Len(s) /\ n + 1 = Len(s)
  BY <1>2
<1> HIDE DEF n
<1>4. /\ SubSeq(s, 1, n) \in Seq(ForStatement)
      /\ Len(SubSeq(s, 1, n)) = IF 1 <= n THEN n - 1 + 1 ELSE 0
      /\ \A k \in 1 .. Len(SubSeq(s, 1, n)) : SubSeq(s, 1, n)[k] = s[1 + k - 1]
  BY <1>1, <1>3, PartSeq
<1>5. Len(SubSeq(s, 1, n)) = n /\ \A k \in 1 .. n : 1 + k - 1 = k
  BY <1>3, <1>4
<1>6. Front(s) = SubSeq(s, 1, n)
  BY DEF Front, n
<1>7. LoopClosed(c, labels) = Tables(labels, c.current_equ, c.pending_labels, Front(s))
  BY DEF LoopClosed, Tables
<1>8. Last(s) = s[Len(s)] /\ s[Len(s)] \in ForStatement
  <2>1. Len(s) \in 1 .. Len(s)
    BY <1>2
  <2> QED BY <1>1, <2>1, ElementOfSeq DEF Last
<1>9. Front(s) \in Seq(ForStatement)
  BY <1>4, <1>6
<1>10. /\ LoopClosed(c, labels) \in CollectorOf(W)
       /\ LoopClosed(c, labels).for_stack = Front(s)
  BY <1>7, <1>9, CollectorFields, TablesType
<1> QED BY <1>2, <1>4, <1>5, <1>6, <1>8, <1>9, <1>10 DEF n

\* The value of a name, and what is put in its place.
LEMMA LabelValueType ==
  ASSUME NEW W, NEW c \in CollectorOf(W), NEW name \in Names, NEW at \in Int
  PROVE  GetLabelValue(c, name, at) \in ValuesOf(W)
<1>1. c.labels[name] \in ValuesOf(W)
  BY CollectorFields
<1>2. Unknown \in ValuesOf(W) /\ Relative(at) \in ValuesOf(W)
  BY EmptyText DEF Unknown, Relative, ValuesOf, Texts
<1> QED BY <1>1, <1>2 DEF GetLabelValue

LEMMA ReplacementType ==
  ASSUME NEW W, Closed(W), NEW value \in ValuesOf(W), offset \in Int
  PROVE  Replacement(value) \in Texts(W)
<1>1. /\ value.kind \in {"AbsoluteOffset", "RelativeOffset", "Substitution", "Unknown"}
      /\ value.offset \in Int /\ value.text \in Texts(W)
  BY DEF ValuesOf
<1>2. \A n \in Int : << Digits(n) >> \in Seq(Seq(W))
  BY DigitsType, OneSeq
<1>3. value.offset - offset \in Int
  BY <1>1
<1>4. /\ << Digits(value.offset - offset) >> \in Seq(Seq(W))
      /\ << Digits(value.offset) >> \in Seq(Seq(W))
  BY <1>1, <1>2, <1>3
<1> QED BY <1>1, <1>4 DEF Replacement, Texts

-----------------------------------------------------------------------------
(* The expansion.                                                          *)

\* Open loops begin one after the other, and before a line.
StackBelow(stack, line) ==
  \A k \in DOMAIN stack :
     stack[k].start_line < (IF k < Len(stack) THEN stack[k + 1].start_line ELSE line)

LEMMA StackRaised ==
  ASSUME NEW stack \in Seq(ForStatement), NEW a \in Int, NEW b \in Int, a <= b,
         StackBelow(stack, a)
  PROVE  StackBelow(stack, b)
<1> SUFFICES ASSUME NEW k \in DOMAIN stack
             PROVE  stack[k].start_line < (IF k < Len(stack) THEN stack[k + 1].start_line ELSE b)
  BY DEF StackBelow
<1>1. stack[k].start_line < (IF k < Len(stack) THEN stack[k + 1].start_line ELSE a)
  BY DEF StackBelow
<1>2. stack[k] \in ForStatement
  BY ElementOfSeq, LenProperties
<1>3. stack[k].start_line \in Int
  BY <1>2 DEF ForStatement
<1> QED BY <1>1, <1>3

TokensBefore(ls, line) == \A k \in 1 .. line - 1 : Tokenize(ls[k]) # << >>

\* The types, over the words W.
ExpansionOK(W) ==
  /\ lines \in Texts(W)
  /\ origin \in Seq(W)
  /\ i \in 1 .. Len(lines) + 1
  /\ offset \in Nat
  /\ collector \in CollectorOf(W)
  /\ StackBelow(collector.for_stack, i)

\* What holds while the lines are collected: the lines passed have tokens.
CollectingOK(W) == ExpansionOK(W) /\ TokensBefore(lines, i)

LEMMA RoundKeeps ==
  ASSUME NEW W, CollectingOK(W),
         NEW c \in CollectorOf(W), NEW ls \in Texts(W), NEW to, NEW at \in Nat,
         to \in 1 .. Len(ls) + 1, StackBelow(c.for_stack, to), TokensBefore(ls, to),
         Round(c, ls, to, at)
  PROVE  CollectingOK(W)'
  BY DEF CollectingOK, ExpansionOK, Round

\* The lines with a line replaced by others, which begin in its place.
LEMMA RoundInPlace ==
  ASSUME NEW W, CollectingOK(W), NEW c \in CollectorOf(W), NEW ls \in Texts(W),
         Collecting, c.for_stack = collector.for_stack,
         Len(ls) \in Nat, Len(ls) >= i - 1, \A k \in 1 .. i - 1 : ls[k] = lines[k],
         Round(c, ls, i, offset)
  PROVE  CollectingOK(W)'
<1>1. i \in 1 .. Len(ls) + 1
  BY LenProperties DEF CollectingOK, ExpansionOK, Texts
<1>2. TokensBefore(ls, i) /\ StackBelow(c.for_stack, i) /\ offset \in Nat
  BY DEF CollectingOK, ExpansionOK, TokensBefore
<1> QED BY <1>1, <1>2, RoundKeeps

\* Where a line is: it has the tokens of its words.
LEMMA CurrentFacts ==
  ASSUME NEW W, Closed(W), CollectingOK(W), Collecting
  PROVE  /\ Len(lines) \in Nat /\ i \in 1 .. Len(lines) /\ i \in Nat /\ offset \in Int
         /\ Current = lines[i] /\ Current \in Seq(W) /\ Current \in Line
         /\ Len(Current) \in Nat
         /\ TokensOf(Tokens, Current) /\ Len(Tokens) \in Nat
         /\ DOMAIN Tokens = 1 .. Len(Tokens)
<1>1. Len(lines) \in Nat /\ i \in 1 .. Len(lines) /\ i \in Nat /\ offset \in Int
  BY LenProperties DEF CollectingOK, ExpansionOK, Collecting, Texts
<1>2. Current = lines[i] /\ Current \in Seq(W) /\ Current \in Line
  BY <1>1, ElementOfSeq, LinesOf DEF Current, CollectingOK, ExpansionOK, Texts
<1>3. TokensOf(Tokens, Current)
  BY <1>2, LineTokens DEF Tokens
<1> QED BY <1>1, <1>2, <1>3, LenProperties DEF TokensOf

LEMMA FirstFacts ==
  ASSUME NEW W, Closed(W), CollectingOK(W), NEW rule, First(rule)
  PROVE  /\ Collecting /\ Tokens # << >> /\ Len(Tokens) >= 1 /\ Tokens[1] = rule
         /\ Current # << >> /\ Len(Current) >= 1
<1>1. Collecting /\ IsPrefix(<< rule >>, Tokens)
  BY DEF First
<1>2. Tokens \in Seq(Rules) /\ Len(Tokens) <= Len(Current) /\ Len(Tokens) \in Nat
      /\ Len(Current) \in Nat /\ Current \in Seq(W)
  BY <1>1, CurrentFacts DEF TokensOf
<1>3. Len(<< rule >>) = 1 /\ SubSeq(<< rule >>, 1, 1) = << rule >>
  <2>1. << rule >> \in Seq({rule}) /\ Len(<< rule >>) = 1
    OBVIOUS
  <2> QED BY <2>1, SubSeqFull
<1>4. Len(Tokens) >= 1 /\ << rule >> = SubSeq(Tokens, 1, 1)
  BY <1>1, <1>2, <1>3 DEF IsPrefix
<1>5. Tokens[1] = rule
  <2>1. SubSeq(Tokens, 1, 1)[1] = Tokens[1]
    BY <1>2, <1>4
  <2>2. << rule >>[1] = rule
    OBVIOUS
  <2> QED BY <1>4, <2>1, <2>2
<1> QED BY <1>1, <1>2, <1>4, <1>5, EmptySeq

LEMMA SecondFacts ==
  ASSUME NEW W, Closed(W), CollectingOK(W), NEW rule, Second(rule)
  PROVE  /\ Collecting /\ Tokens # << >> /\ Len(Tokens) >= 2
         /\ Tokens[1] = "Label" /\ Tokens[2] = rule
         /\ Current # << >> /\ Len(Current) >= 2 /\ Current[1].name \in Names
<1>1. Collecting /\ IsPrefix(<< "Label", rule >>, Tokens)
  BY DEF Second
<1>2. Tokens \in Seq(Rules) /\ Len(Tokens) <= Len(Current) /\ Len(Tokens) \in Nat
      /\ Len(Current) \in Nat /\ Current \in Seq(W) /\ Current \in Line
      /\ DOMAIN Tokens = 1 .. Len(Tokens)
  BY <1>1, CurrentFacts DEF TokensOf
<1>3. Len(<< "Label", rule >>) = 2 /\ SubSeq(<< "Label", rule >>, 1, 2) = << "Label", rule >>
  <2>1. << "Label", rule >> \in Seq({"Label", rule}) /\ Len(<< "Label", rule >>) = 2
    OBVIOUS
  <2> QED BY <2>1, SubSeqFull
<1>4. Len(Tokens) >= 2 /\ << "Label", rule >> = SubSeq(Tokens, 1, 2)
  BY <1>1, <1>2, <1>3 DEF IsPrefix
<1>5. Tokens[1] = "Label" /\ Tokens[2] = rule
  <2>1. SubSeq(Tokens, 1, 2)[1] = Tokens[1] /\ SubSeq(Tokens, 1, 2)[2] = Tokens[2]
    BY <1>2, <1>4
  <2>2. << "Label", rule >>[1] = "Label" /\ << "Label", rule >>[2] = rule
    OBVIOUS
  <2> QED BY <1>4, <2>1, <2>2
<1>6. Current[1].name \in Names
  <2>1. 1 \in LabelsIn(Tokenize(Current))
    BY <1>2, <1>4, <1>5 DEF LabelsIn, Tokens
  <2> QED BY <1>2, <2>1, LabelIsName
<1> QED BY <1>1, <1>2, <1>4, <1>5, <1>6, EmptySeq

LEMMA FirstOfIn ==
  ASSUME NEW S, S \subseteq Nat, S # {}
  PROVE  FirstOf(S) \in S
<1>1. \E k \in S : \A j \in S : k <= j
  BY SmallestExists
<1> QED BY <1>1 DEF FirstOf

LEMMA TokenNames ==
  ASSUME NEW W, Closed(W), CollectingOK(W), Collecting, NEW c
  PROVE  /\ LabelTokens \subseteq Nat /\ Expandable(c) \subseteq LabelTokens
         /\ \A k \in LabelTokens : k \in 1 .. Len(Current) /\ Current[k].name \in Names
<1>1. Current \in Line /\ DOMAIN Tokens = 1 .. Len(Tokens)
  BY CurrentFacts
<1>2. LabelTokens \subseteq LabelsIn(Tokenize(Current)) /\ LabelTokens \subseteq 1 .. Len(Tokens)
  BY <1>1 DEF LabelTokens, LabelsIn, Tokens
<1>3. \A k \in LabelTokens : k \in 1 .. Len(Current) /\ Current[k].name \in Names
  BY <1>1, <1>2, LabelIsName
<1> QED BY <1>2, <1>3 DEF Expandable

\* A label of the line replaced.
LEMMA NextTokenType ==
  ASSUME NEW W, Closed(W), CollectingOK(W), Collecting, NEW c \in CollectorOf(W),
         Expandable(c) # {}
  PROVE  /\ NextTokenExpanded(c) \in Texts(W)
         /\ Len(NextTokenExpanded(c)) \in Nat /\ Len(NextTokenExpanded(c)) >= i - 1
         /\ \A k \in 1 .. i - 1 : NextTokenExpanded(c)[k] = lines[k]
<1> DEFINE word == FirstOf(Expandable(c))
           text == Replacement(GetLabelValue(c, Current[word].name, offset))
<1>1. word \in LabelTokens
  <2>1. Expandable(c) \subseteq Nat /\ Expandable(c) \subseteq LabelTokens
    BY TokenNames
  <2> QED BY <2>1, FirstOfIn
<1>2. NextTokenExpanded(c) = ExpandLines(lines, i, word, text)
  BY DEF NextTokenExpanded, TokenExpanded
<1> HIDE DEF word
<1>3. word \in 1 .. Len(lines[i]) /\ Current[word].name \in Names
  BY <1>1, TokenNames, CurrentFacts
<1>4. text \in Texts(W)
  BY <1>3, LabelValueType, ReplacementType, CurrentFacts
<1> HIDE DEF text
<1>5. lines \in Texts(W) /\ i \in 1 .. Len(lines)
  BY CurrentFacts DEF CollectingOK, ExpansionOK
<1> QED BY <1>2, <1>3, <1>4, <1>5, ExpandLinesType

LEMMA ResolvedHereType ==
  ASSUME NEW W, Closed(W), CollectingOK(W)
  PROVE  /\ ResolvedHere \in CollectorOf(W)
         /\ ResolvedHere.for_stack = collector.for_stack
<1>1. collector \in CollectorOf(W) /\ offset \in Int
  BY DEF CollectingOK, ExpansionOK
<1> QED BY <1>1, ResolvePendingLabelsType DEF ResolvedHere

LEMMA ForExpandsKeeps ==
  ASSUME NEW W, Closed(W), CollectingOK(W), ForExpands
  PROVE  CollectingOK(W)'
<1>1. Collecting
  BY FirstFacts, SecondFacts DEF ForExpands, ForHasLabel, IsFor
<1>2. Expandable(ResolvedHere) # {}
  BY DEF ForExpands, ForHasLabel
<1>3. Round(ResolvedHere, NextTokenExpanded(ResolvedHere), i, offset)
  BY DEF ForExpands
<1> QED BY <1>1, <1>2, <1>3, ResolvedHereType, NextTokenType, RoundInPlace

LEMMA InstructionExpandsKeeps ==
  ASSUME NEW W, Closed(W), CollectingOK(W), InstructionExpands
  PROVE  CollectingOK(W)'
<1>1. Collecting
  BY FirstFacts DEF InstructionExpands, InstructionHasLabel
<1>2. Expandable(ResolvedHere) # {}
  BY DEF InstructionExpands, InstructionHasLabel
<1>3. Round(ResolvedHere, NextTokenExpanded(ResolvedHere), i, offset)
  BY DEF InstructionExpands
<1> QED BY <1>1, <1>2, <1>3, ResolvedHereType, NextTokenType, RoundInPlace

LEMMA InstructionCountedKeeps ==
  ASSUME NEW W, Closed(W), CollectingOK(W), InstructionCounted
  PROVE  CollectingOK(W)'
<1> DEFINE at == IF IsOrg(Current) THEN offset ELSE offset + 1
<1>1. Collecting /\ Tokens # << >>
  BY FirstFacts DEF InstructionCounted
<1>2. i \in 1 .. Len(lines) /\ Len(lines) \in Nat /\ i \in Nat /\ Current = lines[i]
  BY <1>1, CurrentFacts
<1>3. at \in Nat /\ lines \in Texts(W)
  BY DEF CollectingOK, ExpansionOK
<1>4. Round(ResolvedHere, lines, i + 1, at)
  BY DEF InstructionCounted
<1> HIDE DEF at
<1>5. TokensBefore(lines, i + 1)
  BY <1>1, <1>2 DEF CollectingOK, ExpansionOK, TokensBefore, Tokens
<1>6. StackBelow(ResolvedHere.for_stack, i + 1)
  <2>1. StackBelow(collector.for_stack, i) /\ collector.for_stack \in Seq(ForStatement)
    BY CollectorFields DEF CollectingOK, ExpansionOK
  <2>2. i \in Int /\ i + 1 \in Int /\ i <= i + 1
    BY <1>2
  <2>3. StackBelow(collector.for_stack, i + 1)
    BY <2>1, <2>2, StackRaised
  <2> QED BY <2>3, ResolvedHereType
<1>7. i + 1 \in 1 .. Len(lines) + 1
  BY <1>2
<1> DEFINE to == i + 1
<1> HIDE DEF to
<1> QED BY <1>3, <1>4, <1>5, <1>6, <1>7, ResolvedHereType, RoundKeeps DEF to

LEMMA LineRemovedType ==
  ASSUME NEW W, Closed(W), CollectingOK(W), Collecting
  PROVE  /\ LineRemoved \in Texts(W)
         /\ Len(LineRemoved) \in Nat /\ Len(LineRemoved) >= i - 1
         /\ \A k \in 1 .. i - 1 : LineRemoved[k] = lines[k]
<1> DEFINE n     == i - 1
           m     == i + 1
           front == SubSeq(lines, 1, n)
           rest  == SubSeq(lines, m, Len(lines))
<1>1. lines \in Seq(Seq(W)) /\ Len(lines) \in Nat /\ i \in 1 .. Len(lines)
  BY CurrentFacts DEF CollectingOK, ExpansionOK, Texts
<1>2. n \in Nat /\ n <= Len(lines) /\ m \in Nat /\ 1 <= m
  BY <1>1
<1>3. LineRemoved = front \o rest
  BY DEF LineRemoved, RemoveAt
<1> DEFINE S == Seq(W)
<1>s. lines \in Seq(S)
  BY <1>1
<1> HIDE DEF n, m, S
<1>4. /\ front \in Seq(S)
      /\ Len(front) = IF 1 <= n THEN n - 1 + 1 ELSE 0
      /\ \A k \in 1 .. Len(front) : front[k] = lines[1 + k - 1]
  BY <1>1, <1>2, <1>s, PartSeq
<1>5. Len(front) = n /\ \A k \in 1 .. n : 1 + k - 1 = k
  BY <1>2, <1>4
<1>6. rest \in Seq(S)
  BY <1>1, <1>2, <1>s, PartSeq
<1> HIDE DEF front, rest
<1>7. /\ front \o rest \in Seq(S) /\ Len(rest) \in Nat
      /\ Len(front \o rest) = Len(front) + Len(rest)
      /\ \A k \in 1 .. Len(front) : (front \o rest)[k] = front[k]
  BY <1>4, <1>6, ConcatKeeps
<1>8. Len(LineRemoved) \in Nat /\ Len(LineRemoved) >= n
  BY <1>2, <1>3, <1>5, <1>7
<1>9. \A k \in 1 .. n : LineRemoved[k] = lines[k]
  BY <1>3, <1>4, <1>5, <1>7
<1> QED BY <1>3, <1>7, <1>8, <1>9 DEF n, S, Texts

LEMMA EquKeeps ==
  ASSUME NEW W, Closed(W), CollectingOK(W), EquDefined \/ EquContinues
  PROVE  CollectingOK(W)'
<1>0. collector \in CollectorOf(W)
  BY DEF CollectingOK, ExpansionOK
<1>1. CASE EquDefined
  <2> DEFINE text == SubSeq(Current, 3, Len(Current))
             name == Current[1].name
  <2>1. Second("Substitution") /\ Round(ProcessEqu(collector, name, text), LineRemoved, i, offset)
    BY <1>1 DEF EquDefined
  <2>2. Collecting /\ name \in Names
    BY <2>1, SecondFacts
  <2>3. text \in Seq(W)
    <3>1. Current \in Seq(W) /\ Len(Current) \in Nat
      BY <2>2, CurrentFacts
    <3> QED BY <3>1, PartSeq
  <2> HIDE DEF text, name
  <2> QED BY <1>0, <2>1, <2>2, <2>3, ProcessEquType, LineRemovedType, RoundInPlace
<1>2. CASE EquContinues
  <2>1. /\ First("Substitution")
        /\ Round(ProcessEquContinuation(collector, Tail(Current)), LineRemoved, i, offset)
    BY <1>2 DEF EquContinues
  <2>2. Collecting /\ Current # << >>
    BY <2>1, FirstFacts
  <2>3. Tail(Current) \in Seq(W)
    BY <2>2, CurrentFacts, HeadTailProperties
  <2> QED BY <1>0, <2>1, <2>2, <2>3, ProcessEquContinuationType, LineRemovedType, RoundInPlace
<1> QED BY <1>1, <1>2

\* A line that begins with a label: the label is a name, and the tables stay tables.
LEMMA LabelLineFacts ==
  ASSUME NEW W, Closed(W), CollectingOK(W), LabelLine
  PROVE  /\ Collecting /\ Tokens # << >> /\ Tokens[1] = "Label"
         /\ Len(Current) \in Nat /\ Len(Current) >= 1 /\ Current # << >>
         /\ Current[1].name \in Names
         /\ Known \in CollectorOf(W) /\ Known.for_stack = collector.for_stack
         /\ Declared \in CollectorOf(W) /\ Declared.for_stack = collector.for_stack
<1>1. First("Label")
  BY DEF LabelLine
<1>2. /\ Collecting /\ Tokens # << >> /\ Tokens[1] = "Label" /\ Len(Tokens) >= 1
      /\ Current # << >> /\ Len(Current) >= 1
  BY <1>1, FirstFacts
<1>3. Current \in Line /\ Len(Current) \in Nat /\ Len(Tokens) \in Nat
      /\ DOMAIN Tokens = 1 .. Len(Tokens)
  BY <1>2, CurrentFacts
<1>4. Current[1].name \in Names
  <2>1. 1 \in LabelsIn(Tokenize(Current))
    BY <1>2, <1>3 DEF LabelsIn, Tokens
  <2> QED BY <1>3, <2>1, LabelIsName
<1>5. Known \in CollectorOf(W) /\ Known.for_stack = collector.for_stack
  BY ResolvePendingEquType DEF Known, CollectingOK, ExpansionOK
<1>6. Declared \in CollectorOf(W) /\ Declared.for_stack = Known.for_stack
  BY <1>4, <1>5, AddPendingLabelType DEF Declared
<1> QED BY <1>2, <1>3, <1>4, <1>5, <1>6

LEMMA EquExpandsKeeps ==
  ASSUME NEW W, Closed(W), CollectingOK(W), EquExpands
  PROVE  CollectingOK(W)'
<1> DEFINE text == Known.labels[Current[1].name].text
<1>1. LabelLine /\ Round(Known, EquExpanded, i, offset)
  BY DEF EquExpands
<1>2. /\ Collecting /\ Current[1].name \in Names /\ Len(Current) \in Nat /\ Len(Current) >= 1
      /\ Known \in CollectorOf(W) /\ Known.for_stack = collector.for_stack
  BY <1>1, LabelLineFacts
<1>3. text \in Texts(W)
  <2>1. Known.labels[Current[1].name] \in ValuesOf(W)
    BY <1>2, CollectorFields
  <2> QED BY <2>1 DEF ValuesOf
<1>4. EquExpanded = ExpandLines(lines, i, 1, text)
  BY DEF EquExpanded
<1> HIDE DEF text
<1>5. lines \in Texts(W) /\ i \in 1 .. Len(lines) /\ 1 \in 1 .. Len(lines[i])
  BY <1>2, CurrentFacts DEF CollectingOK, ExpansionOK
<1>6. /\ EquExpanded \in Texts(W)
      /\ Len(EquExpanded) \in Nat /\ Len(EquExpanded) >= i - 1
      /\ \A k \in 1 .. i - 1 : EquExpanded[k] = lines[k]
  BY <1>3, <1>4, <1>5, ExpandLinesType
<1> QED BY <1>1, <1>2, <1>6, RoundInPlace

LEMMA LabelKeeps ==
  ASSUME NEW W, Closed(W), CollectingOK(W), LabelExpands \/ LabelAlone
  PROVE  CollectingOK(W)'
<1>1. CASE LabelExpands
  <2>1. /\ LabelLine /\ Expandable(Declared) # {}
        /\ Round(Declared, NextTokenExpanded(Declared), i, offset)
    BY <1>1 DEF LabelExpands, LabelHasLabel
  <2> QED BY <2>1, LabelLineFacts, NextTokenType, RoundInPlace
<1>2. CASE LabelAlone
  <2>1. LabelLine /\ Round(Declared, LineRemoved, i, offset)
    BY <1>2 DEF LabelAlone
  <2> QED BY <2>1, LabelLineFacts, LineRemovedType, RoundInPlace
<1> QED BY <1>1, <1>2

LEMMA LabelStrippedKeeps ==
  ASSUME NEW W, Closed(W), CollectingOK(W), LabelStripped
  PROVE  CollectingOK(W)'
<1> DEFINE c  == ResolvePendingLabels(Declared, offset)
           ls == ReplaceAt(lines, i, Tail(Current))
<1>1. LabelLine /\ Len(Tokens) > 1 /\ Round(c, ls, i + 1, offset + 1)
  BY DEF LabelStripped
<1>2. /\ Collecting /\ Tokens # << >> /\ Tokens[1] = "Label" /\ Current # << >>
      /\ Declared \in CollectorOf(W) /\ Declared.for_stack = collector.for_stack
  BY <1>1, LabelLineFacts
<1>3. /\ Len(lines) \in Nat /\ i \in 1 .. Len(lines) /\ i \in Nat /\ offset \in Int
      /\ Current = lines[i] /\ Current \in Seq(W) /\ Current \in Line /\ Len(Tokens) \in Nat
  BY <1>2, CurrentFacts
<1>4. c \in CollectorOf(W) /\ c.for_stack = collector.for_stack
  BY <1>2, <1>3, ResolvePendingLabelsType
<1>5. Tail(Current) \in Seq(W) /\ Tokenize(Tail(Current)) # << >>
  <2>1. Len(Tokens) # 1
    <3>1. PICK n \in Nat : n = Len(Tokens)
      BY <1>3
    <3>2. n > 1
      BY <3>1 DEF LabelStripped
    <3> QED BY <3>1, <3>2
  <2> QED BY <1>2, <1>3, <2>1, AfterLabel, HeadTailProperties DEF Tokens
<1>6. lines \in Seq(Seq(W)) /\ lines \in [1 .. Len(lines) -> Seq(W)]
  BY LenProperties DEF CollectingOK, ExpansionOK, Texts
<1>7. /\ ls \in Seq(Seq(W)) /\ Len(ls) = Len(lines)
      /\ ls[i] = Tail(Current) /\ \A k \in 1 .. i - 1 : ls[k] = lines[k]
  <2>1. ls = [lines EXCEPT ![i] = Tail(Current)]
    BY DEF ReplaceAt
  <2> HIDE DEF ls
  <2>2. ls \in [1 .. Len(lines) -> Seq(W)]
    BY <1>3, <1>5, <1>6, <2>1
  <2>3. ls[i] = Tail(Current) /\ \A k \in 1 .. i - 1 : ls[k] = lines[k]
    BY <1>3, <1>6, <2>1
  <2> QED BY <1>3, <2>2, <2>3, TableSeq
<1> HIDE DEF c, ls
<1>8. TokensBefore(ls, i + 1)
  BY <1>3, <1>5, <1>7 DEF CollectingOK, TokensBefore
<1>9. StackBelow(c.for_stack, i + 1)
  <2>1. StackBelow(collector.for_stack, i) /\ collector.for_stack \in Seq(ForStatement)
    BY CollectorFields DEF CollectingOK, ExpansionOK
  <2>2. i \in Int /\ i + 1 \in Int /\ i <= i + 1
    BY <1>3
  <2> QED BY <1>4, <2>1, <2>2, StackRaised
<1>10. i + 1 \in 1 .. Len(ls) + 1 /\ offset + 1 \in Nat
  BY <1>3, <1>7 DEF CollectingOK, ExpansionOK
<1> DEFINE to == i + 1
           at == offset + 1
<1>11. ls \in Texts(W)
  BY <1>7 DEF Texts
<1> HIDE DEF to, at
<1> QED BY <1>1, <1>4, <1>8, <1>9, <1>10, <1>11, RoundKeeps DEF to, at

LEMMA ForFacts ==
  ASSUME NEW W, Closed(W), CollectingOK(W), IsFor
  PROVE  /\ Collecting /\ Tokens # << >>
         /\ ~ First("For") => Current[1].name \in Names
         /\ IterCount.value \in I32 /\ IterCount.panics \in BOOLEAN
         /\ IterCount.error \in {"", "InvalidOrigin", "InvalidSyntax"}
         /\ IterCount.error = "" => IterCount.value \in Nat
<1>1. /\ Collecting /\ Tokens # << >> /\ Len(Current) >= (IF First("For") THEN 1 ELSE 2)
      /\ ~ First("For") => Current[1].name \in Names
  BY FirstFacts, SecondFacts DEF IsFor
<1> DEFINE k    == IF First("For") THEN 2 ELSE 3
           rest == From(Current, k)
<1>2. Current \in Line /\ Len(Current) \in Nat
  BY <1>1, CurrentFacts
<1>3. k \in 1 .. Len(Current) + 1
  BY <1>1, <1>2
<1>4. IterCount = IF Begins(rest, "Sign") THEN NoExpression ELSE EvaluateExpression(rest)
  BY DEF IterCount
<1> HIDE DEF k
<1>5. rest \in Line
  BY <1>2, <1>3, FromType
<1> HIDE DEF rest
<1>6. /\ NoExpression.value \in I32 /\ NoExpression.panics \in BOOLEAN
      /\ NoExpression.error = "InvalidSyntax" /\ "InvalidSyntax" # ""
  BY OutcomeType DEF NoExpression
<1>7. CASE Begins(rest, "Sign")
  <2>1. IterCount = NoExpression
    BY <1>4, <1>7
  <2> QED BY <1>1, <1>6, <2>1
<1>8. CASE ~ Begins(rest, "Sign")
  <2>1. IterCount = EvaluateExpression(rest)
    BY <1>4, <1>8
  <2>2. /\ IterCount.value \in I32 /\ IterCount.panics \in BOOLEAN
        /\ IterCount.error \in {"", "InvalidOrigin", "InvalidSyntax"}
        /\ IterCount.error = "" => IterCount.value \in 0 .. MaxInt
    BY <1>5, <2>1, EvaluateExpressionType
  <2>3. \A n \in 0 .. MaxInt : n \in Nat
    BY MaxIntAssumption
  <2> QED BY <1>1, <2>2, <2>3
<1> QED BY <1>7, <1>8

LEMMA LoopPushed ==
  ASSUME NEW stack \in Seq(ForStatement), NEW for \in ForStatement,
         StackBelow(stack, for.start_line)
  PROVE  /\ Append(stack, for) \in Seq(ForStatement)
         /\ StackBelow(Append(stack, for), for.start_line + 1)
<1>1. /\ Append(stack, for) \in Seq(ForStatement) /\ Len(stack) \in Nat
      /\ Len(Append(stack, for)) = Len(stack) + 1
      /\ \A k \in 1 .. Len(stack) : Append(stack, for)[k] = stack[k]
      /\ Append(stack, for)[Len(stack) + 1] = for
      /\ DOMAIN stack = 1 .. Len(stack)
  BY AppendProperties, LenProperties
<1> DEFINE s == Append(stack, for)
           n == Len(stack)
<1>2. s \in Seq(ForStatement) /\ DOMAIN s = 1 .. n + 1 /\ Len(s) = n + 1 /\ n \in Nat
  BY <1>1, LenProperties
<1> HIDE DEF s, n
<1>3. ASSUME NEW k \in 1 .. n + 1
      PROVE  s[k].start_line < (IF k < n + 1 THEN s[k + 1].start_line ELSE for.start_line + 1)
  <2>1. CASE k = n + 1
    <3>1. s[k] = for /\ for.start_line \in Nat
      BY <1>1, <1>2, <2>1 DEF s, n, ForStatement
    <3> QED BY <1>2, <2>1, <3>1
  <2>2. CASE k = n
    <3>1. s[k] = stack[k] /\ s[k + 1] = for
      BY <1>1, <1>2, <1>3, <2>2 DEF s, n
    <3>2. stack[k].start_line < for.start_line
      BY <1>1, <1>2, <1>3, <2>2 DEF StackBelow, n
    <3> QED BY <1>2, <2>2, <3>1, <3>2
  <2>3. CASE k < n
    <3>1. s[k] = stack[k] /\ s[k + 1] = stack[k + 1]
      BY <1>1, <1>2, <1>3, <2>3 DEF s, n
    <3>2. stack[k].start_line < stack[k + 1].start_line
      BY <1>1, <1>2, <1>3, <2>3 DEF StackBelow, n
    <3> QED BY <1>2, <2>3, <3>1, <3>2
  <2> QED BY <1>2, <1>3, <2>1, <2>2, <2>3
<1> QED BY <1>1, <1>2, <1>3 DEF StackBelow, s, n

LEMMA ForOpensKeeps ==
  ASSUME NEW W, Closed(W), CollectingOK(W), ForOpens
  PROVE  CollectingOK(W)'
<1> DEFINE name == IF First("For") THEN NoName ELSE Current[1].name
           for  == [index_label |-> name, iter_count |-> IterCount.value,
                    start_line |-> i, start_offset |-> offset]
           c    == [ResolvedHere EXCEPT !.for_stack = Append(@, for)]
<1>1. IsFor /\ ~ IterCountFails /\ Round(c, lines, i + 1, offset)
  BY DEF ForOpens
<1>2. /\ Collecting /\ Tokens # << >> /\ name \in Names \cup {NoName}
      /\ IterCount.value \in Nat
  BY <1>1, ForFacts DEF IterCountFails
<1>3. /\ Len(lines) \in Nat /\ i \in 1 .. Len(lines) /\ i \in Nat /\ offset \in Nat
      /\ Current = lines[i]
  BY <1>2, CurrentFacts DEF CollectingOK, ExpansionOK
<1> DEFINE n == IterCount.value
<1> HIDE DEF name, n
<1>4. for \in ForStatement
  <2>1. i \in Nat \ {0}
    BY <1>3
  <2>2. for = [index_label |-> name, iter_count |-> n, start_line |-> i, start_offset |-> offset]
    BY DEF n
  <2>3. name \in Names \cup {NoName} /\ n \in Nat /\ offset \in Nat
    BY <1>2, <1>3 DEF n
  <2> QED BY <2>1, <2>2, <2>3 DEF ForStatement
<1>5. for.start_line = i
  OBVIOUS
<1> HIDE DEF for
<1>6. PICK labels \in [Names -> ValuesOf(W)],
           equ \in [label : Names \cup {NoName}, values : Texts(W)],
           pending \in SUBSET Names, stack \in Seq(ForStatement) :
             ResolvedHere = Tables(labels, equ, pending, stack)
  BY ResolvedHereType, CollectorTables
<1>7. ResolvedHere.for_stack = stack /\ stack = collector.for_stack
  BY <1>6, ResolvedHereType, TablesType
<1> DEFINE more == Append(stack, for)
<1>8. c = Tables(labels, equ, pending, more)
  <2>1. c = [ResolvedHere EXCEPT !.for_stack = more]
    BY <1>7
  <2> HIDE DEF more
  <2>2. [ResolvedHere EXCEPT !.for_stack = more] = Tables(labels, equ, pending, more)
    BY <1>6 DEF Tables
  <2> HIDE DEF c
  <2> QED BY <2>1, <2>2
<1>9. Append(stack, for) \in Seq(ForStatement) /\ StackBelow(Append(stack, for), i + 1)
  <2>1. StackBelow(stack, for.start_line)
    BY <1>5, <1>7 DEF CollectingOK, ExpansionOK
  <2>2. /\ Append(stack, for) \in Seq(ForStatement)
        /\ StackBelow(Append(stack, for), for.start_line + 1)
    BY <1>4, <2>1, LoopPushed
  <2> QED BY <1>5, <2>2
<1> HIDE DEF c, more
<1>10. c \in CollectorOf(W) /\ c.for_stack = more
  <2>1. more \in Seq(ForStatement)
    BY <1>9 DEF more
  <2> QED BY <1>8, <2>1, TablesType
<1>11. TokensBefore(lines, i + 1)
  BY <1>2, <1>3 DEF CollectingOK, TokensBefore, Tokens
<1>12. i + 1 \in 1 .. Len(lines) + 1 /\ lines \in Texts(W)
  BY <1>3 DEF CollectingOK, ExpansionOK
<1> DEFINE to == i + 1
<1> HIDE DEF to
<1>13. StackBelow(c.for_stack, to) /\ Round(c, lines, to, offset) /\ TokensBefore(lines, to)
       /\ to \in 1 .. Len(lines) + 1
  BY <1>1, <1>9, <1>10, <1>11, <1>12 DEF to, more
<1> QED BY <1>3, <1>10, <1>12, <1>13, RoundKeeps

\* Where the line of a copy is in the body.
LEMMA InBody ==
  ASSUME NEW m \in Nat, NEW n \in Nat, NEW j \in 1 .. n * m
  PROVE  ((j - 1) % m) + 1 \in 1 .. m /\ ((j - 1) \div m) + 1 \in Int /\ j - 1 \in Nat
<1>1. m # 0
  OBVIOUS
<1> DEFINE k == j - 1
<1>2. k \in Nat
  OBVIOUS
<1> HIDE DEF k
<1>3. k % m \in 0 .. m - 1 /\ k \div m \in Int
  BY <1>1, <1>2
<1> QED BY <1>2, <1>3 DEF k

\* The copies of a body are lines over the same words.
LEMMA UnrolledType ==
  ASSUME NEW W, Closed(W), NEW for \in ForStatement, NEW body \in Texts(W),
         NEW labels \in [Names -> ValuesOf(W)]
  PROVE  /\ Unrolled(for, body, labels) \in Texts(W)
         /\ Len(Unrolled(for, body, labels)) \in Nat
<1> DEFINE m == Len(body)
           n == for.iter_count
           size == n * m
           Copy(j) ==
             LET copied == body[((j - 1) % m) + 1]
                 turn   == ((j - 1) \div m) + 1
             IN  IF for.index_label = NoName THEN copied
                 ELSE SubstituteOffsetsInLine(copied,
                        [labels EXCEPT ![for.index_label] = Relative(turn)],
                        for.start_offset + j - 1)
<1>1. /\ n \in Nat /\ for.index_label \in Names \cup {NoName} /\ for.start_offset \in Nat
      /\ m \in Nat /\ body \in Seq(Seq(W))
  BY LenProperties DEF ForStatement, Texts
<1>2. Unrolled(for, body, labels) = [j \in 1 .. size |-> Copy(j)]
  BY DEF Unrolled
<1>3. size \in Nat
  BY <1>1
<1>4. ASSUME NEW j \in 1 .. size
      PROVE  Copy(j) \in Seq(W)
  <2> DEFINE k    == ((j - 1) % m) + 1
             turn == ((j - 1) \div m) + 1
             from == for.start_offset + j - 1
             put  == [labels EXCEPT ![for.index_label] = Relative(turn)]
  <2>1. k \in 1 .. m /\ turn \in Int /\ j - 1 \in Nat
    <3> HIDE DEF m, n
    <3> QED BY <1>1, InBody
  <2>2. from \in Int
    BY <1>1, <2>1
  <2>3. Copy(j) = IF for.index_label = NoName THEN body[k]
                  ELSE SubstituteOffsetsInLine(body[k], put, from)
    OBVIOUS
  <2> HIDE DEF k, turn, from, Copy
  <2>4. body[k] \in Seq(W)
    <3> DEFINE S == Seq(W)
    <3>1. body \in Seq(S) /\ k \in 1 .. Len(body)
      BY <1>1, <2>1
    <3> HIDE DEF S
    <3>2. body[k] \in S
      BY <3>1, ElementOfSeq
    <3> QED BY <3>2 DEF S
  <2>5. Relative(turn) \in ValuesOf(W)
    BY <2>1, EmptyText DEF Relative, ValuesOf, Texts
  <2>6. put \in [Names -> ValuesOf(W)]
    <3> DEFINE value == Relative(turn)
    <3> HIDE DEF value
    <3> QED BY <2>5 DEF value
  <2> HIDE DEF put
  <2>7. SubstituteOffsetsInLine(body[k], put, from) \in Seq(W)
    BY <2>2, <2>4, <2>6, SubstituteType
  <2> QED BY <2>3, <2>4, <2>7
<1> HIDE DEF Copy, size
<1>5. [j \in 1 .. size |-> Copy(j)] \in [1 .. size -> Seq(W)]
  BY <1>4
<1> DEFINE copies == [j \in 1 .. size |-> Copy(j)]
           S == Seq(W)
<1>6. copies \in [1 .. size -> S]
  BY <1>5
<1> HIDE DEF copies, S
<1>7. copies \in Seq(S) /\ Len(copies) = size
  BY <1>3, <1>6, TableSeq
<1> QED BY <1>2, <1>3, <1>7 DEF copies, S, Texts

\* What a ROF puts in the place of the loop begins where the loop began.
LEMMA SplicedType ==
  ASSUME NEW W, Closed(W), CollectingOK(W), Collecting,
         NEW start \in 1 .. i, NEW new \in Texts(W)
  PROVE  /\ Spliced(start, new) \in Texts(W)
         /\ Len(Spliced(start, new)) \in Nat /\ Len(Spliced(start, new)) >= start - 1
         /\ \A k \in 1 .. start - 1 : Spliced(start, new)[k] = lines[k]
<1> DEFINE n    == start - 1
           rest == SubSeq(lines, i + 1, Len(lines))
           S    == Seq(W)
<1>1. /\ Len(lines) \in Nat /\ i \in 1 .. Len(lines) /\ i + 1 \in Nat /\ 1 <= i + 1
      /\ n \in Nat /\ n <= Len(lines)
  BY CurrentFacts
<1>2. lines \in Seq(S) /\ new \in Seq(S)
  BY DEF CollectingOK, ExpansionOK, Texts
<1>3. Spliced(start, new) = SubSeq(lines, 1, n) \o new \o rest
  BY DEF Spliced
<1> HIDE DEF S
<1>4. rest \in Seq(S)
  <2> DEFINE a == i + 1
             b == Len(lines)
  <2>1. a \in Nat /\ b \in Nat /\ 1 <= a /\ b <= Len(lines)
    BY <1>1
  <2> HIDE DEF a, b
  <2>2. SubSeq(lines, a, b) \in Seq(S)
    BY <1>2, <2>1, PartSeq
  <2> QED BY <2>2 DEF a, b
<1> HIDE DEF rest, n
<1>5. /\ SubSeq(lines, 1, n) \o new \o rest \in Seq(S)
      /\ Len(SubSeq(lines, 1, n) \o new \o rest) = n + Len(new) + Len(rest)
      /\ Len(new) \in Nat /\ Len(rest) \in Nat
      /\ \A k \in 1 .. n : (SubSeq(lines, 1, n) \o new \o rest)[k] = lines[k]
  <2>1. n \in Nat /\ n <= Len(lines)
    BY <1>1
  <2> QED BY <1>2, <1>4, <2>1, FrontKept
<1>6. n + Len(new) + Len(rest) \in Nat /\ n + Len(new) + Len(rest) >= n
  BY <1>1, <1>5
<1> QED BY <1>3, <1>5, <1>6 DEF n, S, Texts

LEMMA RofRepeatsKeeps ==
  ASSUME NEW W, Closed(W), CollectingOK(W), RofRepeats
  PROVE  CollectingOK(W)'
<1> DEFINE for  == Last(collector.for_stack)
           body == SubSeq(lines, for.start_line + 1, i - 1)
           new  == Unrolled(for, body, collector.labels)
           indexed == for.index_label # NoName /\ new # << >>
           labels  == IF indexed THEN Forget(collector.labels, for.index_label)
                      ELSE collector.labels
           start == for.start_line
           at    == Rewound(Len(body))
<1>1. /\ First("Rof") /\ collector.for_stack # << >>
      /\ Round(LoopClosed(collector, labels), Spliced(start, new), start, at)
  BY DEF RofRepeats
<1>2. Collecting
  BY <1>1, FirstFacts
<1>3. /\ Len(lines) \in Nat /\ i \in 1 .. Len(lines) /\ i \in Nat /\ offset \in Int
      /\ lines \in Seq(Seq(W))
      /\ StackBelow(collector.for_stack, i) /\ TokensBefore(lines, i)
  BY <1>2, CurrentFacts DEF CollectingOK, ExpansionOK, Texts
<1>4. collector \in CollectorOf(W) /\ collector.labels \in [Names -> ValuesOf(W)]
  BY CollectorFields DEF CollectingOK, ExpansionOK
<1>5. PICK n \in Nat \ {0} : n = Len(collector.for_stack)
  BY <1>1, <1>4, LoopClosedType
<1>6. for \in ForStatement /\ for = collector.for_stack[n] /\ collector.for_stack \in Seq(ForStatement)
  BY <1>1, <1>4, <1>5, LoopClosedType, CollectorFields
<1>7. for.start_line \in Nat \ {0} /\ for.start_line < i
      /\ for.index_label \in Names \cup {NoName}
  <2> DEFINE s == collector.for_stack
  <2>1. n \in DOMAIN s /\ n = Len(s) /\ StackBelow(s, i) /\ for = s[n]
    BY <1>3, <1>5, <1>6, LenProperties
  <2> HIDE DEF s, for
  <2>2. s[n].start_line < (IF n < Len(s) THEN s[n + 1].start_line ELSE i)
    BY <2>1 DEF StackBelow
  <2>3. for.start_line < i
    BY <2>1, <2>2
  <2> QED BY <1>6, <2>3 DEF ForStatement
<1>8. body \in Texts(W)
  <2> DEFINE a == for.start_line + 1
             b == i - 1
             S == Seq(W)
  <2>1. a \in Nat /\ b \in Nat /\ 1 <= a /\ b <= Len(lines) /\ lines \in Seq(S)
    BY <1>3, <1>7
  <2> HIDE DEF a, b, S
  <2>2. SubSeq(lines, a, b) \in Seq(S)
    BY <2>1, PartSeq
  <2> QED BY <2>2 DEF a, b, S, Texts
<1>9. Len(body) \in Nat
  BY <1>8, LenProperties DEF Texts
<1>10. at \in Nat
  <2> DEFINE m == Len(body)
             d == offset - m
             u == MaxU32 + 1
  <2>1. at = d % u
    BY DEF Rewound
  <2> HIDE DEF body
  <2>2. m \in Int
    BY <1>9
  <2> HIDE DEF m, at
  <2>3. d \in Int
    BY <1>3, <2>2
  <2>4. u \in Nat \ {0}
    BY MaxU32Assumption
  <2> HIDE DEF d, u
  <2> QED BY <2>1, <2>3, <2>4
<1> HIDE DEF body, at, for
<1>11. new \in Texts(W)
  BY <1>4, <1>6, <1>8, UnrolledType
<1> HIDE DEF new
<1>12. labels \in [Names -> ValuesOf(W)]
  <2>1. CASE indexed
    <3>1. Unknown \in ValuesOf(W)
      BY EmptyText DEF Unknown, ValuesOf, Texts
    <3>2. Forget(collector.labels, for.index_label) \in [Names -> ValuesOf(W)]
      BY <1>4, <3>1 DEF Forget
    <3> QED BY <2>1, <3>2
  <2>2. CASE ~ indexed
    BY <1>4, <2>2
  <2> QED BY <2>1, <2>2
<1> HIDE DEF labels
<1> DEFINE c  == LoopClosed(collector, labels)
           ls == Spliced(start, new)
<1>13. /\ c \in CollectorOf(W) /\ c.for_stack = Front(collector.for_stack)
       /\ Front(collector.for_stack) \in Seq(ForStatement)
       /\ Len(Front(collector.for_stack)) = Len(collector.for_stack) - 1
       /\ \A k \in 1 .. Len(collector.for_stack) - 1 :
             Front(collector.for_stack)[k] = collector.for_stack[k]
  BY <1>1, <1>4, <1>12, LoopClosedType
<1>14. /\ ls \in Texts(W) /\ Len(ls) \in Nat /\ Len(ls) >= start - 1
       /\ \A k \in 1 .. start - 1 : ls[k] = lines[k]
  <2>1. start \in 1 .. i
    BY <1>3, <1>7
  <2> HIDE DEF start
  <2> QED BY <1>2, <1>11, <2>1, SplicedType
<1> HIDE DEF c, ls
<1>15. StackBelow(c.for_stack, start)
  <2> DEFINE s == collector.for_stack
             f == Front(collector.for_stack)
  <2>1. /\ DOMAIN f = 1 .. n - 1 /\ Len(f) = n - 1 /\ DOMAIN s = 1 .. n
        /\ \A k \in 1 .. n - 1 : f[k] = s[k]
    BY <1>5, <1>6, <1>13, LenProperties
  <2>2. StackBelow(s, i) /\ s[n].start_line = start /\ c.for_stack = f /\ n = Len(s)
    BY <1>3, <1>5, <1>6, <1>13
  <2> HIDE DEF s, f, start
  <2>3. ASSUME NEW k \in 1 .. n - 1
        PROVE  f[k].start_line < (IF k < n - 1 THEN f[k + 1].start_line ELSE start)
    <3>1. s[k].start_line < s[k + 1].start_line
      <4>1. k \in DOMAIN s /\ k < Len(s)
        BY <2>1, <2>2
      <4> QED BY <2>2, <4>1 DEF StackBelow
    <3>2. f[k] = s[k] /\ (k < n - 1 => f[k + 1] = s[k + 1]) /\ (~ (k < n - 1) => k + 1 = n)
      BY <2>1
    <3> QED BY <2>2, <3>1, <3>2
  <2> QED BY <2>1, <2>2, <2>3 DEF StackBelow
<1>16. TokensBefore(ls, start)
  <2>1. ASSUME NEW k \in 1 .. start - 1
        PROVE  k \in 1 .. i - 1
    BY <1>3, <1>7
  <2> QED BY <1>3, <1>14, <2>1 DEF TokensBefore
<1>17. start \in 1 .. Len(ls) + 1
  BY <1>7, <1>14
<1> QED
  <2>1. Round(c, ls, start, at)
    BY <1>1 DEF c, ls
  <2> HIDE DEF start
  <2> QED BY <1>10, <1>13, <1>14, <1>15, <1>16, <1>17, <2>1, RoundKeeps

\* The second pass, over lines that have tokens.
LEMMA SubstituteOffsetsType ==
  ASSUME NEW W, Closed(W), NEW ls \in Texts(W), NEW labels \in [Names -> ValuesOf(W)],
         \A k \in 1 .. Len(ls) : Tokenize(ls[k]) # << >>
  PROVE  /\ SubstituteOffsets(ls, labels) \in Texts(W)
         /\ Len(SubstituteOffsets(ls, labels)) = Len(ls)
<1> DEFINE Alone(k)    == Tokenize(ls[k]) = << "Label" >>
           Counted(k)  == ~ Alone(k) /\ ~ IsOrg(ls[k])
           Stripped(k) == IF Tokenize(ls[k])[1] = "Label" THEN Tail(ls[k]) ELSE ls[k]
           Before(k)   == { j \in 1 .. k - 1 : Counted(j) }
           Put(k)      == IF Alone(k) THEN << >>
                          ELSE SubstituteOffsetsInLine(Stripped(k), labels, Cardinality(Before(k)))
           new == [k \in DOMAIN ls |-> Put(k)]
           S   == Seq(W)
<1>1. ls \in Seq(S) /\ Len(ls) \in Nat /\ DOMAIN ls = 1 .. Len(ls)
  BY LenProperties DEF Texts
<1>2. SubstituteOffsets(ls, labels) = new
  BY DEF SubstituteOffsets
<1>3. ASSUME NEW k \in 1 .. Len(ls)
      PROVE  Put(k) \in S
  <2>1. ls[k] \in Seq(W)
    <3> HIDE DEF S
    <3>1. ls[k] \in S
      BY <1>1, ElementOfSeq
    <3> QED BY <3>1 DEF S
  <2>2. ls[k] \in Line /\ ls[k] # << >>
    <3>1. ls[k] \in Line
      BY <2>1, LinesOf
    <3>2. TokensOf(Tokenize(ls[k]), ls[k])
      BY <3>1, LineTokens
    <3>3. Tokenize(ls[k]) \in Seq(Rules) /\ Len(Tokenize(ls[k])) <= Len(ls[k])
      BY <3>2 DEF TokensOf
    <3>4. Len(Tokenize(ls[k])) \in Nat /\ Len(Tokenize(ls[k])) # 0
      BY <3>3, LenProperties, EmptySeq
    <3>5. Len(<< >>) = 0
      OBVIOUS
    <3> QED BY <3>1, <3>3, <3>4, <3>5
  <2>3. Stripped(k) \in Seq(W)
    <3>1. Tail(ls[k]) \in Seq(W)
      BY <2>1, <2>2, HeadTailProperties
    <3> QED BY <2>1, <3>1
  <2>4. Cardinality(Before(k)) \in Int
    <3>1. IsFiniteSet(1 .. k - 1)
      BY FS_Interval
    <3>2. Before(k) \in SUBSET (1 .. k - 1)
      OBVIOUS
    <3> HIDE DEF Before
    <3>3. Cardinality(Before(k)) \in Nat
      BY <3>1, <3>2, FS_Subset, FS_CardinalityType
    <3> QED BY <3>3
  <2> DEFINE line == Stripped(k)
             n    == Cardinality(Before(k))
  <2>5. Put(k) = IF Alone(k) THEN << >> ELSE SubstituteOffsetsInLine(line, labels, n)
    OBVIOUS
  <2>6. line \in Seq(W) /\ n \in Int
    BY <2>3, <2>4
  <2> HIDE DEF line, n, Put
  <2>7. SubstituteOffsetsInLine(line, labels, n) \in Seq(W)
    BY <2>6, SubstituteType
  <2> QED BY <2>5, <2>7, EmptyText
<1> HIDE DEF Put, S
<1>4. new \in [1 .. Len(ls) -> S]
  BY <1>1, <1>3
<1> HIDE DEF new
<1>5. new \in Seq(S) /\ Len(new) = Len(ls)
  BY <1>1, <1>4, TableSeq
<1> QED BY <1>2, <1>5 DEF S, Texts

LEMMA SubstituteKeeps ==
  ASSUME NEW W, Closed(W), CollectingOK(W), Substitute
  PROVE  ExpansionOK(W)' /\ phase' = "expanded"
<1> DEFINE labels == WithEqu(collector)
           ls     == SubstituteOffsets(lines, labels)
           org    == SubstituteOffsetsInLine(origin, labels, 0)
<1>1. /\ i > Len(lines) /\ phase' = "expanded" /\ lines' = ls /\ origin' = org
      /\ UNCHANGED <<i, offset, collector>>
  BY DEF Substitute
<1>2. /\ lines \in Texts(W) /\ origin \in Seq(W) /\ i \in 1 .. Len(lines) + 1
      /\ offset \in Nat /\ collector \in CollectorOf(W) /\ StackBelow(collector.for_stack, i)
      /\ TokensBefore(lines, i)
  BY DEF CollectingOK, ExpansionOK
<1>3. Len(lines) \in Nat
  BY <1>2, LenProperties DEF Texts
<1>4. \A k \in 1 .. Len(lines) : Tokenize(lines[k]) # << >>
  <2>1. i = Len(lines) + 1
    BY <1>1, <1>2, <1>3
  <2>2. \A k \in 1 .. Len(lines) : k \in 1 .. i - 1
    BY <1>3, <2>1
  <2> QED BY <1>2, <2>2 DEF TokensBefore
<1>5. labels \in [Names -> ValuesOf(W)]
  BY <1>2, CollectorFields
<1> HIDE DEF labels
<1>6. ls \in Texts(W) /\ Len(ls) = Len(lines)
  BY <1>2, <1>4, <1>5, SubstituteOffsetsType
<1>7. org \in Seq(W)
  BY <1>2, <1>5, SubstituteType
<1> HIDE DEF ls, org
<1> QED BY <1>1, <1>2, <1>6, <1>7 DEF ExpansionOK

\* A round of the loop, the end of it, or a panic, over any words.
LEMMA StepKeeps ==
  ASSUME NEW W, Closed(W), CollectingOK(W), Step
  PROVE  /\ phase = "collecting" /\ phase' \in {"collecting", "expanded", "panicked"}
         /\ ExpansionOK(W)'
         /\ phase' = "collecting" => CollectingOK(W)'
<1>1. ASSUME CollectingOK(W)', phase = "collecting", phase' = phase
      PROVE  /\ phase = "collecting" /\ phase' \in {"collecting", "expanded", "panicked"}
             /\ ExpansionOK(W)'
             /\ phase' = "collecting" => CollectingOK(W)'
  BY <1>1 DEF CollectingOK
<1>2. CASE Spin
  <2>1. CollectingOK(W)' /\ phase = "collecting" /\ phase' = phase
    BY <1>2 DEF Spin, Collecting, vars, CollectingOK, ExpansionOK
  <2> QED BY <1>1, <2>1
<1>3. CASE ForExpands
  BY <1>1, <1>3, ForExpandsKeeps, ForFacts
    DEF ForExpands, ForHasLabel, Round, Collecting
<1>4. CASE ForOpens
  BY <1>1, <1>4, ForOpensKeeps, ForFacts DEF ForOpens, Round, Collecting
<1>5. CASE ForPanics \/ RofPanics
  <2>1. Panic /\ phase = "collecting"
    BY <1>5, ForFacts DEF ForPanics, RofPanics, First, Collecting
  <2> QED BY <2>1 DEF Panic, CollectingOK, ExpansionOK
<1>6. CASE RofRepeats
  BY <1>1, <1>6, RofRepeatsKeeps DEF RofRepeats, First, Round, Collecting
<1>7. CASE EquDefined \/ EquContinues
  BY <1>1, <1>7, EquKeeps DEF EquDefined, EquContinues, First, Second, Round, Collecting
<1>8. CASE EquExpands
  BY <1>1, <1>8, EquExpandsKeeps DEF EquExpands, LabelLine, First, Round, Collecting
<1>9. CASE LabelExpands \/ LabelAlone
  BY <1>1, <1>9, LabelKeeps
    DEF LabelExpands, LabelHasLabel, LabelAlone, LabelLine, First, Round, Collecting
<1>10. CASE LabelStripped
  BY <1>1, <1>10, LabelStrippedKeeps DEF LabelStripped, LabelLine, First, Round, Collecting
<1>11. CASE InstructionExpands
  BY <1>1, <1>11, InstructionExpandsKeeps
    DEF InstructionExpands, InstructionHasLabel, First, Round, Collecting
<1>12. CASE InstructionCounted
  BY <1>1, <1>12, InstructionCountedKeeps DEF InstructionCounted, First, Round, Collecting
<1>13. CASE Substitute
  BY <1>13, SubstituteKeeps DEF Substitute
<1> QED BY <1>2, <1>3, <1>4, <1>5, <1>6, <1>7, <1>8, <1>9, <1>10, <1>11, <1>12, <1>13 DEF Step

-----------------------------------------------------------------------------
(* The expansion phase.                                                    *)

LEMMA NewCollectorType ==
  ASSUME NEW W
  PROVE  NewCollector \in CollectorOf(W) /\ NewCollector.for_stack = << >>
<1> DEFINE table == [n \in Names |-> IF n \in DOMAIN DEFAULT_CONSTANTS
                                       THEN Relative(DEFAULT_CONSTANTS[n]) ELSE Unknown]
<1>1. \A n \in DOMAIN DEFAULT_CONSTANTS : DEFAULT_CONSTANTS[n] \in Int
  BY DEF DEFAULT_CONSTANTS
<1>2. table \in [Names -> ValuesOf(W)]
  <2> DEFINE d == DEFAULT_CONSTANTS
  <2>1. \A n \in DOMAIN d : Relative(d[n]) \in ValuesOf(W)
    <3> HIDE DEF d
    <3> QED BY <1>1, EmptyText DEF Relative, ValuesOf, Texts, d
  <2>2. Unknown \in ValuesOf(W)
    BY EmptyText DEF Unknown, ValuesOf, Texts
  <2> HIDE DEF d
  <2> QED BY <2>1, <2>2 DEF d
<1>3. NoEqu \in [label : Names \cup {NoName}, values : Texts(W)]
  BY EmptyText DEF NoEqu, Texts
<1>4. << >> \in Seq(ForStatement)
  BY EmptyText
<1>5. NewCollector = Tables(table, NoEqu, {}, << >>)
  BY DEF NewCollector, Tables
<1>6. {} \in SUBSET Names
  OBVIOUS
<1> DEFINE none == << >>
           nobody == {}
<1> HIDE DEF table, none, nobody
<1>7. Tables(table, NoEqu, nobody, none) \in CollectorOf(W)
      /\ Tables(table, NoEqu, nobody, none).for_stack = none
  <2>1. none \in Seq(ForStatement) /\ nobody \in SUBSET Names
    BY <1>4, <1>6 DEF none, nobody
  <2> QED BY <1>2, <1>3, <2>1, TablesType
<1> QED BY <1>5, <1>7 DEF none, nobody

\* Where the phase begins.
LEMMA BeginsCollecting ==
  ASSUME NEW W, lines \in Texts(W), origin \in Seq(W), i = 1, offset = 0,
         collector = NewCollector
  PROVE  CollectingOK(W)
<1>1. Len(lines) \in Nat
  BY LenProperties DEF Texts
<1>2. 1 \in 1 .. Len(lines) + 1
  BY <1>1
<1>3. StackBelow(<< >>, 1) /\ TokensBefore(lines, 1)
  BY DEF StackBelow, TokensBefore
<1> QED BY <1>2, <1>3, NewCollectorType DEF CollectingOK, ExpansionOK

LEMMA StepCollects == Step => phase = "collecting"
  BY DEF Step, Spin, ForExpands, ForHasLabel, ForPanics, ForOpens, RofPanics, RofRepeats,
         EquDefined, EquContinues, EquExpands, LabelExpands, LabelHasLabel, LabelStripped,
         LabelAlone, InstructionExpands, InstructionHasLabel, InstructionCounted, Substitute,
         IsFor, LabelLine, First, Second, Collecting

LEMMA AllWords == Closed(Word)
<1>1. ASSUME NEW n \in Nat PROVE Number(n) \in Word
  BY DEF Number, Word
<1>2. Sign("-") \in Word
  BY DEF Sign, Word, UnaryOp
<1> QED BY <1>1, <1>2 DEF Closed

\* What the phase keeps, over the words W.
ExpansionIInv(W) ==
  /\ phase \in {"collecting", "expanded", "panicked"}
  /\ ExpansionOK(W)
  /\ phase = "collecting" => TokensBefore(lines, i)

LEMMA ExpansionKeeps ==
  ASSUME NEW W, Closed(W), ExpansionIInv(W), [Next]_vars
  PROVE  ExpansionIInv(W)'
<1>1. CASE Step
  <2>1. CollectingOK(W)
    BY <1>1, StepCollects DEF ExpansionIInv, CollectingOK
  <2> QED BY <1>1, <2>1, StepKeeps DEF ExpansionIInv, CollectingOK
<1>2. CASE UNCHANGED vars
  BY <1>2 DEF vars, ExpansionIInv, ExpansionOK
<1> QED BY <1>1, <1>2 DEF Next, Done

LEMMA ExpansionInvariance == Spec => []ExpansionIInv(Word)
<1>1. Init => ExpansionIInv(Word)
  <2> SUFFICES ASSUME Init PROVE ExpansionIInv(Word)
    OBVIOUS
  <2>1. lines \in Texts(Word) /\ origin \in Seq(Word) /\ phase = "collecting"
    BY SourcesAssumption DEF Init, Texts, Line
  <2> QED BY <2>1, BeginsCollecting DEF Init, ExpansionIInv, CollectingOK
<1>2. ExpansionIInv(Word) /\ [Next]_vars => ExpansionIInv(Word)'
  BY AllWords, ExpansionKeeps
<1> QED BY <1>1, <1>2, PTL DEF Spec

\* Expansion never leaves its types: each line is a line of words, a loop's table of
\* labels is complete, the count of a FOR is a number, loops are open inside of each
\* other, and nothing is read outside of the text (expansion.rs:39).
THEOREM ExpansionTypes == Spec => []TypeOK
<1>1. ValuesOf(Word) = LabelValue /\ CollectorOf(Word) = Collector /\ Texts(Word) = Seq(Line)
  BY DEF ValuesOf, CollectorOf, Texts, LabelValue, Collector, Line
<1>2. ExpansionIInv(Word) => TypeOK
  BY <1>1 DEF ExpansionIInv, ExpansionOK, TypeOK, StackBelow, Line
<1> QED BY <1>2, ExpansionInvariance, PTL

\* The second pass never meets a line without a token (expansion.rs:280), whatever the
\* substitutions and the unrolled loops have put in front of the line being processed.
THEOREM PassedLinesHaveTokensCorrect == Spec => []PassedLinesHaveTokens
<1>1. ExpansionIInv(Word) => PassedLinesHaveTokens
  BY DEF ExpansionIInv, TokensBefore, PassedLinesHaveTokens
<1> QED BY <1>1, ExpansionInvariance, PTL

\* No word of a source is the mnemonic ORG.
OrgTakenOut ==
  \A s \in Sources : /\ s.text \in Texts(Word \ {Mnemonic("Org")})
                     /\ s.origin \in Seq(Word \ {Mnemonic("Org")})

LEMMA WordsWithoutOrg == Closed(Word \ {Mnemonic("Org")})
  BY AllWords DEF Closed, Number, Sign, Mnemonic

\* A round that keeps the offset and the line, and one that counts an instruction.
LEMMA CountKept ==
  ASSUME OffsetCountsLines, NEW c, NEW ls, c.for_stack = collector.for_stack,
         Round(c, ls, i, offset)
  PROVE  OffsetCountsLines'
  BY DEF OffsetCountsLines, Round

LEMMA CountedOne ==
  ASSUME NEW W, CollectingOK(W), OffsetCountsLines, NEW c, NEW ls,
         c.for_stack = collector.for_stack, Round(c, ls, i + 1, offset + 1)
  PROVE  OffsetCountsLines'
<1>1. i \in Int /\ offset \in Int /\ Len(collector.for_stack) \in Nat
  BY CollectorFields, LenProperties DEF CollectingOK, ExpansionOK, Texts
<1>2. collector'.for_stack = collector.for_stack /\ i' = i + 1 /\ offset' = offset + 1
  BY DEF Round
<1> QED BY <1>1, <1>2 DEF OffsetCountsLines

LEMMA ForOpensCounts ==
  ASSUME NEW W, Closed(W), CollectingOK(W), OffsetCountsLines, ForOpens
  PROVE  OffsetCountsLines'
<1> DEFINE for == [index_label  |-> IF First("For") THEN NoName ELSE Current[1].name,
                   iter_count   |-> IterCount.value,
                   start_line   |-> i,
                   start_offset |-> offset]
           stack == collector.for_stack
           n     == Len(stack)
<1>1. /\ collector' = [ResolvedHere EXCEPT !.for_stack = Append(@, for)]
      /\ i' = i + 1 /\ offset' = offset
  BY DEF ForOpens, Round
<1>2. for.start_line = i /\ for.start_offset = offset
  OBVIOUS
<1> HIDE DEF for
<1>3. PICK labels \in [Names -> ValuesOf(W)],
           equ \in [label : Names \cup {NoName}, values : Texts(W)],
           pending \in SUBSET Names, old \in Seq(ForStatement) :
             ResolvedHere = Tables(labels, equ, pending, old)
  BY ResolvedHereType, CollectorTables
<1>4. ResolvedHere.for_stack = old /\ old = stack
  BY <1>3, ResolvedHereType, TablesType
<1>5. collector'.for_stack = Append(stack, for)
  <2> DEFINE more == Append(stack, for)
  <2>1. collector' = [ResolvedHere EXCEPT !.for_stack = more]
    BY <1>1, <1>4
  <2> HIDE DEF more
  <2>2. collector'.for_stack = more
    BY <1>3, <2>1 DEF Tables
  <2> QED BY <2>2 DEF more
<1>6. /\ i \in Nat /\ offset \in Nat /\ stack \in Seq(ForStatement)
      /\ n \in Nat /\ DOMAIN stack = 1 .. n
  BY CollectorFields, LenProperties DEF CollectingOK, ExpansionOK, Texts
<1> DEFINE more == Append(stack, for)
<1>7. /\ DOMAIN more = 1 .. n + 1 /\ Len(more) = n + 1 /\ more[n + 1] = for
      /\ \A k \in 1 .. n : more[k] = stack[k]
  BY <1>6
<1>8. /\ offset = i - 1 - n
      /\ \A k \in 1 .. n : stack[k].start_offset = stack[k].start_line - k
  BY <1>6 DEF OffsetCountsLines
<1> HIDE DEF more, stack, n
<1>9. /\ offset' = i' - 1 - Len(more)
      /\ \A k \in DOMAIN more : more[k].start_offset = more[k].start_line - k
  <2>1. ASSUME NEW k \in 1 .. n + 1
        PROVE  more[k].start_offset = more[k].start_line - k
    <3>1. CASE k = n + 1
      BY <1>2, <1>6, <1>7, <1>8, <3>1
    <3>2. CASE k # n + 1
      <4>1. k \in 1 .. n
        BY <1>6, <3>2
      <4> QED BY <1>7, <1>8, <4>1
    <3> QED BY <3>1, <3>2
  <2>2. offset' = i' - 1 - Len(more)
    BY <1>1, <1>6, <1>7, <1>8
  <2> QED BY <1>7, <2>1, <2>2
<1> QED BY <1>5, <1>9 DEF OffsetCountsLines, more

\* At a ROF the count goes back to the first line of the loop.
LEMMA RofRepeatsCounts ==
  ASSUME NEW W, Closed(W), CollectingOK(W), OffsetCountsLines, offset <= MaxU32, RofRepeats
  PROVE  OffsetCountsLines'
<1> DEFINE stack == collector.for_stack
           for   == Last(stack)
           body  == SubSeq(lines, for.start_line + 1, i - 1)
           n     == Len(stack)
<1>1. /\ First("Rof") /\ stack # << >>
      /\ collector'.for_stack = Front(stack)
      /\ i' = for.start_line /\ offset' = Rewound(Len(body))
  BY DEF RofRepeats, Round, LoopClosed
<1>2. /\ Collecting /\ Len(lines) \in Nat /\ i \in 1 .. Len(lines) /\ i \in Nat
      /\ offset \in Nat /\ collector \in CollectorOf(W) /\ collector.labels \in [Names -> ValuesOf(W)]
      /\ lines \in Seq(Seq(W)) /\ StackBelow(stack, i) /\ stack \in Seq(ForStatement)
  BY <1>1, FirstFacts, CurrentFacts, CollectorFields DEF CollectingOK, ExpansionOK, Texts
<1>3. /\ n \in Nat \ {0} /\ for = stack[n] /\ for \in ForStatement
      /\ Front(stack) \in Seq(ForStatement) /\ Len(Front(stack)) = n - 1
      /\ \A k \in 1 .. n - 1 : Front(stack)[k] = stack[k]
  BY <1>1, <1>2, LoopClosedType
<1>4. DOMAIN stack = 1 .. n /\ DOMAIN Front(stack) = 1 .. n - 1
  BY <1>2, <1>3, LenProperties
<1>5. /\ for.start_line \in Nat \ {0} /\ for.start_line < i /\ for.start_offset \in Nat
      /\ for.start_offset = for.start_line - n
      /\ offset = i - 1 - n
      /\ \A k \in 1 .. n : stack[k].start_offset = stack[k].start_line - k
  <2>1. n \in DOMAIN stack /\ n = Len(stack) /\ ~ (n < n)
    BY <1>3, <1>4
  <2>2. \A k \in 1 .. n : stack[k].start_offset = stack[k].start_line - k
    BY <1>4 DEF OffsetCountsLines
  <2>3. offset = i - 1 - n
    BY DEF OffsetCountsLines
  <2> HIDE DEF stack, for, n
  <2>4. stack[n].start_line < (IF n < Len(stack) THEN stack[n + 1].start_line ELSE i)
    BY <1>2, <2>1 DEF StackBelow
  <2>5. for.start_line < i /\ for.start_offset = for.start_line - n
    BY <1>3, <2>1, <2>2, <2>4
  <2> QED BY <1>3, <2>2, <2>3, <2>5 DEF ForStatement
<1> HIDE DEF for, stack, n
<1>6. Len(body) = i - 1 - for.start_line
  <2> DEFINE a == for.start_line + 1
             b == i - 1
             S == Seq(W)
  <2>1. /\ a \in Nat /\ b \in Nat /\ 1 <= a /\ b <= Len(lines)
        /\ (IF a <= b THEN b - a + 1 ELSE 0) = i - 1 - for.start_line
    <3>1. PICK line \in Nat \ {0}, at \in Nat, len \in Nat :
             line = for.start_line /\ at = i /\ len = Len(lines) /\ line < at /\ at <= len
      <4>1. /\ for.start_line \in Nat \ {0} /\ i \in Nat /\ Len(lines) \in Nat
            /\ for.start_line < i /\ i <= Len(lines)
        BY <1>2, <1>5
      <4> QED BY <4>1
    <3>2. a = line + 1 /\ b = at - 1
      BY <3>1
    <3> HIDE DEF a, b
    <3>3. /\ a \in Nat /\ b \in Nat /\ 1 <= a /\ b <= len
          /\ (IF a <= b THEN b - a + 1 ELSE 0) = at - 1 - line
      BY <3>1, <3>2
    <3> QED BY <3>1, <3>3
  <2>0. lines \in Seq(S)
    BY <1>2
  <2> HIDE DEF a, b, S
  <2>2. Len(SubSeq(lines, a, b)) = IF a <= b THEN b - a + 1 ELSE 0
    BY <2>1, <2>0, PartSeq
  <2> QED BY <2>1, <2>2 DEF a, b
<1> HIDE DEF body
<1>7. Rewound(Len(body)) = for.start_line - n
  <2> DEFINE d == offset - Len(body)
             u == MaxU32 + 1
  <2>1. d = for.start_line - n
    <3>1. PICK line \in Nat, m \in Nat, at \in Nat :
             line = for.start_line /\ m = n /\ at = i
      BY <1>2, <1>3, <1>5
    <3>2. offset = at - 1 - m /\ Len(body) = at - 1 - line
      BY <1>5, <1>6, <3>1
    <3>3. offset - Len(body) = line - m
      BY <3>2
    <3> QED BY <3>1, <3>3
  <2>2. d \in Nat /\ d <= offset
    BY <1>2, <1>3, <1>5, <2>1
  <2>3. u \in Nat \ {0} /\ d < u
    BY <1>2, <2>2, MaxU32Assumption
  <2>4. Rewound(Len(body)) = d % u
    BY DEF Rewound
  <2> HIDE DEF d, u
  <2>5. d % u = d
    BY <2>2, <2>3
  <2> QED BY <2>1, <2>4, <2>5
<1> DEFINE front == Front(stack)
<1>8. /\ DOMAIN front = 1 .. n - 1 /\ Len(front) = n - 1
      /\ \A k \in 1 .. n - 1 : front[k] = stack[k]
  BY <1>3, <1>4
<1> HIDE DEF front
<1>9. offset' = i' - 1 - Len(front)
  BY <1>1, <1>3, <1>5, <1>7, <1>8
<1>10. \A k \in DOMAIN front : front[k].start_offset = front[k].start_line - k
  <2>1. \A k \in 1 .. n - 1 : k \in 1 .. n
    BY <1>3
  <2> QED BY <1>5, <1>8, <2>1
<1> QED BY <1>1, <1>9, <1>10 DEF OffsetCountsLines, front

LEMMA InstructionCounts ==
  ASSUME NEW W, Closed(W), Mnemonic("Org") \notin W, CollectingOK(W), OffsetCountsLines,
         InstructionCounted
  PROVE  OffsetCountsLines'
<1>1. /\ First("Opcode")
      /\ Round(ResolvedHere, lines, i + 1, IF IsOrg(Current) THEN offset ELSE offset + 1)
  BY DEF InstructionCounted
<1>2. Current # << >> /\ Len(Current) >= 1 /\ Current \in Seq(W) /\ Len(Current) \in Nat
  BY <1>1, FirstFacts, CurrentFacts
<1>3. Current[1] \in W
  <2>1. 1 \in 1 .. Len(Current)
    BY <1>2
  <2> QED BY <1>2, <2>1, ElementOfSeq
<1>4. ~ IsOrg(Current)
  BY <1>3 DEF IsOrg
<1>5. Round(ResolvedHere, lines, i + 1, offset + 1)
  BY <1>1, <1>4
<1>6. ResolvedHere.for_stack = collector.for_stack
  BY ResolvedHereType
<1> QED BY <1>5, <1>6, CountedOne

LEMMA LabelCounts ==
  ASSUME NEW W, Closed(W), CollectingOK(W), OffsetCountsLines, LabelStripped
  PROVE  OffsetCountsLines'
<1> DEFINE c  == ResolvePendingLabels(Declared, offset)
           ls == ReplaceAt(lines, i, Tail(Current))
<1>1. LabelLine /\ Round(c, ls, i + 1, offset + 1)
  BY DEF LabelStripped
<1>2. Declared \in CollectorOf(W) /\ Declared.for_stack = collector.for_stack /\ offset \in Int
  BY <1>1, LabelLineFacts, CurrentFacts
<1>3. c.for_stack = collector.for_stack
  BY <1>2, ResolvePendingLabelsType
<1> HIDE DEF c, ls
<1> QED BY <1>1, <1>3, CountedOne

\* The rounds that leave the place of the line and the loops alone.
LEMMA EquCounts ==
  ASSUME NEW W, Closed(W), CollectingOK(W), OffsetCountsLines, EquDefined \/ EquContinues
  PROVE  OffsetCountsLines'
<1>1. collector \in CollectorOf(W)
  BY DEF CollectingOK, ExpansionOK
<1>2. CASE EquDefined
  <2> DEFINE name == Current[1].name
             text == SubSeq(Current, 3, Len(Current))
             c    == ProcessEqu(collector, name, text)
  <2>1. Second("Substitution") /\ Round(c, LineRemoved, i, offset)
    BY <1>2 DEF EquDefined
  <2>2. c.for_stack = ResolvePendingEqu(collector).for_stack
    BY DEF ProcessEqu, ResolvePendingEqu
  <2>3. c.for_stack = collector.for_stack
    BY <1>1, <2>2, ResolvePendingEquType
  <2> HIDE DEF c
  <2> QED BY <2>1, <2>3, CountKept
<1>3. CASE EquContinues
  <2> DEFINE text == Tail(Current)
             c    == ProcessEquContinuation(collector, text)
  <2>1. First("Substitution") /\ Round(c, LineRemoved, i, offset)
    BY <1>3 DEF EquContinues
  <2>2. text \in Seq(W)
    BY <2>1, FirstFacts, CurrentFacts, HeadTailProperties
  <2> HIDE DEF text
  <2>3. c.for_stack = collector.for_stack
    BY <1>1, <2>2, ProcessEquContinuationType
  <2> HIDE DEF c
  <2> QED BY <2>1, <2>3, CountKept
<1> QED BY <1>2, <1>3

LEMMA StepCounts ==
  ASSUME NEW W, Closed(W), Mnemonic("Org") \notin W, CollectingOK(W), OffsetCountsLines,
         offset <= MaxU32, Step
  PROVE  OffsetCountsLines'
<1>1. CASE Spin \/ ForPanics \/ RofPanics \/ Substitute
  <2>1. UNCHANGED <<i, offset, collector>>
    BY <1>1 DEF Spin, vars, ForPanics, RofPanics, Panic, Substitute
  <2> QED BY <2>1 DEF OffsetCountsLines
<1>2. CASE ForExpands
  BY <1>2, ResolvedHereType, CountKept DEF ForExpands
<1>3. CASE ForOpens
  BY <1>3, ForOpensCounts
<1>4. CASE RofRepeats
  BY <1>4, RofRepeatsCounts
<1>5. CASE EquDefined \/ EquContinues
  BY <1>5, EquCounts
<1>6. CASE EquExpands
  BY <1>6, LabelLineFacts, CountKept DEF EquExpands
<1>7. CASE LabelExpands
  BY <1>7, LabelLineFacts, CountKept DEF LabelExpands, LabelHasLabel
<1>8. CASE LabelAlone
  BY <1>8, LabelLineFacts, CountKept DEF LabelAlone
<1>9. CASE LabelStripped
  BY <1>9, LabelCounts
<1>10. CASE InstructionExpands
  BY <1>10, ResolvedHereType, CountKept DEF InstructionExpands
<1>11. CASE InstructionCounted
  BY <1>11, InstructionCounts
<1> QED BY <1>1, <1>2, <1>3, <1>4, <1>5, <1>6, <1>7, <1>8, <1>9, <1>10, <1>11 DEF Step

\* As long as the count of instructions is a u32, and no line of ORG is left, a label gets
\* the number of instructions in front of it, after any number of substitutions,
\* removed lines and unrolled, nested and empty loops (expansion.rs:131, 160).
THEOREM OffsetCountsLinesCorrect ==
  ASSUME OrgTakenOut
  PROVE  Spec /\ [](offset <= MaxU32) => []OffsetCountsLines
<1> DEFINE W == Word \ {Mnemonic("Org")}
           Inv == ExpansionIInv(W) /\ OffsetCountsLines
<1>1. Closed(W) /\ Mnemonic("Org") \notin W
  BY WordsWithoutOrg
<1>2. Init => Inv
  <2> SUFFICES ASSUME Init PROVE Inv
    OBVIOUS
  <2>1. lines \in Texts(W) /\ origin \in Seq(W) /\ phase = "collecting"
    BY DEF Init, OrgTakenOut
  <2> HIDE DEF W
  <2>2. ExpansionIInv(W)
    BY <2>1, BeginsCollecting DEF Init, ExpansionIInv, CollectingOK
  <2>3. collector.for_stack = << >>
    BY NewCollectorType DEF Init
  <2>4. OffsetCountsLines
    <3>1. Len(<< >>) = 0 /\ DOMAIN << >> = {}
      OBVIOUS
    <3>2. i = 1 /\ offset = 0
      BY DEF Init
    <3> DEFINE stack == collector.for_stack
    <3>3. Len(stack) = 0 /\ DOMAIN stack = {}
      BY <2>3, <3>1
    <3> HIDE DEF stack
    <3>4. /\ offset = i - 1 - Len(stack)
          /\ \A k \in DOMAIN stack : stack[k].start_offset = stack[k].start_line - k
      BY <3>2, <3>3
    <3> QED BY <3>4 DEF OffsetCountsLines, stack
  <2> QED BY <2>2, <2>4
<1> HIDE DEF W
<1>3. ASSUME Inv, offset <= MaxU32, [Next]_vars
      PROVE  Inv'
  <2>1. ExpansionIInv(W)'
    BY <1>1, <1>3, ExpansionKeeps
  <2>2. OffsetCountsLines'
    <3>1. CASE Step
      <4>1. CollectingOK(W)
        BY <1>3, <3>1, StepCollects DEF ExpansionIInv, CollectingOK
      <4> QED BY <1>1, <1>3, <3>1, <4>1, StepCounts
    <3>2. CASE UNCHANGED vars
      BY <1>3, <3>2 DEF vars, OffsetCountsLines
    <3> QED BY <1>3, <3>1, <3>2 DEF Next, Done
  <2> QED BY <2>1, <2>2
<1>4. Inv /\ offset <= MaxU32 /\ [Next]_vars => Inv'
  BY <1>3
<1>5. Inv => OffsetCountsLines
  OBVIOUS
<1> HIDE DEF Inv
<1> QED BY <1>2, <1>4, <1>5, PTL DEF Spec

-----------------------------------------------------------------------------
(* The evaluation phase.                                                   *)

ParsedLine ==
  [panics : BOOLEAN, error : {"", "InvalidArguments"}, instruction : InstructionOf(I32)]

LEMMA DefaultsType ==
  /\ DefaultInstruction \in InstructionOf(I32)
  /\ Panics \in ParsedLine /\ Err("InvalidArguments") \in ParsedLine
  /\ \A instruction \in InstructionOf(I32) : Ok(instruction) \in ParsedLine
<1>1. DefaultField \in FieldOf(I32)
  BY OutcomeType DEF DefaultField, FieldOf, AddressMode
<1>2. DefaultInstruction \in InstructionOf(I32)
  BY <1>1 DEF DefaultInstruction, InstructionOf, Opcode, Modifier
<1> QED BY <1>2 DEF Panics, Err, Ok, ParsedLine

LEMMA ModeOfType == \A s \in Modes : ModeOf[s] \in AddressMode
  BY DEF ModeOf, Modes, AddressMode, PreDec, PostInc

LEMMA ParseFieldType ==
  ASSUME NEW words \in Line
  PROVE  ParseField(words).panics \in BOOLEAN /\ ParseField(words).field \in FieldOf(I32)
<1> DEFINE mode == IF HasMode(words) THEN ModeOf[words[1].name] ELSE "Direct"
           rest == IF HasMode(words) THEN Tail(words) ELSE words
           v    == Evaluate(rest)
<1>1. mode \in AddressMode
  BY ModeOfType DEF HasMode, AddressMode
<1>2. rest \in Line
  BY HeadTailProperties DEF HasMode, Begins, Line
<1>3. v \in Outcome
  <2> HIDE DEF rest
  <2> QED BY <1>2, EvaluateCorrect
<1>4. ParseField(words)
        = [panics |-> v.panics, field |-> [address_mode |-> mode, value |-> v.value]]
  BY DEF ParseField
<1> HIDE DEF mode, v
<1>5. v.panics \in BOOLEAN /\ v.value \in I32
  BY <1>3 DEF Outcome, I32
<1> QED BY <1>1, <1>4, <1>5 DEF FieldOf

LEMMA Default88To94Type ==
  ASSUME NEW opcode \in Opcode, NEW a, NEW b
  PROVE  Default88To94(opcode, a, b) \in Modifier \cup {NoModifier}
  BY DEF Default88To94, Opcode, Arithmetic, PSpace, Modifier, NoModifier

LEMMA FullInstructionType ==
  ASSUME NEW opcode \in Opcode, NEW modifier \in Modifier \cup {NoModifier},
         NEW a \in FieldOf(I32), NEW b \in FieldOf(I32)
  PROVE  FullInstruction(opcode, modifier, a, b) \in ParsedLine
<1> DEFINE default == Default88To94(opcode, a.address_mode, b.address_mode)
           chosen  == IF modifier = NoModifier THEN default ELSE modifier
           full    == [opcode |-> opcode, modifier |-> chosen, a_field |-> a, b_field |-> b]
<1>1. chosen \in Modifier \cup {NoModifier}
  BY Default88To94Type
<1>2. FullInstruction(opcode, modifier, a, b) = IF chosen = NoModifier THEN Panics ELSE Ok(full)
  BY DEF FullInstruction
<1> HIDE DEF chosen
<1>3. chosen # NoModifier => full \in InstructionOf(I32)
  BY <1>1 DEF InstructionOf
<1> HIDE DEF full
<1> QED BY <1>2, <1>3, DefaultsType

LEMMA ShortInstructionType ==
  ASSUME NEW opcode \in Opcode, NEW modifier \in Modifier \cup {NoModifier},
         NEW field \in FieldOf(I32)
  PROVE  ShortInstruction(opcode, modifier, field) \in ParsedLine
<1> DEFINE Chosen(default) == IF modifier = NoModifier THEN default ELSE modifier
           zero == [address_mode |-> "Immediate", value |-> 0]
           here == [address_mode |-> "Direct", value |-> 0]
           dat  == [opcode  |-> opcode, modifier |-> Chosen("F"),
                    a_field |-> zero, b_field |-> field]
           jump == [opcode  |-> opcode, modifier |-> Chosen("B"),
                    a_field |-> field, b_field |-> here]
<1>1. Chosen("F") \in Modifier /\ Chosen("B") \in Modifier
  BY DEF Modifier
<1>2. zero \in FieldOf(I32) /\ here \in FieldOf(I32)
  BY OutcomeType DEF FieldOf, AddressMode
<1>3. \/ ShortInstruction(opcode, modifier, field) = Ok(dat)
      \/ ShortInstruction(opcode, modifier, field) = Ok(jump)
      \/ ShortInstruction(opcode, modifier, field) = Err("InvalidArguments")
  <2>1. CASE opcode = "Dat"
    BY <2>1 DEF ShortInstruction
  <2>2. CASE opcode \in {"Jmp", "Spl", "Nop"}
    BY <2>2 DEF ShortInstruction
  <2>3. CASE opcode # "Dat" /\ opcode \notin {"Jmp", "Spl", "Nop"}
    BY <2>3 DEF ShortInstruction
  <2> QED BY <2>1, <2>2, <2>3
<1> HIDE DEF Chosen, zero, here
<1>4. dat \in InstructionOf(I32) /\ jump \in InstructionOf(I32)
  BY <1>1, <1>2 DEF InstructionOf
<1> HIDE DEF dat, jump
<1> QED BY <1>3, <1>4, DefaultsType

\* Whatever the words of an Instruction are, what parse_instruction returns is typed.
LEMMA ParseInstructionType ==
  ASSUME NEW words \in Line, InstructionEnd(words) # 0
  PROVE  ParseInstruction(words) \in ParsedLine
<1> DEFINE opcode    == words[1].name
           operation == OperationEnd(words)
           modifier  == IF operation = 2 THEN words[2].name ELSE NoModifier
           end       == AEnd(words)
           last      == BEnd(words, end)
           a         == ParseField(SubSeq(words, operation + 1, end))
           b         == ParseField(SubSeq(words, end + 2, last))
<1>1. Begins(words, "Opcode")
  BY DEF InstructionEnd
<1>2. /\ operation \in 1 .. 2 /\ operation <= Len(words)
      /\ operation = 2 => words[2].kind = "Modifier"
      /\ end \in operation + 1 .. Len(words)
      /\ last = 0 \/ last \in end + 2 .. Len(words)
  BY <1>1, InstructionEndIn
<1>3. words \in Seq(Word) /\ Len(words) \in Nat
  BY LenProperties DEF Line
<1>4. modifier \in Modifier \cup {NoModifier}
  <2>1. CASE operation = 2
    <3>1. 2 \in 1 .. Len(words)
      BY <1>2, <1>3, <2>1
    <3>2. words[2] \in Word
      BY <1>3, <3>1, ElementOfSeq
    <3>3. words[2].name \in ModifierNames
      BY <1>2, <2>1, <3>2, WordFields
    <3> QED BY <2>1, <3>3 DEF ModifierNames, Modifier
  <2>2. CASE operation # 2
    BY <2>2
  <2> QED BY <2>1, <2>2
<1>5. ParseInstruction(words) =
        IF opcode \notin Opcode \/ a.panics THEN Panics
        ELSE IF last = 0 THEN ShortInstruction(opcode, modifier, a.field)
        ELSE IF b.panics THEN Panics
        ELSE FullInstruction(opcode, modifier, a.field, b.field)
  BY DEF ParseInstruction
<1> HIDE DEF operation, end, last, modifier, opcode
<1>6. a.field \in FieldOf(I32)
  <2> DEFINE from == operation + 1
             part == SubSeq(words, from, end)
  <2>1. from \in Nat /\ end \in Nat /\ 1 <= from /\ end <= Len(words)
    BY <1>2, <1>3
  <2> HIDE DEF from
  <2>2. part \in Line
    BY <1>3, <2>1, PartSeq DEF Line
  <2> HIDE DEF part
  <2>3. ParseField(part).field \in FieldOf(I32)
    BY <2>2, ParseFieldType
  <2> QED BY <2>3 DEF part, from
<1>7. last # 0 => b.field \in FieldOf(I32)
  <2> SUFFICES ASSUME last # 0 PROVE b.field \in FieldOf(I32)
    OBVIOUS
  <2> DEFINE from == end + 2
             part == SubSeq(words, from, last)
  <2>1. from \in Nat /\ last \in Nat /\ 1 <= from /\ last <= Len(words)
    BY <1>2, <1>3
  <2> HIDE DEF from
  <2>2. part \in Line
    BY <1>3, <2>1, PartSeq DEF Line
  <2> HIDE DEF part
  <2>3. ParseField(part).field \in FieldOf(I32)
    BY <2>2, ParseFieldType
  <2> QED BY <2>3 DEF part, from
<1> HIDE DEF a, b
<1>8. Panics \in ParsedLine
  BY DefaultsType
<1>9. CASE opcode \notin Opcode \/ a.panics
  BY <1>5, <1>8, <1>9
<1>10. CASE opcode \in Opcode /\ ~ a.panics /\ last = 0
  BY <1>4, <1>5, <1>6, <1>10, ShortInstructionType
<1>11. CASE opcode \in Opcode /\ ~ a.panics /\ last # 0
  BY <1>4, <1>5, <1>6, <1>7, <1>8, <1>11, FullInstructionType
<1> QED BY <1>9, <1>10, <1>11

-----------------------------------------------------------------------------
(* The comment phase.                                                      *)

\* The kinds of words that have a token and are no modifier.
Visible == Spelt \cup {"Number", "Sign"}

LEMMA VisibleRule == \A word \in Word : word.kind \in Visible => Rule(word) # ""
  BY DEF Visible, Rule, Spelt

\* In an expression, what follows the opening parentheses is visible.
LEMMA ExpressionVisible ==
  ASSUME NEW words \in Line, ExpressionEnd(words) # 0
  PROVE  \E k \in 1 .. ExpressionEnd(words) : words[k].kind \in Visible
<1> DEFINE S == {0} \cup { k \in DOMAIN words :
                     /\ words[k].kind \in Spelt \cup {"Number", "Close"} /\ Depth(words, k) = 0
                     /\ \A j \in 1 .. k : InPlace(words, j) /\ Depth(words, j) >= 0 }
           e == ExpressionEnd(words)
<1>1. Len(words) \in Nat /\ S \in SUBSET (0 .. Len(words)) /\ S # {}
  BY LenProperties DEF Line
<1>2. e = CHOOSE x \in S : \A y \in S : x >= y
  BY DEF ExpressionEnd, Max
<1>3. e \in S
  <2> HIDE DEF S, e
  <2> QED BY <1>1, <1>2, LargestExists
<1>4. /\ e \in 1 .. Len(words) /\ words[e].kind \in Spelt \cup {"Number", "Close"}
      /\ \A j \in 1 .. e : InPlace(words, j)
  BY <1>1, <1>3
<1> HIDE DEF S, e
<1> DEFINE T == { j \in 1 .. e : words[j].kind # "Open" }
<1>5. e \in T
  BY <1>1, <1>4 DEF Spelt
<1>6. PICK j \in T : \A k \in T : j <= k
  <2>1. T \subseteq Nat /\ T # {}
    BY <1>4, <1>5
  <2> HIDE DEF T
  <2> QED BY <2>1, SmallestExists
<1>7. OperandDue(words, j)
  <2>1. CASE j = 1
    BY <2>1 DEF OperandDue
  <2>2. CASE j # 1
    <3>1. j - 1 \in 1 .. e /\ j - 1 \notin T
      BY <1>1, <1>4, <1>6, <2>2
    <3> QED BY <3>1 DEF OperandDue
  <2> QED BY <2>1, <2>2
<1>8. words[j].kind \in Visible
  BY <1>4, <1>6, <1>7 DEF InPlace, Visible
<1> QED BY <1>6, <1>8 DEF e

LEMMA FieldVisible ==
  ASSUME NEW words \in Line, FieldEnd(words) # 0
  PROVE  \E k \in 1 .. FieldEnd(words) : words[k].kind \in Visible
<1> DEFINE m    == ModeEnd(words)
           to   == m + 1
           rest == From(words, to)
           e    == ExpressionEnd(rest)
<1>1. Len(words) \in Nat /\ m \in 0 .. Len(words)
  BY LenProperties, EmptySeq DEF ModeEnd, HasMode, Begins, Line
<1>2. FieldEnd(words) = EndBehind(m, e)
  BY DEF FieldEnd
<1> HIDE DEF m
<1>3. to \in 1 .. Len(words) + 1 /\ to = m + 1
  BY <1>1
<1> HIDE DEF to
<1>4. rest \in Line /\ \A j \in 1 .. Len(rest) : rest[j] = words[to + j - 1]
  BY <1>3, FromType
<1> HIDE DEF rest
<1>5. e \in 0 .. Len(rest) /\ Len(rest) \in Nat
  BY <1>4, ExpressionEndIn, LenProperties DEF Line
<1>6. e # 0 /\ FieldEnd(words) = m + e
  BY <1>2 DEF EndBehind
<1>7. PICK k \in 1 .. e : rest[k].kind \in Visible
  BY <1>4, <1>6, ExpressionVisible
<1> HIDE DEF e
<1>8. k \in 1 .. Len(rest) /\ to + k - 1 = m + k /\ m + k \in 1 .. FieldEnd(words)
  BY <1>1, <1>3, <1>5, <1>6
<1>9. rest[k] = words[m + k]
  <2>1. rest[k] = words[to + k - 1]
    BY <1>4, <1>8
  <2> QED BY <1>8, <2>1
<1> QED BY <1>7, <1>8, <1>9

\* An Instruction has a word after its mnemonic that has a token.
LEMMA InstructionVisible ==
  ASSUME NEW words \in Line, InstructionEnd(words) # 0
  PROVE  \E k \in 2 .. InstructionEnd(words) : words[k].kind \in Visible
<1> DEFINE o    == OperationEnd(words)
           to   == o + 1
           a    == AEnd(words)
           b    == BEnd(words, a)
           rest == From(words, to)
           f    == FieldEnd(rest)
<1>1. Begins(words, "Opcode") /\ InstructionEnd(words) = FieldsEnd(words, a)
  BY DEF InstructionEnd
<1>2. /\ o \in 1 .. 2 /\ o <= Len(words) /\ a \in o + 1 .. Len(words)
      /\ b = 0 \/ b \in a + 2 .. Len(words)
      /\ Len(words) \in Nat
  BY <1>1, InstructionEndIn, LenProperties DEF Line
<1>3. a = EndBehind(o, f)
  BY DEF AEnd
<1> HIDE DEF a, b, o
<1>4. InstructionEnd(words) \in Nat /\ InstructionEnd(words) >= a
  <2>1. {a, b} \in SUBSET (0 .. Len(words)) /\ {a, b} # {} /\ a # 0
    BY <1>2
  <2>2. FieldsEnd(words, a) = CHOOSE x \in {a, b} : \A y \in {a, b} : x >= y
    BY <2>1 DEF FieldsEnd, Max, b
  <2>3. FieldsEnd(words, a) \in {a, b} /\ FieldsEnd(words, a) >= a
    BY <1>2, <2>1, <2>2, LargestExists
  <2> QED BY <1>1, <1>2, <2>1, <2>3
<1>5. to \in 1 .. Len(words) + 1 /\ to = o + 1
  BY <1>2
<1> HIDE DEF to
<1>6. rest \in Line /\ \A j \in 1 .. Len(rest) : rest[j] = words[to + j - 1]
  BY <1>5, FromType
<1> HIDE DEF rest
<1>7. f \in 0 .. Len(rest) /\ Len(rest) \in Nat
  BY <1>6, FieldEndIn, LenProperties DEF Line
<1>8. f # 0 /\ a = o + f
  BY <1>2, <1>3 DEF EndBehind
<1>9. PICK k \in 1 .. f : rest[k].kind \in Visible
  BY <1>6, <1>8, FieldVisible
<1> HIDE DEF f
<1>10. k \in 1 .. Len(rest) /\ to + k - 1 = o + k /\ o + k \in 2 .. InstructionEnd(words)
  BY <1>2, <1>4, <1>5, <1>7, <1>8
<1>11. rest[k] = words[o + k]
  <2>1. rest[k] = words[to + k - 1]
    BY <1>6, <1>10
  <2> QED BY <1>10, <2>1
<1> QED BY <1>9, <1>10, <1>11

\* What is cut out of an ORG line is words of it.
LEMMA RemainderType ==
  ASSUME NEW words \in Line, InstructionEnd(words) # 0
  PROVE  Remainder(words) \in Line
<1> DEFINE S == { k \in 2 .. InstructionEnd(words) : Rule(words[k]) # "" }
<1>1. InstructionEnd(words) \in 0 .. Len(words) /\ Len(words) \in Nat
  BY InstructionEndType, LenProperties DEF Line
<1>2. PICK k \in 2 .. InstructionEnd(words) : words[k].kind \in Visible
  BY InstructionVisible
<1>3. k \in 1 .. Len(words)
  BY <1>1
<1>4. words[k] \in Word
  BY <1>3, ElementOfSeq DEF Line
<1>5. k \in S
  BY <1>2, <1>4, VisibleRule
<1>6. Remainder(words) = From(words, FirstOf(S))
  BY DEF Remainder
<1>7. PICK e \in Nat : e = InstructionEnd(words) /\ e <= Len(words)
  BY <1>1
<1>8. S \subseteq 2 .. e
  BY <1>7
<1> HIDE DEF S
<1>9. S \subseteq Nat /\ S # {} /\ \A j \in S : j \in 1 .. Len(words) + 1
  BY <1>1, <1>5, <1>7, <1>8
<1>10. FirstOf(S) \in S
  BY <1>9, FirstOfIn
<1> QED BY <1>6, <1>9, <1>10, FromType

-----------------------------------------------------------------------------
(* The way back.                                                           *)

MetadataType == [Directives -> Remarks \cup {NoValue}]

ResultType ==
  [metadata : MetadataType, instructions : Seq(InstructionOf(I32)),
   origin : {NoOrigin} \cup 0 .. MaxInt]

LEMMA SetToSeqType ==
  ASSUME NEW S, IsFiniteSet(S)
  PROVE  SetToSeq(S) \in Seq(S)
<1> DEFINE n == Cardinality(S)
<1>1. n \in Nat /\ ExistsBijection(1 .. n, S)
  BY FS_CardinalityType
<1>2. \E f \in [1 .. n -> S] : IsInjective(f)
  BY <1>1 DEF ExistsBijection, Bijection, Injection
<1>3. SetToSeq(S) = CHOOSE f \in [1 .. n -> S] : IsInjective(f)
  BY DEF SetToSeq
<1>4. SetToSeq(S) \in [1 .. n -> S]
  BY <1>2, <1>3
<1> HIDE DEF n
<1> QED BY <1>1, <1>4, TableSeq

LEMMA FieldTextType ==
  ASSUME NEW field \in FieldOf(I32)
  PROVE  FieldText(field) \in Line
<1>1. field.address_mode \in AddressMode /\ field.value \in Int
  BY MaxIntAssumption DEF FieldOf, I32, MinInt
<1>2. SignOf[field.address_mode] \in Modes
  <2> DEFINE t == field.address_mode
             R == Range(ModeOf)
  <2>1. SignOf[t] = CHOOSE s \in Modes : t \in R => ModeOf[s] = t
    BY <1>1 DEF SignOf, Inverse
  <2>2. \E s \in Modes : t \in R => ModeOf[s] = t
    <3>1. DOMAIN ModeOf = Modes /\ "#" \in Modes
      BY DEF ModeOf, Modes
    <3> QED BY <3>1 DEF Range
  <2> HIDE DEF t, R
  <2> QED BY <2>1, <2>2 DEF t
<1>3. Sign(SignOf[field.address_mode]) \in Word
  BY <1>2 DEF Sign, Word
<1>4. Digits(field.value) \in Seq(Word)
  BY <1>1, AllWords, DigitsType
<1> DEFINE s == << Sign(SignOf[field.address_mode]) >>
           d == Digits(field.value)
<1>5. s \in Seq(Word)
  BY <1>3, OneSeq
<1>6. FieldText(field) = s \o d
  BY DEF FieldText
<1> HIDE DEF s, d
<1> QED BY <1>4, <1>5, <1>6, ConcatKeeps DEF d, Line

LEMMA InstructionTextType ==
  ASSUME NEW instruction \in InstructionOf(I32)
  PROVE  InstructionText(instruction) \in Line
<1> DEFINE a == FieldText(instruction.a_field)
           b == FieldText(instruction.b_field)
           front == << Mnemonic(instruction.opcode), Suffix(instruction.modifier) >>
           comma == << Punctuation("Comma") >>
<1>1. /\ instruction.opcode \in Opcode /\ instruction.modifier \in Modifier
      /\ instruction.a_field \in FieldOf(I32) /\ instruction.b_field \in FieldOf(I32)
  BY DEF InstructionOf
<1>2. a \in Seq(Word) /\ b \in Seq(Word)
  BY <1>1, FieldTextType DEF Line
<1>3. Mnemonic(instruction.opcode) \in Word
  BY <1>1, MnemonicsAssumption DEF Mnemonic, Word, Spelt
<1>4. Suffix(instruction.modifier) \in Word
  BY <1>1 DEF Suffix, Word, Modifier, ModifierNames
<1>5. Punctuation("Comma") \in Word
  BY DEF Punctuation, Word
<1>6. front \in Seq(Word) /\ comma \in Seq(Word)
  <2> DEFINE x == Mnemonic(instruction.opcode)
             y == Suffix(instruction.modifier)
             z == Punctuation("Comma")
  <2> HIDE DEF x, y, z
  <2>1. << x, y >> \in Seq(Word) /\ << z >> \in Seq(Word)
    BY <1>3, <1>4, <1>5 DEF x, y, z
  <2> QED BY <2>1 DEF x, y, z
<1>7. InstructionText(instruction) = ((front \o a) \o comma) \o b
  BY DEF InstructionText
<1> HIDE DEF a, b, front, comma
<1>8. front \o a \in Seq(Word)
  BY <1>2, <1>6, ConcatKeeps
<1>9. (front \o a) \o comma \in Seq(Word)
  <2> DEFINE s == front \o a
  <2> HIDE DEF s
  <2>1. s \o comma \in Seq(Word)
    BY <1>6, <1>8, ConcatKeeps DEF s
  <2> QED BY <2>1 DEF s
<1>10. ((front \o a) \o comma) \o b \in Seq(Word)
  <2> DEFINE s == (front \o a) \o comma
  <2> HIDE DEF s
  <2>1. s \o b \in Seq(Word)
    BY <1>2, <1>9, ConcatKeeps DEF s
  <2> QED BY <2>1 DEF s
<1> QED BY <1>7, <1>10 DEF Line

LEMMA MetadataTextType ==
  ASSUME NEW m \in MetadataType
  PROVE  MetadataText(m) \in Seq(Raw)
<1> DEFINE R == { d \in Directives : m[d] # NoValue }
           Note(d) == [words |-> << >>, comment |-> << d, m[d] >>]
           T == { Note(d) : d \in R }
<1>1. IsFiniteSet(R)
  BY DirectivesAssumption, FS_Subset
<1>2. IsFiniteSet(T)
  <2> DEFINE f == [d \in R |-> Note(d)]
  <2> HIDE DEF R, Note
  <2>1. f \in [R -> T] /\ \A t \in T : \E d \in R : f[d] = t
    OBVIOUS
  <2> HIDE DEF f, T
  <2>2. f \in Surjection(R, T)
    BY <2>1 DEF Surjection
  <2> QED BY <1>1, <2>2, FS_Surjection
<1>3. \A d \in R : Note(d) \in Raw
  <2> SUFFICES ASSUME NEW d \in R PROVE Note(d) \in Raw
    OBVIOUS
  <2>1. d \in Directives /\ m[d] \in Remarks
    BY DEF MetadataType
  <2>2. << >> \in Line
    BY EmptyText DEF Line
  <2> QED BY <2>1, <2>2 DEF Raw
<1>4. T \subseteq Raw
  <2> HIDE DEF R, Note
  <2> QED BY <1>3
<1>5. MetadataText(m) = SetToSeq(T)
  BY DEF MetadataText
<1> HIDE DEF T
<1>6. SetToSeq(T) \in Seq(T)
  BY <1>2, SetToSeqType
<1>7. Seq(T) \subseteq Seq(Raw)
  BY <1>4
<1> QED BY <1>5, <1>6, <1>7

\* What is displayed can be read: it is lines of words and comments.
LEMMA DisplayType ==
  ASSUME NEW warrior \in ResultType
  PROVE  Display(warrior) \in Seq(Raw)
<1> DEFINE n     == OriginOrDefault(warrior.origin)
           org   == [words |-> << Mnemonic("Org"), Number(n) >>, comment |-> << >>]
           Code(k) == [words |-> InstructionText(warrior.instructions[k]), comment |-> << >>]
           code  == [k \in DOMAIN warrior.instructions |-> Code(k)]
           notes == MetadataText(warrior.metadata)
<1>1. /\ warrior.metadata \in MetadataType
      /\ warrior.instructions \in Seq(InstructionOf(I32))
      /\ warrior.origin \in {NoOrigin} \cup 0 .. MaxInt
  BY DEF ResultType
<1>2. notes \in Seq(Raw)
  BY <1>1, MetadataTextType
<1>3. org \in Raw
  <2>1. n \in Nat
    BY <1>1, MaxIntAssumption DEF OriginOrDefault, NoOrigin
  <2> HIDE DEF n
  <2>2. Mnemonic("Org") \in Word /\ Number(n) \in Word
    BY <2>1, AllWords, MnemonicsAssumption DEF Closed, Mnemonic, Word, Spelt
  <2> DEFINE x == Mnemonic("Org")
             y == Number(n)
  <2>3. << x, y >> \in Line
    <3> HIDE DEF x, y
    <3> QED BY <2>2 DEF Line, x, y
  <2> QED BY <2>3 DEF Raw
<1>4. code \in Seq(Raw)
  <2> DEFINE s == warrior.instructions
  <2>1. /\ Len(s) \in Nat /\ DOMAIN s = 1 .. Len(s)
        /\ \A k \in 1 .. Len(s) : s[k] \in InstructionOf(I32)
    BY <1>1, LenProperties, ElementOfSeq
  <2>2. \A k \in 1 .. Len(s) : Code(k) \in Raw
    BY <2>1, InstructionTextType DEF Raw
  <2> HIDE DEF Code
  <2>3. code \in [1 .. Len(s) -> Raw]
    BY <2>1, <2>2
  <2> HIDE DEF code
  <2> QED BY <2>1, <2>3, TableSeq
<1>5. Display(warrior) = (notes \o << org >>) \o code
  BY DEF Display
<1> HIDE DEF notes, org, code
<1>6. << org >> \in Seq(Raw)
  BY <1>3, OneSeq
<1> DEFINE s == notes \o << org >>
<1>7. s \in Seq(Raw)
  BY <1>2, <1>6, ConcatKeeps
<1> HIDE DEF s
<1>8. s \o code \in Seq(Raw)
  BY <1>4, <1>7, ConcatKeeps
<1> QED BY <1>5, <1>8 DEF s

-----------------------------------------------------------------------------
(* The chain of the phases.                                                *)

\* The expansion begins where the comment phase has left the lines, and hands on lines.
ParserIInv ==
  /\ phase \in Phases
  /\ source.text \in Seq(Raw) /\ next \in Nat \ {0}
  /\ metadata \in MetadataType
  /\ lines \in Seq(Line) /\ origin \in Line
  /\ phase = "reading" => i = 1 /\ offset = 0 /\ collector = NewCollector
  /\ phase = "collecting" => CollectingOK(Word)
  /\ instructions \in Seq(InstructionOf(I32))
  /\ error \in {"", "InvalidArguments", "InvalidOrigin", "InvalidSyntax"}
  /\ parsed \in Seq(ResultType)

LEMMA EmptyTexts ==
  /\ << >> \in Line /\ << >> \in Seq(Line) /\ << >> \in Seq(InstructionOf(I32))
  /\ << >> \in Seq(ResultType) /\ NoMetadata \in MetadataType
  BY EmptyText DEF Line, NoMetadata, MetadataType

\* Where the file is read.
LEMMA ReadingFacts ==
  ASSUME ParserIInv, Reading
  PROVE  /\ source.text \in Seq(Raw) /\ Len(source.text) \in Nat
         /\ next \in Nat /\ next \in 1 .. Len(source.text)
<1>1. source.text \in Seq(Raw) /\ next \in Nat \ {0}
  BY DEF ParserIInv
<1>2. Len(source.text) \in Nat
  BY <1>1, LenProperties
<1>3. next <= Len(source.text)
  BY DEF Reading
<1> DEFINE n == Len(source.text)
<1> HIDE DEF n
<1>4. next \in 1 .. n
  BY <1>1, <1>2, <1>3 DEF n
<1> QED BY <1>1, <1>2, <1>4 DEF n

\* A line of the file, with its comment.
LEMMA ReadLineKeeps ==
  ASSUME ParserIInv, Reading, NEW kept \in Seq(Line), NEW org \in Line,
         NEW continue \in Nat \ {0}, ReadLine(kept, org, continue)
  PROVE  ParserIInv'
<1>1. /\ lines' = lines \o kept /\ origin' = org /\ next' = continue
      /\ metadata' = Noted(metadata, source.text[next].comment)
      /\ UNCHANGED <<source, phase, i, offset, collector, instructions, error, parsed>>
  BY DEF ReadLine
<1>2. lines \o kept \in Seq(Line)
  <2> DEFINE L == Line
  <2>1. lines \in Seq(L) /\ kept \in Seq(L)
    BY DEF ParserIInv
  <2> HIDE DEF L
  <2>2. lines \o kept \in Seq(L)
    BY <2>1, ConcatKeeps
  <2> QED BY <2>2 DEF L
<1>3. metadata' \in MetadataType
  <2>1. source.text[next] \in Raw
    <3>1. next \in 1 .. Len(source.text) /\ source.text \in Seq(Raw)
      BY ReadingFacts
    <3> QED BY <3>1, ElementOfSeq
  <2>2. PICK comment \in {<< >>} \cup ((Directives \cup Remarks) \X Remarks) :
           source.text[next].comment = comment
    BY <2>1 DEF Raw
  <2>3. metadata \in MetadataType
    BY DEF ParserIInv
  <2>4. Noted(metadata, comment) \in MetadataType
    <3>1. CASE comment # << >> /\ comment[1] \in Directives
      <4>1. comment[2] \in Remarks
        BY <2>2, <3>1
      <4> QED BY <2>3, <3>1, <4>1 DEF Noted, MetadataType
    <3>2. CASE ~ (comment # << >> /\ comment[1] \in Directives)
      BY <2>3, <3>2 DEF Noted
    <3> QED BY <3>1, <3>2
  <2> QED BY <1>1, <2>2, <2>4
<1>4. phase = "reading"
  BY DEF Reading
<1> QED BY <1>1, <1>2, <1>3, <1>4 DEF ParserIInv, Phases

LEMMA CommentKeeps ==
  ASSUME ParserIInv, SkipsBlank \/ TakesOrg \/ TakesEnd \/ KeepsLine
  PROVE  ParserIInv'
<1>1. Reading
  BY DEF SkipsBlank, TakesOrg, TakesEnd, KeepsLine
<1>2. /\ next \in 1 .. Len(source.text) /\ Len(source.text) \in Nat
      /\ next + 1 \in Nat \ {0} /\ Len(source.text) + 1 \in Nat \ {0}
      /\ source.text \in Seq(Raw) /\ origin \in Line
  <2>1. origin \in Line
    BY DEF ParserIInv
  <2>2. /\ source.text \in Seq(Raw) /\ Len(source.text) \in Nat
        /\ next \in Nat /\ next \in 1 .. Len(source.text)
    BY <1>1, ReadingFacts
  <2> QED BY <2>1, <2>2
<1>3. Words \in Line
  <2>1. source.text[next] \in Raw
    BY <1>2, ElementOfSeq
  <2> QED BY <2>1 DEF Words, Raw
<1>4. << >> \in Seq(Line) /\ << Words >> \in Seq(Line)
  BY <1>3, EmptyTexts, OneSeq
<1>5. InstructionEnd(Words) # 0 => NewOrigin(Words) \in Line
  BY <1>2, <1>3, RemainderType DEF NewOrigin
<1> DEFINE after == next + 1
           end   == Len(source.text) + 1
           one   == << Words >>
           none  == << >>
<1>6. after \in Nat \ {0} /\ end \in Nat \ {0} /\ one \in Seq(Line) /\ none \in Seq(Line)
  BY <1>2, <1>4
<1>7. \/ ReadLine(none, origin, after) \/ ReadLine(one, origin, after)
      \/ InstructionEnd(Words) # 0 /\ ReadLine(none, NewOrigin(Words), after)
      \/ InstructionEnd(Words) # 0 /\ ReadLine(none, NewOrigin(Words), end)
  BY DEF SkipsBlank, TakesOrg, TakesEnd, KeepsLine, IsPseudo
<1> HIDE DEF after, end, one, none
<1> QED BY <1>1, <1>2, <1>5, <1>6, <1>7, ReadLineKeeps

LEMMA CommentsRemovedKeeps ==
  ASSUME ParserIInv, CommentsRemoved
  PROVE  ParserIInv'
<1>1. /\ phase = "reading" /\ phase' = "collecting"
      /\ UNCHANGED <<source, lines, origin, i, offset, collector, own>>
  BY DEF CommentsRemoved
<1>2. CollectingOK(Word)
  BY <1>1, BeginsCollecting DEF ParserIInv, Texts, Line
<1>3. CollectingOK(Word)'
  BY <1>1, <1>2 DEF CollectingOK, ExpansionOK
<1> QED BY <1>1, <1>3 DEF ParserIInv, Phases, own

LEMMA ExpandsKeeps ==
  ASSUME ParserIInv, Expands
  PROVE  ParserIInv'
<1>1. phase = "collecting" /\ Step /\ UNCHANGED own
  BY DEF Expands
<1>2. /\ phase' \in {"collecting", "expanded", "panicked"} /\ ExpansionOK(Word)'
      /\ phase' = "collecting" => CollectingOK(Word)'
  BY <1>1, AllWords, StepKeeps DEF ParserIInv
<1>3. lines' \in Seq(Line) /\ origin' \in Line
  BY <1>2 DEF ExpansionOK, Texts, Line
<1>4. source' = source
  BY <1>1 DEF Step, Spin, vars, ForExpands, ForPanics, ForOpens, RofPanics, RofRepeats,
         EquDefined, EquContinues, EquExpands, LabelExpands, LabelStripped, LabelAlone,
         InstructionExpands, InstructionCounted, Substitute, Round, Panic
<1> QED BY <1>1, <1>2, <1>3, <1>4 DEF ParserIInv, Phases, own

LEMMA LineDoneKeeps ==
  ASSUME ParserIInv, Evaluating, NEW p \in {"expanded", "refused", "panicked"},
         NEW result \in Seq(InstructionOf(I32)),
         NEW e \in {"", "InvalidArguments", "InvalidOrigin", "InvalidSyntax"},
         LineDone(p, result, e)
  PROVE  ParserIInv'
<1>1. lines \in Seq(Line) /\ lines # << >>
  BY DEF ParserIInv, Evaluating
<1>2. Tail(lines) \in Seq(Line)
  BY <1>1, HeadTailProperties
<1> QED BY <1>2 DEF LineDone, ParserIInv, Phases

LEMMA EvaluationKeeps ==
  ASSUME ParserIInv, DropsLine \/ ParsesLine \/ RefusesLine \/ LinePanics
  PROVE  ParserIInv'
<1>1. Evaluating
  BY DEF DropsLine, ParsesLine, RefusesLine, LinePanics
<1>2. /\ instructions \in Seq(InstructionOf(I32)) /\ phase = "expanded"
      /\ error \in {"", "InvalidArguments", "InvalidOrigin", "InvalidSyntax"}
  BY <1>1 DEF ParserIInv, Evaluating
<1>3. Head(lines) \in Line
  BY <1>1, HeadTailProperties DEF ParserIInv, Evaluating
<1>4. IsInstruction => Instructed \in ParsedLine
  BY <1>3, ParseInstructionType DEF IsInstruction, Instructed
<1>5. CASE DropsLine
  BY <1>1, <1>2, <1>5, LineDoneKeeps DEF DropsLine
<1>6. CASE ParsesLine
  <2> DEFINE one    == Instructed.instruction
             result == Append(instructions, one)
  <2>1. one \in InstructionOf(I32)
    BY <1>4, <1>6 DEF ParsesLine, ParsedLine
  <2>2. LineDone(phase, result, error)
    BY <1>6 DEF ParsesLine
  <2> HIDE DEF one
  <2>3. result \in Seq(InstructionOf(I32))
    BY <1>2, <2>1, AppendProperties
  <2> HIDE DEF result
  <2> QED BY <1>1, <1>2, <2>2, <2>3, LineDoneKeeps
<1>7. CASE RefusesLine
  <2>1. Instructed.error \in {"", "InvalidArguments"}
    BY <1>4, <1>7 DEF RefusesLine, ParsedLine
  <2> QED BY <1>1, <1>2, <1>7, <2>1, LineDoneKeeps DEF RefusesLine
<1>8. CASE LinePanics
  BY <1>1, <1>2, <1>8, LineDoneKeeps DEF LinePanics
<1> QED BY <1>5, <1>6, <1>7, <1>8

LEMMA OriginDoneKeeps ==
  ASSUME ParserIInv, NEW p \in {"parsed", "refused", "panicked"},
         NEW results \in Seq(ResultType),
         NEW e \in {"", "InvalidArguments", "InvalidOrigin", "InvalidSyntax"},
         OriginDone(p, results, e)
  PROVE  ParserIInv'
  BY DEF OriginDone, ParserIInv, Phases

LEMMA OriginKeeps ==
  ASSUME ParserIInv, ParsesOrigin \/ RefusesOrigin \/ OriginPanics
  PROVE  ParserIInv'
<1>1. /\ parsed \in Seq(ResultType) /\ origin \in Line
      /\ metadata \in MetadataType /\ instructions \in Seq(InstructionOf(I32))
      /\ error \in {"", "InvalidArguments", "InvalidOrigin", "InvalidSyntax"}
  BY DEF ParserIInv
<1>2. /\ OriginValue.error \in {"", "InvalidOrigin", "InvalidSyntax"}
      /\ OriginValue.error = "" => OriginValue.value \in 0 .. MaxInt
  BY <1>1, EvaluateExpressionType DEF OriginValue
<1>3. ASSUME NEW n \in {NoOrigin} \cup 0 .. MaxInt,
             OriginDone("parsed", Append(parsed, Result(n)), error)
      PROVE  ParserIInv'
  <2> DEFINE one     == Result(n)
             results == Append(parsed, one)
  <2>1. one \in ResultType
    BY <1>1, <1>3 DEF Result, ResultType
  <2>2. OriginDone("parsed", results, error)
    BY <1>3
  <2> HIDE DEF one
  <2>3. results \in Seq(ResultType)
    BY <1>1, <2>1, AppendProperties
  <2> HIDE DEF results
  <2> QED BY <1>1, <2>2, <2>3, OriginDoneKeeps
<1>4. CASE ParsesOrigin
  <2>1. \/ OriginDone("parsed", Append(parsed, Result(NoOrigin)), error)
        \/ /\ OriginValue.error = ""
           /\ OriginDone("parsed", Append(parsed, Result(OriginValue.value)), error)
    BY <1>4 DEF ParsesOrigin
  <2> DEFINE n == OriginValue.value
  <2>2. OriginValue.error = "" => n \in {NoOrigin} \cup 0 .. MaxInt
    BY <1>2
  <2> HIDE DEF n
  <2> QED BY <1>3, <2>1, <2>2 DEF n
<1>5. CASE RefusesOrigin
  BY <1>1, <1>2, <1>5, OriginDoneKeeps DEF RefusesOrigin
<1>6. CASE OriginPanics
  BY <1>1, <1>6, OriginDoneKeeps DEF OriginPanics
<1> QED BY <1>4, <1>5, <1>6

LEMMA RereadsKeeps ==
  ASSUME ParserIInv, Rereads
  PROVE  ParserIInv'
<1>1. /\ Len(parsed) = 1 /\ source' = [text |-> Display(parsed[1]), meaning |-> {}]
      /\ phase' = "reading" /\ next' = 1 /\ metadata' = NoMetadata
      /\ lines' = << >> /\ origin' = << >>
      /\ i' = 1 /\ offset' = 0 /\ collector' = NewCollector /\ instructions' = << >>
      /\ UNCHANGED <<error, parsed>>
  BY DEF Rereads
<1>2. parsed[1] \in ResultType
  <2>1. parsed \in Seq(ResultType)
    BY DEF ParserIInv
  <2>2. 1 \in 1 .. Len(parsed)
    BY <1>1
  <2> QED BY <2>1, <2>2, ElementOfSeq
<1>3. source'.text \in Seq(Raw)
  BY <1>1, <1>2, DisplayType
<1>4. /\ parsed \in Seq(ResultType)
      /\ error \in {"", "InvalidArguments", "InvalidOrigin", "InvalidSyntax"}
  BY DEF ParserIInv
<1>5. /\ lines' \in Seq(Line) /\ origin' \in Line /\ metadata' \in MetadataType
      /\ instructions' \in Seq(InstructionOf(I32))
  BY <1>1, EmptyTexts
<1>6. phase' = "reading" /\ phase' \in Phases /\ phase' # "collecting" /\ next' \in Nat \ {0}
  BY <1>1 DEF Phases
<1> QED BY <1>1, <1>3, <1>4, <1>5, <1>6 DEF ParserIInv

LEMMA ParserInvariance == ParserSpec => []ParserIInv
<1>1. ParserInit => ParserIInv
  <2> SUFFICES ASSUME ParserInit PROVE ParserIInv
    OBVIOUS
  <2>1. source.text \in Seq(Raw)
    BY FilesAssumption DEF ParserInit
  <2>2. /\ lines \in Seq(Line) /\ origin \in Line /\ metadata \in MetadataType
        /\ instructions \in Seq(InstructionOf(I32)) /\ parsed \in Seq(ResultType)
    BY EmptyTexts DEF ParserInit
  <2>3. phase = "reading" /\ next = 1 /\ error = ""
    BY DEF ParserInit
  <2>4. phase \in Phases /\ phase # "collecting" /\ next \in Nat \ {0}
    <3>1. "reading" \in Phases /\ "reading" # "collecting"
      BY DEF Phases
    <3>2. 1 \in Nat \ {0}
      OBVIOUS
    <3>3. phase \in Phases /\ phase # "collecting"
      BY <2>3, <3>1
    <3> QED BY <2>3, <3>2, <3>3
  <2>5. i = 1 /\ offset = 0 /\ collector = NewCollector
    BY DEF ParserInit
  <2> QED BY <2>1, <2>2, <2>3, <2>4, <2>5 DEF ParserIInv
<1>2. ASSUME ParserIInv, [ParserNext]_parserVars
      PROVE  ParserIInv'
  <2>1. CASE ParserStep
    BY <1>2, <2>1, CommentKeeps, CommentsRemovedKeeps, ExpandsKeeps, EvaluationKeeps,
       OriginKeeps, RereadsKeeps DEF ParserStep
  <2>2. CASE UNCHANGED parserVars
    BY <1>2, <2>2 DEF parserVars, vars, own, ParserIInv, CollectingOK, ExpansionOK
  <2> QED BY <1>2, <2>1, <2>2 DEF ParserNext
<1>3. ParserIInv /\ [ParserNext]_parserVars => ParserIInv'
  BY <1>2
<1> QED BY <1>1, <1>3, PTL DEF ParserSpec

\* Whatever the files and the names are, parse returns warriors that a core can load:
\* every label has become a number, every mnemonic an opcode, no field is left out and the
\* origin is natural (parser/mod.rs:30); and its display is read again (program.rs:22).
THEOREM ParserTypes == ParserSpec => []ParserTypeOK
<1>1. ASSUME ParserIInv
      PROVE  ParserTypeOK
  <2>1. ASSUME NEW k \in DOMAIN parsed
        PROVE  [instructions |-> parsed[k].instructions,
                origin       |-> OriginOrDefault(parsed[k].origin)] \in Warrior
    <3>1. parsed[k] \in ResultType
      BY <1>1, LenProperties, ElementOfSeq DEF ParserIInv
    <3>2. /\ parsed[k].instructions \in Seq(InstructionOf(I32))
          /\ parsed[k].origin \in {NoOrigin} \cup 0 .. MaxInt
      BY <3>1 DEF ResultType
    <3>3. OriginOrDefault(parsed[k].origin) \in 0 .. MaxInt
      BY <3>2, MaxIntAssumption DEF OriginOrDefault
    <3>4. Seq(InstructionOf(I32)) \subseteq Seq(InstructionOf(Int))
      <4>1. I32 \subseteq Int
        BY MaxIntAssumption DEF I32, MinInt
      <4>2. FieldOf(I32) \subseteq FieldOf(Int)
        BY <4>1 DEF FieldOf
      <4>3. InstructionOf(I32) \subseteq InstructionOf(Int)
        <5> DEFINE F == FieldOf(I32)
                   G == FieldOf(Int)
        <5> HIDE DEF F, G
        <5> QED BY <4>2 DEF InstructionOf, F, G
      <4> DEFINE S == InstructionOf(I32)
                 T == InstructionOf(Int)
      <4> HIDE DEF S, T
      <4> QED BY <4>3 DEF S, T
    <3> QED BY <3>2, <3>3, <3>4 DEF Warrior
  <2> QED BY <1>1, <2>1 DEF ParserIInv, ParserTypeOK, MetadataType
<1>2. ParserIInv => ParserTypeOK
  BY <1>1
<1> QED BY <1>2, ParserInvariance, PTL

\* In the chain of the phases, too, the second pass of the expansion meets lines with
\* tokens only, also when it expands what was displayed.
THEOREM LinesHaveTokens == ParserSpec => []PassedLinesHaveTokens
<1>1. ParserIInv => PassedLinesHaveTokens
  BY DEF ParserIInv, CollectingOK, TokensBefore, PassedLinesHaveTokens
<1> QED BY <1>1, ParserInvariance, PTL
=============================================================================
