------------------------- MODULE RoundTripTheorems --------------------------
(***************************************************************************)
(* The way back: whatever warrior a file gives, parsing what is displayed  *)
(* of it gives that warrior again.                                         *)
(***************************************************************************)
EXTENDS ParserTheorems

-----------------------------------------------------------------------------
(* Numbers, and what an expression of one is.                              *)

\* No sign is applied, or one.
LEMMA AppliedNone == \A n \in I32 : Applied(<< >>, n) = n
<1> SUFFICES ASSUME NEW n \in I32 PROVE Applied(<< >>, n) = n
  OBVIOUS
<1> DEFINE none == << >>
<1>1. none \in Line /\ DOMAIN none = {}
  BY EmptyTexts
<1> HIDE DEF none
<1>2. PICK f : Signings(f, n, none) /\ Applied(none, n) = f[DOMAIN none]
  BY <1>1, AppliedSigns
<1>3. f[{}] = n
  BY <1>1, <1>2 DEF Signings
<1> QED BY <1>1, <1>2, <1>3 DEF none

LEMMA AppliedOne ==
  ASSUME NEW n \in I32, NEW sign \in Word
  PROVE  Applied(<< sign >>, n) = Signed(sign.name, n)
<1> DEFINE one == << sign >>
<1>1. one \in Line /\ DOMAIN one = {1} /\ one[1] = sign
  BY OneSeq DEF Line
<1> HIDE DEF one
<1>2. PICK f : Signings(f, n, one) /\ Applied(one, n) = f[DOMAIN one]
  BY <1>1, AppliedSigns
<1>3. f[{}] = n
  BY <1>1, <1>2 DEF Signings
<1>4. Max({1}) = 1 /\ {1} \ {1} = {}
  BY DEF Max
<1>5. f[{1}] = Signed(one[1].name, f[{}])
  BY <1>1, <1>2, <1>4 DEF Signings
<1> QED BY <1>1, <1>2, <1>3, <1>5 DEF one

\* Where an operand is due at every word, no operator splits them: their value is that
\* of an operand behind its signs.
LEMMA OperandOnly ==
  ASSUME NEW words \in Line, \A k \in 1 .. Len(words) : OperandDue(words, k)
  PROVE  \E value : Evaluate(words) = SpanValue(words, value, [level |-> 5, from |-> 1, to |-> Len(words)])
<1> DEFINE value == CHOOSE v : Evaluates(v, words)
           S(l)  == [level |-> l, from |-> 1, to |-> Len(words)]
<1>1. Evaluates(value, words)
  BY EvaluatesExists
<1>2. Evaluate(words) = value[S(1)]
  BY DEF Evaluate, Evaluates
<1> HIDE DEF value
<1>3. Len(words) \in Nat /\ \A l \in 1 .. 5 : S(l) \in Spans(words)
  BY LenProperties DEF Line, Spans
<1>4. ASSUME NEW l \in 1 .. 5
      PROVE  value[S(l)] = SpanValue(words, value, S(l))
  <2> DEFINE s == S(l)
  <2>1. s \in Spans(words)
    BY <1>3
  <2> HIDE DEF s
  <2>2. value[s] = SpanValue(words, value, s)
    BY <1>1, <2>1 DEF Evaluates
  <2> QED BY <2>2 DEF s
<1>5. ASSUME NEW l \in 1 .. 4
      PROVE  value[S(l)] = value[S(l + 1)]
  <2> DEFINE s == S(l)
  <2>1. s.from = 1 /\ s.to = Len(words) /\ s.level = l /\ [s EXCEPT !.level = @ + 1] = S(l + 1)
    OBVIOUS
  <2>2. Splits(words, s) = {}
    BY <1>3, <2>1 DEF Splits
  <2> HIDE DEF s
  <2>3. SpanValue(words, value, s) = value[[s EXCEPT !.level = @ + 1]]
    BY <2>1, <2>2 DEF SpanValue
  <2>4. value[s] = SpanValue(words, value, s)
    BY <1>4 DEF s
  <2> QED BY <2>1, <2>3, <2>4 DEF s
<1>6. value[S(1)] = value[S(5)]
  <2>1. value[S(1)] = value[S(1 + 1)] /\ value[S(2)] = value[S(2 + 1)]
    BY <1>5
  <2>2. value[S(3)] = value[S(3 + 1)] /\ value[S(4)] = value[S(4 + 1)]
    BY <1>5
  <2> HIDE DEF S
  <2> QED BY <2>1, <2>2
<1>7. value[S(5)] = SpanValue(words, value, S(5))
  BY <1>4
<1>8. Evaluate(words) = SpanValue(words, value, S(5))
  BY <1>2, <1>6, <1>7
<1> QED BY <1>8

\* The words of a number: an operand behind a sign, if it is negative.
LEMMA DigitsFacts ==
  ASSUME NEW n \in I32, NEW d, d = Digits(n)
  PROVE  /\ d \in Line /\ Len(d) \in 1 .. 2
         /\ d[Len(d)] = Number(Abs(n))
         /\ Len(d) = 2 <=> n < 0
         /\ Len(d) = 2 => d[1] = Sign("-")
         /\ \A k \in 1 .. Len(d) :
              d[k].kind \in {"Sign", "Number"} /\ InPlace(d, k) /\ OperandDue(d, k)
<1>1. n \in Int
  BY MaxIntAssumption DEF I32, MinInt
<1>2. d \in Line
  BY <1>1, AllWords, DigitsType DEF Line
<1>3. CASE n < 0
  <2>1. d = << Sign("-"), Number(-n) >> /\ Abs(n) = -n
    BY <1>3 DEF Digits, Abs
  <2> DEFINE x == Sign("-")
             y == Number(-n)
  <2>2. x.kind = "Sign" /\ x.name \in UnaryOp /\ y.kind = "Number"
    BY DEF Sign, Number, UnaryOp
  <2>3. d = << x, y >>
    BY <2>1
  <2> HIDE DEF x, y
  <2>4. Len(d) = 2 /\ d[1] = x /\ d[2] = y
    BY <2>3
  <2>5. OperandDue(d, 1) /\ OperandDue(d, 2)
    BY <2>2, <2>4 DEF OperandDue
  <2>6. InPlace(d, 1) /\ InPlace(d, 2)
    BY <2>2, <2>4, <2>5 DEF InPlace
  <2>7. \A k \in 1 .. Len(d) : k \in {1, 2}
    BY <2>4
  <2> QED BY <1>2, <1>3, <2>1, <2>2, <2>4, <2>5, <2>6, <2>7 DEF x, y
<1>4. CASE n >= 0
  <2>1. d = << Number(n) >> /\ Abs(n) = n /\ ~ (n < 0)
    BY <1>1, <1>4 DEF Digits, Abs
  <2> DEFINE y == Number(n)
  <2>2. y.kind = "Number"
    BY DEF Number
  <2>3. d = << y >>
    BY <2>1
  <2> HIDE DEF y
  <2>4. Len(d) = 1 /\ d[1] = y
    BY <2>3
  <2>5. OperandDue(d, 1)
    BY DEF OperandDue
  <2>6. InPlace(d, 1)
    BY <2>2, <2>4, <2>5 DEF InPlace
  <2>7. \A k \in 1 .. Len(d) : k = 1
    BY <2>4
  <2> QED BY <1>2, <1>4, <2>1, <2>2, <2>4, <2>5, <2>6, <2>7 DEF y
<1> QED BY <1>1, <1>3, <1>4

\* The digits of an i32 are its own, except for i32::MIN.
LEMMA DigitsValue ==
  ASSUME NEW n \in I32, n # MinInt
  PROVE  Evaluate(Digits(n)) = Is(n)
<1> DEFINE d == Digits(n)
<1>0. d = Digits(n)
  OBVIOUS
<1> HIDE DEF d
<1>1. /\ d \in Line /\ Len(d) \in 1 .. 2 /\ d[Len(d)] = Number(Abs(n))
      /\ Len(d) = 2 <=> n < 0
      /\ Len(d) = 2 => d[1] = Sign("-")
      /\ \A k \in 1 .. Len(d) : OperandDue(d, k)
  BY <1>0, DigitsFacts
<1> DEFINE s == [level |-> 5, from |-> 1, to |-> Len(d)]
           e == Len(d)
           y == Number(Abs(n))
<1>2. PICK value : Evaluate(d) = SpanValue(d, value, s)
  BY <1>1, OperandOnly
<1>3. n \in Int /\ Abs(n) \in 0 .. MaxInt /\ Abs(n) \in I32
  BY MaxIntAssumption DEF I32, MinInt, Abs
<1>4. Operands(d, s) = {e}
  <2>0. Sign("-").kind = "Sign" /\ y.kind = "Number"
    BY DEF Sign, Number
  <2>1. d[e].kind = "Number" /\ (e = 2 => d[1].kind = "Sign")
    <3> DEFINE x == Sign("-")
    <3> HIDE DEF x, y, e
    <3> QED BY <1>1, <2>0 DEF x, y, e
  <2>2. \A k \in 1 .. e : d[k].kind # "Sign" <=> k = e
    BY <1>1, <2>1
  <2>3. Operands(d, s) = { k \in 1 .. e : d[k].kind # "Sign" }
    BY DEF Operands
  <2> HIDE DEF s, e
  <2>4. e \in 1 .. e
    BY <1>1 DEF e
  <2> QED BY <2>2, <2>3, <2>4
<1>5. (CHOOSE k \in {e} : \A j \in {e} : k <= j) = e
  BY <1>1
<1>6. d[e].kind # "Open" /\ AtomValue(d[e]) = Is(Abs(n))
  <2>1. y.kind = "Number" /\ y.value = Abs(n) /\ Abs(n) <= MaxInt
    BY <1>3, MaxIntAssumption DEF Number
  <2>2. d[e] = y
    BY <1>1
  <2> HIDE DEF y, e
  <2> QED BY <2>1, <2>2 DEF AtomValue
<1>7. Is(Abs(n)).panics = FALSE /\ Is(Abs(n)).value = Abs(n)
  BY DEF Is
<1> DEFINE signs == SubSeq(d, 1, e - 1)
<1>8. SpanValue(d, value, s) = Is(Applied(signs, Abs(n)))
  <2>1. s.level = 5 /\ s.from = 1
    OBVIOUS
  <2> HIDE DEF s, e
  <2> QED BY <1>4, <1>5, <1>6, <1>7, <2>1 DEF SpanValue
<1>9. Applied(signs, Abs(n)) = n
  <2>1. CASE n < 0
    <3>1. d \in Seq(Word) /\ e = 2 /\ d[1] = Sign("-")
      BY <1>1, <2>1 DEF Line
    <3>2. signs = << d[1] >>
      <4>1. signs \in Seq(Word) /\ Len(signs) = 1 /\ signs[1] = d[1]
        BY <3>1, PartSeq
      <4>2. d[1] \in Word
        BY <3>1, ElementOfSeq
      <4> DEFINE x == d[1]
      <4> HIDE DEF x, signs
      <4>3. << x >> \in Seq(Word) /\ Len(<< x >>) = 1 /\ << x >>[1] = x
        BY <4>2, OneSeq DEF x
      <4> DEFINE t == << x >>
      <4> HIDE DEF t
      <4> QED BY <4>1, <4>3, SeqEqual DEF t, x
    <3>3. Sign("-") \in Word /\ Sign("-").name = "-"
      BY DEF Sign, Word, UnaryOp
    <3>4. Applied(signs, Abs(n)) = Signed("-", Abs(n))
      <4> DEFINE x == Sign("-")
      <4> HIDE DEF x, signs
      <4> QED BY <1>3, <3>1, <3>2, <3>3, AppliedOne DEF x
    <3>5. Abs(n) = -n /\ -n \in Int
      BY <1>3, <2>1 DEF Abs
    <3>6. Wrap(-(-n)) = n
      BY <1>3, MaxIntAssumption DEF Wrap, I32, MinInt
    <3> QED BY <3>4, <3>5, <3>6 DEF Signed
  <2>2. CASE ~ (n < 0)
    <3>1. d \in Seq(Word) /\ e = 1
      BY <1>1, <2>2 DEF Line
    <3>2. signs = << >>
      BY <3>1
    <3>3. Abs(n) = n
      BY <1>3, <2>2 DEF Abs
    <3> HIDE DEF signs
    <3> QED BY <1>3, <3>2, <3>3, AppliedNone
  <2> QED BY <2>1, <2>2
<1> HIDE DEF signs, s
<1> QED BY <1>0, <1>2, <1>8, <1>9

-----------------------------------------------------------------------------
(* Where the rules of the grammar end in a display.                        *)

\* So many words are an expression without parentheses, and the next one ends it.
Plain(words, n) ==
  /\ words[n].kind \in Spelt \cup {"Number"}
  /\ \A j \in 1 .. n : words[j].kind \notin {"Open", "Close"} /\ InPlace(words, j)
  /\ n = Len(words) \/ ~ InPlace(words, n + 1)

LEMMA PlainEnd ==
  ASSUME NEW words \in Line, NEW n \in 1 .. Len(words), Plain(words, n)
  PROVE  ExpressionEnd(words) = n
<1> DEFINE Ends(k) == /\ words[k].kind \in Spelt \cup {"Number", "Close"} /\ Depth(words, k) = 0
                      /\ \A j \in 1 .. k : InPlace(words, j) /\ Depth(words, j) >= 0
           S == {0} \cup { k \in DOMAIN words : Ends(k) }
<1>1. ExpressionEnd(words) = CHOOSE x \in S : \A y \in S : x >= y
  BY DEF ExpressionEnd, Max
<1>2. Len(words) \in Nat /\ DOMAIN words = 1 .. Len(words) /\ n \in Nat /\ n >= 1
  BY LenProperties DEF Line
<1> HIDE DEF Ends, S
<1>3. ASSUME NEW j \in 1 .. n
      PROVE  Depth(words, j) = 0
  <2>1. \A k \in 1 .. j : words[k].kind # "Open" /\ words[k].kind # "Close"
    <3> SUFFICES ASSUME NEW k \in 1 .. j
                 PROVE  words[k].kind # "Open" /\ words[k].kind # "Close"
      OBVIOUS
    <3>1. k \in 1 .. n
      BY <1>2
    <3> QED BY <3>1 DEF Plain
  <2>2. { k \in 1 .. j : words[k].kind = "Open" } = {} /\ { k \in 1 .. j : words[k].kind = "Close" } = {}
    BY <2>1
  <2>3. Cardinality({}) = 0
    BY FS_EmptySet
  <2>4. Depth(words, j) = 0 - 0
    BY <2>2, <2>3 DEF Depth
  <2> QED BY <2>4
<1>4. n \in S
  <2>1. n \in 1 .. n /\ Depth(words, n) = 0
    BY <1>2, <1>3
  <2>2. \A j \in 1 .. n : InPlace(words, j) /\ Depth(words, j) >= 0
    BY <1>3 DEF Plain
  <2>3. Ends(n)
    BY <2>1, <2>2 DEF Ends, Plain
  <2> QED BY <1>2, <2>3 DEF S
<1>5. ASSUME NEW k \in S, k > n
      PROVE  FALSE
  <2>1. k \in 1 .. Len(words) /\ Ends(k)
    BY <1>2, <1>5 DEF S
  <2>2. n + 1 \in 1 .. k /\ n # Len(words)
    <3> DEFINE l == Len(words)
    <3> HIDE DEF l
    <3>1. l \in Nat /\ k \in 1 .. l
      BY <1>2, <2>1 DEF l
    <3>2. n + 1 \in 1 .. k /\ n # l
      BY <1>2, <1>5, <3>1
    <3> QED BY <3>2 DEF l
  <2>3. InPlace(words, n + 1)
    BY <2>1, <2>2 DEF Ends
  <2> QED BY <2>2, <2>3 DEF Plain
<1>6. S \subseteq Nat
  BY <1>2 DEF S
<1>7. \A y \in S : n >= y
  BY <1>2, <1>5, <1>6
<1>8. \A x \in S : (\A y \in S : x >= y) => x = n
  <2> SUFFICES ASSUME NEW x \in S, x >= n PROVE x = n
    BY <1>4
  <2>1. n >= x
    BY <1>7
  <2> QED BY <1>2, <1>6, <2>1
<1> QED BY <1>1, <1>4, <1>7, <1>8

\* A number is taken as an expression up to its end, or up to a comma.
LEMMA DigitsEnd ==
  ASSUME NEW n \in I32, NEW d, d = Digits(n), NEW words \in Line, Len(d) <= Len(words),
         \A k \in 1 .. Len(d) : words[k] = d[k],
         Len(words) = Len(d) \/ words[Len(d) + 1].kind = "Comma"
  PROVE  ExpressionEnd(words) = Len(d)
<1>1. /\ Len(d) \in 1 .. 2 /\ d[Len(d)] = Number(Abs(n))
      /\ \A k \in 1 .. Len(d) : d[k].kind \in {"Sign", "Number"} /\ InPlace(d, k)
  BY DigitsFacts
<1>2. Len(words) \in Nat
  BY LenProperties DEF Line
<1>3. d[Len(d)].kind = "Number"
  <2> DEFINE x == Number(Abs(n))
  <2>1. x.kind = "Number"
    BY DEF Number
  <2> HIDE DEF x
  <2> QED BY <1>1, <2>1 DEF x
<1> DEFINE e == Len(d)
<1> HIDE DEF e
<1>4. e \in 1 .. Len(words) /\ words[e].kind = "Number"
  BY <1>1, <1>2, <1>3 DEF e
<1>5. ASSUME NEW j \in 1 .. e
      PROVE  words[j].kind \notin {"Open", "Close"} /\ InPlace(words, j)
  <2>1. words[j] = d[j] /\ InPlace(d, j) /\ (j # 1 => j - 1 \in 1 .. e)
    BY <1>1, <1>4, <1>5 DEF e
  <2>2. j # 1 => words[j - 1] = d[j - 1]
    BY <2>1 DEF e
  <2>3. OperandDue(words, j) <=> OperandDue(d, j)
    BY <2>2 DEF OperandDue
  <2>4. InPlace(words, j)
    BY <2>1, <2>3 DEF InPlace
  <2>5. d[j].kind \in {"Sign", "Number"}
    BY <1>1, <1>5 DEF e
  <2> QED BY <2>1, <2>4, <2>5
<1>6. e # Len(words) => ~ InPlace(words, e + 1)
  <2> SUFFICES ASSUME words[e + 1].kind = "Comma" PROVE ~ InPlace(words, e + 1)
    BY DEF e
  <2>1. (e + 1) - 1 = e /\ e + 1 # 1
    BY <1>4
  <2>2. ~ OperandDue(words, e + 1)
    BY <1>4, <2>1 DEF OperandDue
  <2> QED BY <2>2 DEF InPlace
<1>7. Plain(words, e)
  BY <1>4, <1>5, <1>6 DEF Plain
<1> QED BY <1>4, <1>7, PlainEnd DEF e

\* Every address mode has a sign of its own.
LEMMA SignOfMode ==
  ASSUME NEW m \in AddressMode
  PROVE  SignOf[m] \in Modes /\ ModeOf[SignOf[m]] = m
<1> DEFINE R == Range(ModeOf)
<1>1. SignOf[m] = CHOOSE s \in Modes : m \in R => ModeOf[s] = m
  BY DEF SignOf, Inverse
<1>2. \E s \in Modes : ModeOf[s] = m
  <2>1. {"#", "$", "*", "@", "{", "<", "}", ">"} = Modes
    BY DEF Modes
  <2>2. /\ ModeOf["#"] = "Immediate" /\ ModeOf["$"] = "Direct"
        /\ ModeOf["*"] = "IndirectA" /\ ModeOf["@"] = "IndirectB"
    BY DEF ModeOf, Modes
  <2>3. /\ ModeOf["{"] = "PreDecIndirectA" /\ ModeOf["<"] = "PreDecIndirectB"
        /\ ModeOf["}"] = "PostIncIndirectA" /\ ModeOf[">"] = "PostIncIndirectB"
    BY DEF ModeOf, Modes
  <2> QED BY <2>1, <2>2, <2>3 DEF AddressMode, PreDec, PostInc
<1>3. m \in R
  BY <1>2 DEF ModeOf, Range
<1> HIDE DEF R
<1> QED BY <1>1, <1>2, <1>3

\* The words of a field: its sign, then its number.
LEMMA FieldTextFacts ==
  ASSUME NEW field \in FieldOf(I32), NEW t, t = FieldText(field),
         NEW d, d = Digits(field.value)
  PROVE  /\ t \in Line /\ d \in Line /\ Len(d) \in 1 .. 2 /\ Len(t) = 1 + Len(d)
         /\ t[1] = Sign(SignOf[field.address_mode]) /\ t[1].kind = "Sign" /\ t[1].name \in Modes
         /\ \A k \in 1 .. Len(d) : t[k + 1] = d[k]
         /\ Tail(t) = d
         /\ \A k \in 1 .. Len(t) : t[k].kind \in {"Sign", "Number"}
         /\ ModeOf[t[1].name] = field.address_mode
<1>1. field.address_mode \in AddressMode /\ field.value \in I32
  BY DEF FieldOf
<1> DEFINE x == Sign(SignOf[field.address_mode])
           s == << x >>
<1>2. x.kind = "Sign" /\ x.name \in Modes /\ ModeOf[x.name] = field.address_mode
  BY <1>1, SignOfMode DEF Sign
<1>3. x \in Word
  BY <1>1, SignOfMode DEF Sign, Word
<1>4. t = s \o d
  BY DEF FieldText
<1>5. /\ d \in Seq(Word) /\ Len(d) \in 1 .. 2
      /\ \A k \in 1 .. Len(d) : d[k].kind \in {"Sign", "Number"}
  BY <1>1, DigitsFacts DEF Line
<1> HIDE DEF x
<1>6. s \in Seq(Word) /\ Len(s) = 1 /\ s[1] = x
  BY <1>3, OneSeq
<1> HIDE DEF s
<1>7. /\ t \in Seq(Word) /\ Len(t) = 1 + Len(d)
      /\ \A k \in 1 .. Len(t) : t[k] = IF k <= 1 THEN s[k] ELSE d[k - 1]
  <2>1. /\ s \o d \in Seq(Word) /\ Len(s \o d) = Len(s) + Len(d)
        /\ \A k \in 1 .. Len(s) + Len(d) :
             (s \o d)[k] = IF k <= Len(s) THEN s[k] ELSE d[k - Len(s)]
    BY <1>5, <1>6, ConcatProperties
  <2> QED BY <1>4, <1>6, <2>1
<1>8. t[1] = x
  BY <1>5, <1>6, <1>7
<1>9. ASSUME NEW k \in 1 .. Len(d)
      PROVE  t[k + 1] = d[k]
  <2>1. k + 1 \in 1 .. Len(t) /\ ~ (k + 1 <= 1) /\ (k + 1) - 1 = k
    BY <1>5, <1>7
  <2> QED BY <1>7, <2>1
<1>10. Tail(t) = d
  <2>1. t # << >>
    BY <1>5, <1>7, EmptySeq
  <2>2. /\ Tail(t) \in Seq(Word) /\ Len(Tail(t)) = Len(d)
        /\ \A k \in 1 .. Len(Tail(t)) : Tail(t)[k] = t[k + 1]
    BY <1>5, <1>7, <2>1, HeadTailProperties
  <2>3. \A k \in 1 .. Len(Tail(t)) : Tail(t)[k] = d[k]
    BY <1>9, <2>2
  <2> QED BY <1>5, <2>2, <2>3, SeqEqual
<1>11. ASSUME NEW k \in 1 .. Len(t)
       PROVE  t[k].kind \in {"Sign", "Number"}
  <2>1. CASE k = 1
    BY <1>2, <1>8, <2>1
  <2>2. CASE k # 1
    <3>1. k - 1 \in 1 .. Len(d) /\ t[k] = d[k - 1]
      BY <1>5, <1>7, <2>2
    <3> QED BY <1>5, <3>1
  <2> QED BY <2>1, <2>2
<1> QED BY <1>2, <1>5, <1>7, <1>8, <1>9, <1>10, <1>11 DEF x, Line

\* The text of a field is taken as a field, up to its end or up to a comma.
LEMMA FieldTextEnd ==
  ASSUME NEW field \in FieldOf(I32), NEW t, t = FieldText(field),
         NEW words \in Line, Len(t) <= Len(words), \A k \in 1 .. Len(t) : words[k] = t[k],
         Len(words) = Len(t) \/ words[Len(t) + 1].kind = "Comma"
  PROVE  FieldEnd(words) = Len(t)
<1> DEFINE d    == Digits(field.value)
           rest == From(words, 2)
<1>1. d = Digits(field.value) /\ field.value \in I32
  BY DEF FieldOf
<1> HIDE DEF d
<1>2. /\ Len(d) \in 1 .. 2 /\ Len(t) = 1 + Len(d)
      /\ t[1].kind = "Sign" /\ t[1].name \in Modes
      /\ \A k \in 1 .. Len(d) : t[k + 1] = d[k]
  BY <1>1, FieldTextFacts
<1>3. Len(words) \in Nat /\ words[1] = t[1] /\ words # << >>
  BY <1>2, LenProperties, EmptySeq DEF Line
<1>4. ModeEnd(words) = 1
  BY <1>2, <1>3 DEF ModeEnd, HasMode, Begins
<1>5. /\ rest \in Line /\ Len(rest) = Len(words) - 1
      /\ \A k \in 1 .. Len(rest) : rest[k] = words[k + 1]
  <2>1. 2 \in 1 .. Len(words) + 1
    BY <1>2, <1>3
  <2>2. /\ rest \in Line /\ Len(rest) = Len(words) - 2 + 1
        /\ \A k \in 1 .. Len(rest) : rest[k] = words[2 + k - 1]
    BY <2>1, FromType
  <2> HIDE DEF rest
  <2>3. \A k \in 1 .. Len(rest) : 2 + k - 1 = k + 1
    BY <1>3, <2>2
  <2> QED BY <1>3, <2>2, <2>3
<1> HIDE DEF rest
<1>6. \A k \in 1 .. Len(d) : rest[k] = d[k]
  <2> SUFFICES ASSUME NEW k \in 1 .. Len(d) PROVE rest[k] = d[k]
    OBVIOUS
  <2>1. k \in 1 .. Len(rest) /\ k + 1 \in 1 .. Len(t)
    BY <1>2, <1>3, <1>5
  <2> QED BY <1>2, <1>5, <2>1
<1>7. Len(rest) = Len(d) \/ rest[Len(d) + 1].kind = "Comma"
  <2> SUFFICES ASSUME Len(words) # Len(t) PROVE rest[Len(d) + 1].kind = "Comma"
    BY <1>2, <1>3, <1>5
  <2>1. Len(d) + 1 \in 1 .. Len(rest) /\ (Len(d) + 1) + 1 = Len(t) + 1
    BY <1>2, <1>3, <1>5
  <2> QED BY <1>5, <2>1
<1>8. Len(d) <= Len(rest)
  BY <1>2, <1>3, <1>5
<1>9. ExpressionEnd(rest) = Len(d)
  BY <1>1, <1>5, <1>6, <1>7, <1>8, DigitsEnd
<1>10. FieldEnd(words) = EndBehind(1, ExpressionEnd(rest))
  BY <1>4 DEF FieldEnd, rest
<1> QED BY <1>2, <1>9, <1>10 DEF EndBehind

\* And read as that field.
LEMMA FieldTextParsed ==
  ASSUME NEW field \in FieldOf(I32), field.value # MinInt
  PROVE  ParseField(FieldText(field)) = [panics |-> FALSE, field |-> field]
<1> DEFINE t == FieldText(field)
           d == Digits(field.value)
<1>1. /\ t[1].kind = "Sign" /\ t[1].name \in Modes /\ Tail(t) = d
      /\ ModeOf[t[1].name] = field.address_mode
      /\ Len(t) = 1 + Len(d) /\ Len(d) \in 1 .. 2
  BY FieldTextFacts
<1>2. Evaluate(d) = Is(field.value)
  BY DigitsValue DEF FieldOf
<1> HIDE DEF t, d
<1>3. t # << >>
  BY <1>1, EmptySeq
<1>4. HasMode(t)
  BY <1>1, <1>3 DEF HasMode, Begins
<1>5. ParseField(t) = [panics |-> Is(field.value).panics,
                       field  |-> [address_mode |-> field.address_mode,
                                   value        |-> Is(field.value).value]]
  BY <1>1, <1>2, <1>4 DEF ParseField
<1>6. field = [address_mode |-> field.address_mode, value |-> field.value]
  BY DEF FieldOf
<1> QED BY <1>5, <1>6 DEF Is, t

\* The words of an instruction: its operation, and its fields around a comma.
LEMMA InstructionTextFacts ==
  ASSUME NEW ins \in InstructionOf(I32), NEW w, w = InstructionText(ins),
         NEW ta, ta = FieldText(ins.a_field), NEW tb, tb = FieldText(ins.b_field),
         NEW e, e = 2 + Len(ta)
  PROVE  /\ w \in Line /\ ta \in Line /\ tb \in Line
         /\ Len(ta) \in 2 .. 3 /\ Len(tb) \in 2 .. 3 /\ Len(w) = e + 1 + Len(tb)
         /\ w[1] = Mnemonic(ins.opcode) /\ w[2] = Suffix(ins.modifier)
         /\ \A k \in 1 .. Len(ta) : w[2 + k] = ta[k]
         /\ w[e + 1] = Punctuation("Comma")
         /\ \A k \in 1 .. Len(tb) : w[e + 1 + k] = tb[k]
<1>1. /\ ins.opcode \in Opcode /\ ins.modifier \in Modifier
      /\ ins.a_field \in FieldOf(I32) /\ ins.b_field \in FieldOf(I32)
  BY DEF InstructionOf
<1>2. /\ ta \in Seq(Word) /\ tb \in Seq(Word)
      /\ Len(ta) \in 2 .. 3 /\ Len(tb) \in 2 .. 3
  <2> DEFINE da == Digits(ins.a_field.value)
             db == Digits(ins.b_field.value)
  <2>1. ta \in Line /\ Len(da) \in 1 .. 2 /\ Len(ta) = 1 + Len(da)
    BY <1>1, FieldTextFacts
  <2>2. tb \in Line /\ Len(db) \in 1 .. 2 /\ Len(tb) = 1 + Len(db)
    BY <1>1, FieldTextFacts
  <2> HIDE DEF da, db
  <2>3. PICK m \in 1 .. 2, n \in 1 .. 2 : m = Len(da) /\ n = Len(db)
    BY <2>1, <2>2
  <2>4. Len(ta) = 1 + m /\ Len(tb) = 1 + n
    BY <2>1, <2>2, <2>3
  <2>5. 1 + m \in 2 .. 3 /\ 1 + n \in 2 .. 3
    OBVIOUS
  <2> QED BY <2>1, <2>2, <2>4, <2>5 DEF Line
<1> DEFINE x == Mnemonic(ins.opcode)
           y == Suffix(ins.modifier)
           c == Punctuation("Comma")
           p == << x, y >>
           q == p \o ta
           r == << c >>
           s == q \o r
<1>3. x \in Word /\ y \in Word /\ c \in Word
  BY <1>1, MnemonicsAssumption
     DEF Word, Mnemonic, Suffix, Punctuation, Spelt, Modifier, ModifierNames
<1> HIDE DEF x, y, c
<1>4. p \in Seq(Word) /\ Len(p) = 2 /\ p[1] = x /\ p[2] = y
  BY <1>3
<1>5. r \in Seq(Word) /\ Len(r) = 1 /\ r[1] = c
  BY <1>3, OneSeq
<1> HIDE DEF p, r
<1>6. /\ q \in Seq(Word) /\ Len(q) = 2 + Len(ta)
      /\ \A k \in 1 .. 2 + Len(ta) : q[k] = IF k <= 2 THEN p[k] ELSE ta[k - 2]
  <2>1. /\ q \in Seq(Word) /\ Len(q) = Len(p) + Len(ta)
        /\ \A k \in 1 .. Len(p) + Len(ta) : q[k] = IF k <= Len(p) THEN p[k] ELSE ta[k - Len(p)]
    BY <1>2, <1>4, ConcatProperties
  <2> HIDE DEF q
  <2> QED BY <1>4, <2>1
<1> HIDE DEF q
<1>7. /\ s \in Seq(Word) /\ Len(s) = e + 1
      /\ \A k \in 1 .. e + 1 : s[k] = IF k <= e THEN q[k] ELSE r[k - e]
  <2>1. /\ s \in Seq(Word) /\ Len(s) = Len(q) + Len(r)
        /\ \A k \in 1 .. Len(q) + Len(r) : s[k] = IF k <= Len(q) THEN q[k] ELSE r[k - Len(q)]
    BY <1>5, <1>6, ConcatProperties
  <2> HIDE DEF s
  <2> QED BY <1>5, <1>6, <2>1
<1> HIDE DEF s
<1>8. w = s \o tb
  BY DEF InstructionText, s, r, q, p, x, y, c
<1>9. /\ w \in Seq(Word) /\ Len(w) = e + 1 + Len(tb)
      /\ \A k \in 1 .. e + 1 + Len(tb) : w[k] = IF k <= e + 1 THEN s[k] ELSE tb[k - (e + 1)]
  <2>1. /\ s \o tb \in Seq(Word) /\ Len(s \o tb) = Len(s) + Len(tb)
        /\ \A k \in 1 .. Len(s) + Len(tb) :
             (s \o tb)[k] = IF k <= Len(s) THEN s[k] ELSE tb[k - Len(s)]
    <3>1. s \in Seq(Word) /\ tb \in Seq(Word)
      BY <1>2, <1>7
    <3> QED BY <3>1, ConcatProperties
  <2> QED BY <1>7, <1>8, <2>1
<1>10. PICK m \in 2 .. 3 : m = Len(ta)
  BY <1>2
<1>11. PICK n \in 2 .. 3 : n = Len(tb)
  BY <1>2
<1>12. w[1] = x /\ w[2] = y
  <2>1. w[1] = s[1] /\ w[2] = s[2]
    BY <1>9, <1>10, <1>11
  <2>2. s[1] = q[1] /\ s[2] = q[2]
    BY <1>7, <1>10
  <2>3. q[1] = p[1] /\ q[2] = p[2]
    BY <1>6, <1>10
  <2> QED BY <1>4, <2>1, <2>2, <2>3
<1>13. ASSUME NEW k \in 1 .. Len(ta)
       PROVE  w[2 + k] = ta[k]
  <2>1. 2 + k \in 1 .. e /\ 2 + k \in 1 .. e + 1 /\ 2 + k \in 1 .. e + 1 + Len(tb) /\ ~ (2 + k <= 2)
        /\ (2 + k) - 2 = k /\ 2 + k <= e /\ 2 + k <= e + 1
    BY <1>10, <1>11
  <2>2. w[2 + k] = s[2 + k]
    BY <1>9, <2>1
  <2>3. s[2 + k] = q[2 + k]
    BY <1>7, <2>1
  <2>4. q[2 + k] = ta[k]
    BY <1>6, <2>1
  <2> QED BY <2>2, <2>3, <2>4
<1>14. w[e + 1] = c
  <2>1. e + 1 \in 1 .. e + 1 /\ e + 1 \in 1 .. e + 1 + Len(tb) /\ ~ (e + 1 <= e) /\ (e + 1) - e = 1
        /\ e + 1 <= e + 1
    BY <1>10, <1>11
  <2>2. w[e + 1] = s[e + 1]
    BY <1>9, <2>1
  <2>3. s[e + 1] = r[1]
    BY <1>7, <2>1
  <2> QED BY <1>5, <2>2, <2>3
<1>15. ASSUME NEW k \in 1 .. Len(tb)
       PROVE  w[e + 1 + k] = tb[k]
  <2>1. e + 1 + k \in 1 .. e + 1 + Len(tb) /\ ~ (e + 1 + k <= e + 1) /\ (e + 1 + k) - (e + 1) = k
    BY <1>10, <1>11
  <2> QED BY <1>9, <2>1
<1> QED BY <1>2, <1>9, <1>12, <1>13, <1>14, <1>15 DEF Line, x, y, c

\* Where the grammar sees the ends of an instruction that is displayed: its own.
LEMMA InstructionTextEnds ==
  ASSUME NEW ins \in InstructionOf(I32), NEW w, w = InstructionText(ins),
         NEW ta, ta = FieldText(ins.a_field), NEW tb, tb = FieldText(ins.b_field),
         NEW e, e = 2 + Len(ta)
  PROVE  /\ Begins(w, "Opcode") /\ OperationEnd(w) = 2
         /\ AEnd(w) = e /\ BEnd(w, e) = Len(w) /\ InstructionEnd(w) = Len(w)
         /\ SubSeq(w, 3, e) = ta /\ SubSeq(w, e + 2, Len(w)) = tb
<1> DEFINE x == Mnemonic(ins.opcode)
           y == Suffix(ins.modifier)
           c == Punctuation("Comma")
<1>0. x.kind = "Opcode" /\ y.kind = "Modifier" /\ c.kind = "Comma"
  BY DEF Mnemonic, Suffix, Punctuation
<1>1. /\ w \in Line /\ ta \in Line /\ tb \in Line
      /\ Len(ta) \in 2 .. 3 /\ Len(tb) \in 2 .. 3 /\ Len(w) = e + 1 + Len(tb)
      /\ w[1] = x /\ w[2] = y /\ w[e + 1] = c
      /\ \A k \in 1 .. Len(ta) : w[2 + k] = ta[k]
      /\ \A k \in 1 .. Len(tb) : w[e + 1 + k] = tb[k]
  <2>1. /\ w \in Line /\ ta \in Line /\ tb \in Line
        /\ Len(ta) \in 2 .. 3 /\ Len(tb) \in 2 .. 3 /\ Len(w) = e + 1 + Len(tb)
    BY InstructionTextFacts
  <2>2. w[1] = x /\ w[2] = y /\ w[e + 1] = c
    <3>1. w[1] = Mnemonic(ins.opcode)
      BY InstructionTextFacts
    <3>2. w[2] = Suffix(ins.modifier)
      BY InstructionTextFacts
    <3>3. w[e + 1] = Punctuation("Comma")
      BY InstructionTextFacts
    <3> QED BY <3>1, <3>2, <3>3
  <2>3. \A k \in 1 .. Len(ta) : w[2 + k] = ta[k]
    BY InstructionTextFacts
  <2>4. \A k \in 1 .. Len(tb) : w[e + 1 + k] = tb[k]
    BY InstructionTextFacts
  <2> QED BY <2>1, <2>2, <2>3, <2>4
<1> HIDE DEF x, y, c
<1>2. PICK m \in 2 .. 3, n \in 2 .. 3 : m = Len(ta) /\ n = Len(tb)
  BY <1>1
<1>3. e = 2 + m /\ e \in 4 .. 5 /\ Len(w) = e + 1 + n /\ Len(w) \in Nat /\ w \in Seq(Word)
  <2>1. e = 2 + m /\ Len(w) = e + 1 + n
    BY <1>1, <1>2
  <2>2. e \in 4 .. 5 /\ Len(w) \in Nat
    BY <2>1
  <2> QED BY <1>1, <2>1, <2>2 DEF Line
<1>4. w[1].kind = "Opcode" /\ w[2].kind = "Modifier" /\ w[e + 1].kind = "Comma"
  BY <1>0, <1>1
<1>5. w # << >>
  BY <1>2, <1>3, EmptySeq
<1>6. Begins(w, "Opcode")
  BY <1>4, <1>5 DEF Begins
<1>7. OperationEnd(w) = 2
  <2> DEFINE T == Tail(w)
  <2>1. /\ T \in Seq(Word) /\ Len(T) = Len(w) - 1
        /\ \A k \in 1 .. Len(T) : T[k] = w[k + 1]
    BY <1>3, <1>5, HeadTailProperties
  <2>0. OperationEnd(w) = IF Begins(T, "Modifier") THEN 2 ELSE 1
    BY DEF OperationEnd
  <2> HIDE DEF T
  <2>2. Len(T) = e + n /\ 1 \in 1 .. Len(T) /\ 1 + 1 = 2
    BY <1>2, <1>3, <2>1
  <2>3. T[1] = w[2]
    BY <2>1, <2>2
  <2>4. T # << >>
    BY <1>2, <1>3, <2>2, EmptySeq
  <2>5. Begins(T, "Modifier")
    BY <1>4, <2>3, <2>4 DEF Begins
  <2> QED BY <2>0, <2>5
<1> DEFINE A == From(w, 3)
           B == From(w, e + 2)
           C == From(w, e + 1)
<1>8. /\ A \in Line /\ Len(A) = Len(w) - 3 + 1
      /\ \A k \in 1 .. Len(A) : A[k] = w[3 + k - 1]
  <2>1. 3 \in 1 .. Len(w) + 1
    BY <1>2, <1>3
  <2> QED BY <1>1, <2>1, FromType
<1>9. /\ B \in Line /\ Len(B) = Len(w) - (e + 2) + 1
      /\ \A k \in 1 .. Len(B) : B[k] = w[(e + 2) + k - 1]
  <2> DEFINE at == e + 2
  <2>1. at \in 1 .. Len(w) + 1
    BY <1>2, <1>3
  <2> HIDE DEF at
  <2>2. /\ From(w, at) \in Line /\ Len(From(w, at)) = Len(w) - at + 1
        /\ \A k \in 1 .. Len(From(w, at)) : From(w, at)[k] = w[at + k - 1]
    BY <1>1, <2>1, FromType
  <2> QED BY <2>2 DEF at
<1>10. Begins(C, "Comma")
  <2> DEFINE at == e + 1
  <2>1. at \in 1 .. Len(w) + 1
    BY <1>2, <1>3
  <2> HIDE DEF at
  <2>2. /\ From(w, at) \in Line /\ Len(From(w, at)) = Len(w) - at + 1
        /\ \A k \in 1 .. Len(From(w, at)) : From(w, at)[k] = w[at + k - 1]
    BY <1>1, <2>1, FromType
  <2> DEFINE D == From(w, at)
  <2> HIDE DEF D
  <2>3. 1 \in 1 .. Len(D) /\ Len(D) # 0 /\ at + 1 - 1 = at
    BY <1>2, <1>3, <2>2 DEF D, at
  <2>4. D[1] = w[at] /\ D # << >>
    BY <2>2, <2>3, EmptySeq DEF D
  <2> QED BY <1>4, <2>4 DEF Begins, D, at
<1> HIDE DEF A, B, C
<1>11. FieldEnd(A) = Len(ta)
  <2>1. ins.a_field \in FieldOf(I32)
    BY DEF InstructionOf
  <2>2. Len(A) = m + 1 + n - 0 + 0 /\ Len(ta) <= Len(A)
    BY <1>2, <1>3, <1>8
  <2>3. ASSUME NEW k \in 1 .. Len(ta)
        PROVE  A[k] = ta[k]
    <3>1. k \in 1 .. Len(A) /\ 3 + k - 1 = 2 + k
      BY <1>2, <2>2
    <3> QED BY <1>1, <1>8, <3>1
  <2>4. A[Len(ta) + 1].kind = "Comma"
    <3>1. Len(ta) + 1 \in 1 .. Len(A) /\ 3 + (Len(ta) + 1) - 1 = e + 1
      BY <1>2, <1>3, <2>2
    <3> QED BY <1>4, <1>8, <3>1
  <2> QED BY <1>8, <2>1, <2>2, <2>3, <2>4, FieldTextEnd
<1>12. FieldEnd(B) = Len(tb)
  <2>1. ins.b_field \in FieldOf(I32)
    BY DEF InstructionOf
  <2>2. Len(B) = n /\ Len(tb) <= Len(B) /\ Len(B) = Len(tb)
    BY <1>2, <1>3, <1>9
  <2>3. ASSUME NEW k \in 1 .. Len(tb)
        PROVE  B[k] = tb[k]
    <3>1. k \in 1 .. Len(B) /\ (e + 2) + k - 1 = e + 1 + k
      BY <1>2, <1>3, <2>2
    <3>2. B[k] = w[(e + 2) + k - 1]
      BY <1>9, <3>1
    <3>3. w[e + 1 + k] = tb[k]
      BY <1>1
    <3> QED BY <3>1, <3>2, <3>3
  <2> QED BY <1>9, <2>1, <2>2, <2>3, FieldTextEnd
<1>13. AEnd(w) = e
  <2>1. AEnd(w) = EndBehind(2, FieldEnd(A))
    BY <1>7 DEF AEnd, A
  <2> QED BY <1>2, <1>3, <1>11, <2>1 DEF EndBehind
<1>14. BEnd(w, e) = Len(w)
  <2>1. BEnd(w, e) = EndBehind(e + 1, FieldEnd(B))
    BY <1>10 DEF BEnd, B, C
  <2>2. FieldEnd(B) = n /\ n # 0
    <3>1. FieldEnd(B) = n
      BY <1>2, <1>12, Zenon
    <3>2. n # 0
      OBVIOUS
    <3> QED BY <3>1, <3>2
  <2>3. BEnd(w, e) = e + 1 + n
    BY <2>1, <2>2 DEF EndBehind
  <2> QED BY <1>3, <2>3
<1>15. InstructionEnd(w) = Len(w)
  <2>0. e # 0
    BY <1>3
  <2>1. InstructionEnd(w) = Max({e, Len(w)})
    BY <1>6, <1>13, <1>14, <2>0 DEF InstructionEnd, FieldsEnd
  <2> DEFINE l == Len(w)
  <2> HIDE DEF l
  <2>2. l \in Nat /\ e \in Nat /\ l >= e /\ l # e
    BY <1>2, <1>3 DEF l
  <2>3. Max({e, l}) = l
    BY <2>2 DEF Max
  <2> QED BY <2>1, <2>3 DEF l
<1>16. SubSeq(w, 3, e) = ta
  <2>1. /\ SubSeq(w, 3, e) \in Seq(Word) /\ Len(SubSeq(w, 3, e)) = IF 3 <= e THEN e - 3 + 1 ELSE 0
        /\ \A k \in 1 .. Len(SubSeq(w, 3, e)) : SubSeq(w, 3, e)[k] = w[3 + k - 1]
    <3>1. 3 \in Nat /\ e \in Nat /\ 1 <= 3 /\ e <= Len(w)
      BY <1>2, <1>3
    <3> QED BY <1>3, <3>1, PartSeq
  <2> DEFINE D == SubSeq(w, 3, e)
  <2> HIDE DEF D
  <2>2. D \in Seq(Word) /\ Len(D) = Len(ta)
    BY <1>2, <1>3, <2>1 DEF D
  <2>3. ASSUME NEW k \in 1 .. Len(D)
        PROVE  D[k] = ta[k]
    <3>1. k \in 1 .. Len(ta) /\ 3 + k - 1 = 2 + k
      BY <1>2, <2>2
    <3>2. D[k] = w[3 + k - 1]
      BY <2>1 DEF D
    <3>3. w[2 + k] = ta[k]
      BY <1>1, <3>1
    <3> QED BY <3>1, <3>2, <3>3
  <2>4. ta \in Seq(Word)
    BY <1>1 DEF Line
  <2> QED BY <2>2, <2>3, <2>4, SeqEqual DEF D
<1>17. SubSeq(w, e + 2, Len(w)) = tb
  <2> DEFINE at == e + 2
  <2>0. at \in Nat /\ Len(w) \in Nat /\ 1 <= at /\ Len(w) <= Len(w) /\ at = e + 2
    BY <1>3
  <2> HIDE DEF at
  <2>1. /\ SubSeq(w, at, Len(w)) \in Seq(Word)
        /\ Len(SubSeq(w, at, Len(w))) = IF at <= Len(w) THEN Len(w) - at + 1 ELSE 0
        /\ \A k \in 1 .. Len(SubSeq(w, at, Len(w))) : SubSeq(w, at, Len(w))[k] = w[at + k - 1]
    BY <1>3, <2>0, PartSeq
  <2> DEFINE D == SubSeq(w, at, Len(w))
  <2> HIDE DEF D
  <2>2. D \in Seq(Word) /\ Len(D) = Len(tb)
    BY <1>2, <1>3, <2>0, <2>1 DEF D
  <2>3. ASSUME NEW k \in 1 .. Len(D)
        PROVE  D[k] = tb[k]
    <3>1. k \in 1 .. Len(tb) /\ at + k - 1 = e + 1 + k
      BY <1>2, <1>3, <2>0, <2>2
    <3>2. D[k] = w[at + k - 1]
      BY <2>1 DEF D
    <3>3. w[e + 1 + k] = tb[k]
      BY <1>1, <3>1
    <3> QED BY <3>1, <3>2, <3>3
  <2>4. tb \in Seq(Word)
    BY <1>1 DEF Line
  <2> QED BY <2>0, <2>2, <2>3, <2>4, SeqEqual DEF D
<1> QED BY <1>6, <1>7, <1>13, <1>14, <1>15, <1>16, <1>17

NoMinInt(ins) == ins.a_field.value # MinInt /\ ins.b_field.value # MinInt

\* An instruction that is displayed is parsed as what it was.
LEMMA InstructionTextParsed ==
  ASSUME NEW ins \in InstructionOf(I32), NoMinInt(ins)
  PROVE  ParseInstruction(InstructionText(ins)) = Ok(ins)
<1> DEFINE w  == InstructionText(ins)
           ta == FieldText(ins.a_field)
           tb == FieldText(ins.b_field)
           e  == 2 + Len(ta)
<1>1. /\ Begins(w, "Opcode") /\ OperationEnd(w) = 2
      /\ AEnd(w) = e /\ BEnd(w, e) = Len(w)
      /\ SubSeq(w, 3, e) = ta /\ SubSeq(w, e + 2, Len(w)) = tb
  BY InstructionTextEnds
<1>2. /\ Len(ta) \in 2 .. 3 /\ Len(tb) \in 2 .. 3 /\ Len(w) = e + 1 + Len(tb)
      /\ w[1] = Mnemonic(ins.opcode) /\ w[2] = Suffix(ins.modifier)
  BY InstructionTextFacts
<1>3. /\ ins.opcode \in Opcode /\ ins.modifier \in Modifier
      /\ ins.a_field \in FieldOf(I32) /\ ins.b_field \in FieldOf(I32)
  BY DEF InstructionOf
<1>4. /\ ParseField(ta) = [panics |-> FALSE, field |-> ins.a_field]
      /\ ParseField(tb) = [panics |-> FALSE, field |-> ins.b_field]
  BY <1>3, FieldTextParsed DEF NoMinInt
<1> HIDE DEF w, ta, tb, e
<1>5. w[1].name = ins.opcode /\ w[2].name = ins.modifier /\ ins.modifier # NoModifier
  <2>1. Mnemonic(ins.opcode).name = ins.opcode /\ Suffix(ins.modifier).name = ins.modifier
    BY DEF Mnemonic, Suffix
  <2>2. w[1].name = Mnemonic(ins.opcode).name /\ w[2].name = Suffix(ins.modifier).name
    BY <1>2
  <2>3. ins.modifier # NoModifier
    BY <1>3 DEF Modifier, NoModifier
  <2> QED BY <2>1, <2>2, <2>3
<1>6. Len(w) # 0
  <2>1. PICK m \in 2 .. 3, n \in 2 .. 3 : m = Len(ta) /\ n = Len(tb)
    BY <1>2
  <2> QED BY <1>2, <2>1 DEF e
<1>7. ParseInstruction(w)
        = FullInstruction(ins.opcode, ins.modifier, ins.a_field, ins.b_field)
  <2> DEFINE A == ParseField(ta)
             B == ParseField(tb)
  <2>1. /\ ~ A.panics /\ A.field = ins.a_field
        /\ ~ B.panics /\ B.field = ins.b_field
    BY <1>4
  <2>2. /\ ParseField(SubSeq(w, 2 + 1, e)) = A
        /\ ParseField(SubSeq(w, e + 2, Len(w))) = B
    <3>1. 2 + 1 = 3
      OBVIOUS
    <3> QED BY <1>1, <3>1
  <2> HIDE DEF A, B
  <2> DEFINE L == Len(w)
  <2>3. OperationEnd(w) = 2 /\ AEnd(w) = e /\ BEnd(w, e) = L
        /\ ParseField(SubSeq(w, e + 2, L)) = B /\ L # 0
    BY <1>1, <1>6, <2>2
  <2> HIDE DEF L
  <2> QED BY <1>3, <1>5, <2>1, <2>2, <2>3 DEF ParseInstruction
<1>8. ins = [opcode |-> ins.opcode, modifier |-> ins.modifier,
             a_field |-> ins.a_field, b_field |-> ins.b_field]
  BY DEF InstructionOf
<1>9. FullInstruction(ins.opcode, ins.modifier, ins.a_field, ins.b_field) = Ok(ins)
  BY <1>5, <1>8 DEF FullInstruction
<1> QED BY <1>7, <1>9 DEF w

-----------------------------------------------------------------------------
(* The expansion of what is displayed.                                     *)

\* The words of an instruction that are no operation are no labels.
LEMMA InstructionTextKinds ==
  ASSUME NEW ins \in InstructionOf(I32), NEW w, w = InstructionText(ins),
         NEW k \in 2 .. Len(w)
  PROVE  w[k].kind \notin Spelt
<1> DEFINE ta == FieldText(ins.a_field)
           tb == FieldText(ins.b_field)
           e  == 2 + Len(ta)
<1>0. ins.a_field \in FieldOf(I32) /\ ins.b_field \in FieldOf(I32)
  BY DEF InstructionOf
<1>1. /\ \A j \in 1 .. Len(ta) : ta[j].kind \in {"Sign", "Number"}
      /\ \A j \in 1 .. Len(tb) : tb[j].kind \in {"Sign", "Number"}
  BY <1>0, FieldTextFacts
<1>2. Suffix(ins.modifier).kind = "Modifier" /\ Punctuation("Comma").kind = "Comma"
  BY DEF Suffix, Punctuation
<1> DEFINE y == Suffix(ins.modifier)
           c == Punctuation("Comma")
<1>3. /\ Len(ta) \in 2 .. 3 /\ Len(tb) \in 2 .. 3 /\ Len(w) = e + 1 + Len(tb)
      /\ w[2] = y /\ w[e + 1] = c
  BY InstructionTextFacts
<1>4. \A j \in 1 .. Len(ta) : w[2 + j] = ta[j]
  BY InstructionTextFacts
<1>5. \A j \in 1 .. Len(tb) : w[e + 1 + j] = tb[j]
  BY InstructionTextFacts
<1>6. y.kind = "Modifier" /\ c.kind = "Comma"
  BY <1>2
<1> HIDE DEF y, c, ta, tb
<1>7. PICK m \in 2 .. 3, n \in 2 .. 3 : m = Len(ta) /\ n = Len(tb)
  BY <1>3
<1>8. e = 2 + m /\ Len(w) = 2 + m + 1 + n
  BY <1>3, <1>7
<1> HIDE DEF e
<1>9. k \in 2 .. 2 + m + 1 + n
  BY <1>8
<1>10. CASE k = 2
  BY <1>3, <1>6, <1>10 DEF Spelt
<1>11. CASE k = e + 1
  BY <1>3, <1>6, <1>11 DEF Spelt
<1>12. CASE k \in 3 .. 2 + m
  <2>1. k - 2 \in 1 .. m /\ 2 + (k - 2) = k
    BY <1>12
  <2>2. k - 2 \in 1 .. Len(ta)
    BY <1>7, <2>1
  <2>3. w[k] = ta[k - 2]
    BY <1>4, <2>1, <2>2
  <2> QED BY <1>1, <2>2, <2>3 DEF Spelt
<1>13. CASE k \in 2 + m + 2 .. 2 + m + 1 + n
  <2> DEFINE j == k - (2 + m + 1)
  <2>1. j \in 1 .. n /\ e + 1 + j = k
    BY <1>8, <1>13
  <2> HIDE DEF j
  <2>2. j \in 1 .. Len(tb)
    BY <1>7, <2>1
  <2>3. w[k] = tb[j]
    BY <1>5, <2>1, <2>2
  <2> QED BY <1>1, <2>2, <2>3 DEF Spelt
<1>14. k = 2 \/ k = e + 1 \/ k \in 3 .. 2 + m \/ k \in 2 + m + 2 .. 2 + m + 1 + n
  BY <1>8, <1>9
<1> QED BY <1>10, <1>11, <1>12, <1>13, <1>14

\* A line that is the text of an instruction.
Displayed(line) == \E ins \in InstructionOf(I32) : line = InstructionText(ins)

\* It is an instruction for the grammar, with no label among its tokens, and no ORG.
LEMMA DisplayedTokens ==
  ASSUME NEW line, Displayed(line)
  PROVE  /\ line \in Line /\ Len(line) # 0 /\ InstructionEnd(line) = Len(line)
         /\ Tokenize(line) # << >> /\ Tokenize(line)[1] = "Opcode"
         /\ LabelsIn(Tokenize(line)) = {}
         /\ line[1] \notin {Mnemonic("Org"), Mnemonic("End")}
<1> PICK ins \in InstructionOf(I32) : line = InstructionText(ins)
  BY DEF Displayed
<1> DEFINE ta == FieldText(ins.a_field)
           tb == FieldText(ins.b_field)
           x  == Mnemonic(ins.opcode)
<1>1. line \in Line /\ line[1] = x /\ Len(ta) \in 2 .. 3 /\ Len(tb) \in 2 .. 3
      /\ Len(line) = 2 + Len(ta) + 1 + Len(tb)
  BY InstructionTextFacts
<1>2. Begins(line, "Opcode") /\ InstructionEnd(line) = Len(line)
  BY InstructionTextEnds
<1>3. x \notin {Mnemonic("Org"), Mnemonic("End")}
  <2>1. ins.opcode \in Opcode
    BY DEF InstructionOf
  <2>2. "Org" \notin Opcode /\ "End" \notin Opcode
    BY DEF Opcode, Arithmetic, PSpace
  <2> QED BY <2>1, <2>2 DEF Mnemonic
<1> HIDE DEF ta, tb, x
<1>4. Len(line) # 0 /\ Len(line) \in Nat
  <2>1. PICK m \in 2 .. 3, n \in 2 .. 3 : m = Len(ta) /\ n = Len(tb)
    BY <1>1
  <2> QED BY <1>1, <2>1
<1> DEFINE tokens == Ruled(line, "Opcode", Len(line))
<1>5. Statement(line) = tokens
  BY <1>2 DEF Statement, Begins
<1>6. /\ tokens \in Seq(Rules) /\ Len(tokens) = Len(line) /\ tokens[1] = "Opcode"
      /\ \A k \in 2 .. Len(line) : tokens[k] = "Label" => line[k].kind \in Spelt
  <2>1. "Opcode" \in Rules
    BY DEF Rules
  <2> DEFINE n == Len(line)
  <2>2. n \in 0 .. Len(line) /\ n # 0
    BY <1>4
  <2> HIDE DEF n
  <2>3. /\ Ruled(line, "Opcode", n) \in Seq(Rules) /\ Len(Ruled(line, "Opcode", n)) = n
        /\ n # 0 => Ruled(line, "Opcode", n)[1] = "Opcode"
        /\ \A k \in 2 .. n : Ruled(line, "Opcode", n)[k] = "Label" => line[k].kind \in Spelt
    BY <1>1, <2>1, <2>2, RuledTokens
  <2> QED BY <2>2, <2>3 DEF n
<1> HIDE DEF tokens
<1>7. tokens # << >>
  BY <1>4, <1>6, EmptySeq
<1>8. Tokenize(line) = tokens
  <2>1. LoneLabel(line) # << >>
    BY <1>1, <1>2, LoneLabelTokens DEF Begins, Spelt
  <2> QED BY <1>5, <1>7, <2>1 DEF Tokenize, Choice
<1>9. LabelsIn(tokens) = {}
  <2> SUFFICES ASSUME NEW k \in DOMAIN tokens, tokens[k] = "Label" PROVE FALSE
    BY DEF LabelsIn
  <2>1. k \in 1 .. Len(line)
    BY <1>6, LenProperties
  <2>2. CASE k = 1
    BY <1>6, <2>2
  <2>3. CASE k # 1
    <3>1. k \in 2 .. Len(line)
      BY <1>4, <2>1, <2>3
    <3> QED BY <1>6, <3>1, InstructionTextKinds
  <2> QED BY <2>2, <2>3
<1> QED BY <1>1, <1>2, <1>3, <1>4, <1>6, <1>7, <1>8, <1>9

\* Put together, the words of a line are the line.
LEMMA WordsFlattened ==
  ASSUME NEW line \in Line
  PROVE  FlattenSeq([k \in DOMAIN line |-> << line[k] >>]) = line
<1> DEFINE parts == [k \in DOMAIN line |-> << line[k] >>]
           n     == Len(line)
<1>1. n \in Nat /\ DOMAIN line = 1 .. n /\ line \in Seq(Word) /\ \A k \in 1 .. n : line[k] \in Word
  BY LenProperties, ElementOfSeq DEF Line
<1>2. \A k \in 1 .. n : << line[k] >> \in Seq(Word) /\ Len(<< line[k] >>) = 1 /\ << line[k] >>[1] = line[k]
  BY <1>1, OneSeq
<1>3. parts \in Seq(Seq(Word)) /\ Len(parts) = n
  <2>1. parts \in [1 .. n -> Seq(Word)]
    BY <1>1, <1>2
  <2> HIDE DEF parts
  <2> QED BY <1>1, <2>1, TableSeq
<1>4. \A k \in 1 .. n : parts[k] = << line[k] >>
  BY <1>1
<1> HIDE DEF parts
<1> DEFINE f == CHOOSE g : Flattens(g, parts)
<1>5. Flattens(f, parts)
  BY <1>3, FlattensExists
<1>6. n # 0 => FlattenSeq(parts) = f[n]
  BY <1>3 DEF FlattenSeq, Flattens
<1>7. n = 0 => FlattenSeq(parts) = line
  <2>1. ASSUME n = 0 PROVE parts = << >> /\ line = << >>
    BY <1>1, <1>3, <2>1, EmptySeq
  <2> QED BY <1>3, <2>1 DEF FlattenSeq
<1> HIDE DEF f
<1>8. \A k \in 1 .. n : f[k] = IF k = 1 THEN parts[k] ELSE f[k - 1] \o parts[k]
  BY <1>3, <1>5 DEF Flattens
<1> DEFINE Good(k) == f[k] \in Seq(Word) /\ Len(f[k]) = k /\ \A j \in 1 .. k : f[k][j] = line[j]
           T == { m \in Nat : m + 1 <= n => Good(m + 1) }
<1>9. 0 \in T
  <2> SUFFICES ASSUME 1 <= n PROVE Good(1)
    OBVIOUS
  <2>1. 1 \in 1 .. n
    BY <1>1
  <2>2. f[1] = << line[1] >>
    BY <1>4, <1>8, <2>1
  <2> QED BY <1>2, <2>1, <2>2
<1>10. ASSUME NEW m \in Nat, m \in T
       PROVE  m + 1 \in T
  <2> SUFFICES ASSUME m + 1 + 1 <= n PROVE Good(m + 1 + 1)
    BY <1>10
  <2> DEFINE l == m + 1
             k == m + 1 + 1
  <2>1. l \in 1 .. n /\ k \in 1 .. n /\ k # 1 /\ k - 1 = l /\ k = l + 1
    BY <1>1
  <2>2. Good(l)
    BY <1>1, <1>10
  <2> HIDE DEF l, k
  <2>3. f[k] = f[l] \o parts[k]
    BY <1>8, <2>1
  <2> DEFINE s == f[l]
             t == parts[k]
  <2>4. s \in Seq(Word) /\ Len(s) = l /\ \A j \in 1 .. l : s[j] = line[j]
    BY <2>2
  <2>5. t \in Seq(Word) /\ Len(t) = 1 /\ t[1] = line[k]
    BY <1>2, <1>4, <2>1
  <2> HIDE DEF s, t
  <2>6. /\ s \o t \in Seq(Word) /\ Len(s \o t) = Len(s) + Len(t)
        /\ \A j \in 1 .. Len(s) + Len(t) : (s \o t)[j] = IF j <= Len(s) THEN s[j] ELSE t[j - Len(s)]
    <3>1. s \in Seq(Word) /\ t \in Seq(Word)
      BY <2>4, <2>5
    <3> QED BY <3>1, ConcatProperties
  <2>7. ASSUME NEW j \in 1 .. k
        PROVE  (s \o t)[j] = line[j]
    <3>1. j \in 1 .. Len(s) + Len(t)
      BY <2>1, <2>4, <2>5
    <3>2. CASE j <= l
      <4>1. j \in 1 .. l
        BY <2>1, <3>2
      <4> QED BY <2>4, <2>6, <3>1, <3>2, <4>1
    <3>3. CASE ~ (j <= l)
      <4>1. j = k /\ j - Len(s) = 1
        BY <2>1, <2>4, <3>3
      <4> QED BY <2>4, <2>5, <2>6, <3>1, <3>3, <4>1
    <3> QED BY <3>2, <3>3
  <2>8. Len(s \o t) = k
    BY <2>1, <2>4, <2>5, <2>6
  <2>9. Good(k)
    BY <2>3, <2>6, <2>7, <2>8 DEF s, t
  <2> QED BY <2>9 DEF k
<1>11. \A m \in Nat : m \in T
  <2> HIDE DEF T
  <2> QED BY <1>9, <1>10, NatSetInduction
<1>12. CASE n # 0
  <2>1. PICK m \in Nat : m + 1 = n
    <3>1. n - 1 \in Nat /\ (n - 1) + 1 = n
      BY <1>1, <1>12
    <3> QED BY <3>1
  <2>2. m + 1 <= n => Good(m + 1)
    BY <1>11
  <2>3. Good(n)
    <3>1. m + 1 <= n
      BY <1>1, <2>1
    <3> HIDE DEF Good
    <3> QED BY <2>1, <2>2, <3>1
  <2>4. f[n] = line
    BY <1>1, <2>3, SeqEqual
  <2> QED BY <1>6, <1>12, <2>4 DEF parts
<1>13. CASE n = 0
  BY <1>7, <1>13 DEF parts
<1> QED BY <1>12, <1>13

\* A line without a label among its tokens is left as it is.
LEMMA NothingSubstituted ==
  ASSUME NEW line \in Line, LabelsIn(Tokenize(line)) = {}, NEW labels, NEW from_offset
  PROVE  SubstituteOffsetsInLine(line, labels, from_offset) = line
<1> DEFINE known == { k \in LabelsIn(Tokenize(line)) :
                        labels[line[k].name].kind \in {"AbsoluteOffset", "RelativeOffset"} }
<1>1. known = {}
  OBVIOUS
<1>2. SubstituteOffsetsInLine(line, labels, from_offset)
        = OffsetsPut(line, known, labels, from_offset)
  BY DEF SubstituteOffsetsInLine
<1> HIDE DEF known
<1>3. OffsetsPut(line, {}, labels, from_offset) = FlattenSeq([k \in DOMAIN line |-> << line[k] >>])
  BY DEF OffsetsPut
<1> QED BY <1>1, <1>2, <1>3, WordsFlattened

\* So are lines that are displayed.
LEMMA NoneSubstituted ==
  ASSUME NEW ls \in Seq(Line), \A k \in 1 .. Len(ls) : Displayed(ls[k]), NEW labels
  PROVE  SubstituteOffsets(ls, labels) = ls
<1> DEFINE Alone(k)    == Tokenize(ls[k]) = << "Label" >>
           Counted(k)  == ~ Alone(k) /\ ~ IsOrg(ls[k])
           Stripped(k) == IF Tokenize(ls[k])[1] = "Label" THEN Tail(ls[k]) ELSE ls[k]
           Before(k)   == { j \in 1 .. k - 1 : Counted(j) }
           Put(k)      == IF Alone(k) THEN << >>
                          ELSE SubstituteOffsetsInLine(Stripped(k), labels, Cardinality(Before(k)))
           new == [k \in DOMAIN ls |-> Put(k)]
<1>1. SubstituteOffsets(ls, labels) = new
  BY DEF SubstituteOffsets
<1>2. Len(ls) \in Nat /\ DOMAIN ls = 1 .. Len(ls) /\ ls = [k \in DOMAIN ls |-> ls[k]]
  BY LenProperties
<1>3. ASSUME NEW k \in 1 .. Len(ls)
      PROVE  Put(k) = ls[k]
  <2>1. /\ ls[k] \in Line /\ Tokenize(ls[k])[1] = "Opcode" /\ LabelsIn(Tokenize(ls[k])) = {}
    BY DisplayedTokens
  <2>2. ~ Alone(k)
    <3>1. << "Label" >>[1] = "Label"
      OBVIOUS
    <3> DEFINE one == << "Label" >>
    <3> HIDE DEF one
    <3> QED BY <2>1, <3>1 DEF one
  <2>3. Stripped(k) = ls[k]
    BY <2>1
  <2> DEFINE n == Cardinality(Before(k))
  <2>4. Put(k) = SubstituteOffsetsInLine(ls[k], labels, n)
    BY <2>2, <2>3
  <2> HIDE DEF n, Put
  <2> QED BY <2>1, <2>4, NothingSubstituted
<1> HIDE DEF Put
<1>4. new = ls
  BY <1>2, <1>3
<1> QED BY <1>1, <1>4

\* The expansion of what is displayed counts the instructions and changes nothing.
LEMMA DisplayedStep ==
  ASSUME CollectingOK(Word), Step, \A k \in 1 .. Len(lines) : Displayed(lines[k]),
         LabelsIn(Tokenize(origin)) = {}
  PROVE  phase' \in {"collecting", "expanded"} /\ lines' = lines /\ origin' = origin
<1>0. Closed(Word) /\ phase = "collecting"
  BY AllWords, StepCollects
<1>1. ASSUME Collecting
      PROVE  Tokens[1] = "Opcode" /\ LabelTokens = {}
  <2>1. i \in 1 .. Len(lines) /\ Current = lines[i]
    BY <1>0, <1>1, CurrentFacts
  <2>2. Displayed(Current)
    BY <2>1
  <2> QED BY <2>2, DisplayedTokens DEF Tokens, LabelTokens
<1>2. ASSUME NEW rule, First(rule)
      PROVE  rule = "Opcode"
  BY <1>0, <1>1, <1>2, FirstFacts
<1>3. ASSUME NEW rule, Second(rule)
      PROVE  FALSE
  BY <1>0, <1>1, <1>3, SecondFacts
<1>4. CASE Spin
  BY <1>0, <1>4 DEF Spin, vars
<1>5. ~ (ForExpands \/ ForPanics \/ ForOpens)
  BY <1>2, <1>3 DEF ForExpands, ForHasLabel, ForPanics, ForOpens, IsFor
<1>6. ~ (RofPanics \/ RofRepeats)
  BY <1>2 DEF RofPanics, RofRepeats
<1>7. ~ (EquDefined \/ EquContinues)
  BY <1>2, <1>3 DEF EquDefined, EquContinues
<1>8. ~ (EquExpands \/ LabelExpands \/ LabelStripped \/ LabelAlone)
  <2>1. ~ LabelLine
    BY <1>2 DEF LabelLine
  <2> QED BY <2>1 DEF EquExpands, LabelExpands, LabelHasLabel, LabelStripped, LabelAlone
<1>9. ~ InstructionExpands
  <2> SUFFICES ASSUME First("Opcode"), Expandable(ResolvedHere) # {} PROVE FALSE
    BY DEF InstructionExpands, InstructionHasLabel
  <2>1. LabelTokens = {}
    BY <1>0, <1>1, FirstFacts
  <2> QED BY <2>1 DEF Expandable
<1>10. CASE InstructionCounted
  BY <1>0, <1>10 DEF InstructionCounted, Round
<1>11. CASE Substitute
  <2> DEFINE labels == WithEqu(collector)
  <2>1. /\ phase' = "expanded" /\ lines' = SubstituteOffsets(lines, labels)
        /\ origin' = SubstituteOffsetsInLine(origin, labels, 0)
    BY <1>11 DEF Substitute
  <2> HIDE DEF labels
  <2>2. lines \in Seq(Line) /\ origin \in Line
    BY DEF CollectingOK, ExpansionOK, Texts, Line
  <2> QED BY <2>1, <2>2, NoneSubstituted, NothingSubstituted
<1> QED BY <1>4, <1>5, <1>6, <1>7, <1>8, <1>9, <1>10, <1>11 DEF Step

-----------------------------------------------------------------------------
(* The origin that is displayed.                                           *)

\* Its line is an instruction for the grammar, of which the number is cut out; that has
\* no token, and is the origin.
LEMMA OriginLine ==
  ASSUME NEW n \in 0 .. MaxInt, NEW line, line = << Mnemonic("Org"), Number(n) >>,
         NEW number, number = << Number(n) >>
  PROVE  /\ number \in Line /\ line \in Line /\ line # << >> /\ line[1] = Mnemonic("Org")
         /\ InstructionEnd(line) = 2 /\ Remainder(line) = number
         /\ LabelsIn(Tokenize(number)) = {}
         /\ EvaluateExpression(number) = [panics |-> FALSE, value |-> n, error |-> ""]
<1> DEFINE x == Mnemonic("Org")
           y == Number(n)
<1>1. /\ x \in Word /\ x.kind = "Opcode" /\ y \in Word /\ y.kind = "Number"
  <2>1. x \in Word
    BY MnemonicsAssumption DEF Mnemonic, Word, Spelt
  <2>2. n \in Nat
    BY MaxIntAssumption
  <2>3. y \in Word
    BY <2>2, AllWords DEF Closed
  <2>4. x.kind = "Opcode" /\ y.kind = "Number"
    BY DEF Mnemonic, Number
  <2> QED BY <2>1, <2>3, <2>4
<1>2. n \in I32 /\ n # MinInt /\ ~ (n < 0) /\ n \in Nat
  BY MaxIntAssumption DEF I32, MinInt
<1>3. Digits(n) = number
  BY <1>2 DEF Digits
<1>4. line = << x, y >> /\ number = << y >>
  OBVIOUS
<1> HIDE DEF x, y
<1>5. line \in Seq(Word) /\ Len(line) = 2 /\ line[1] = x /\ line[2] = y /\ line # << >>
  BY <1>1, <1>4
<1>6. number \in Seq(Word) /\ Len(number) = 1 /\ number[1] = y /\ number # << >>
  BY <1>1, <1>4, OneSeq, EmptySeq
<1>7. ExpressionEnd(number) = 1
  <2>1. number \in Line /\ Len(number) <= Len(number) /\ \A k \in 1 .. Len(number) : number[k] = number[k]
    BY <1>6 DEF Line
  <2>2. ExpressionEnd(number) = Len(number)
    BY <1>2, <1>3, <2>1, DigitsEnd
  <2> QED BY <1>6, <2>2
<1>8. From(number, 1) = number
  BY <1>6, SubSeqFull DEF From
<1>9. FieldEnd(number) = 1
  <2>1. ModeEnd(number) = 0
    BY <1>1, <1>6 DEF ModeEnd, HasMode, Begins
  <2> QED BY <1>7, <1>8, <2>1 DEF FieldEnd, EndBehind
<1>10. From(line, 2) = number /\ Tail(line) = number
  <2>1. /\ From(line, 2) \in Seq(Word) /\ Len(From(line, 2)) = 1
        /\ From(line, 2)[1] = y
    <3>1. 2 \in Nat /\ Len(line) \in Nat /\ 1 <= 2 /\ Len(line) <= Len(line)
      BY <1>5
    <3>2. /\ SubSeq(line, 2, Len(line)) \in Seq(Word)
          /\ Len(SubSeq(line, 2, Len(line))) = IF 2 <= Len(line) THEN Len(line) - 2 + 1 ELSE 0
          /\ \A k \in 1 .. Len(SubSeq(line, 2, Len(line))) : SubSeq(line, 2, Len(line))[k] = line[2 + k - 1]
      BY <1>5, <3>1, PartSeq
    <3> DEFINE s == SubSeq(line, 2, Len(line))
    <3> HIDE DEF s
    <3>3. Len(s) = 1 /\ 1 \in 1 .. Len(s) /\ 2 + 1 - 1 = 2
      BY <1>5, <3>2 DEF s
    <3>4. s \in Seq(Word) /\ s[1] = line[2]
      BY <3>2, <3>3 DEF s
    <3> QED BY <1>5, <3>3, <3>4 DEF From, s
  <2> DEFINE s == From(line, 2)
  <2> HIDE DEF s
  <2>2. s = number
    <3>1. s \in Seq(Word) /\ Len(s) = 1 /\ s[1] = y
      BY <2>1 DEF s
    <3>2. \A k \in 1 .. Len(s) : s[k] = number[k]
      BY <1>6, <3>1
    <3> QED BY <1>6, <3>1, <3>2, SeqEqual
  <2> DEFINE t == Tail(line)
  <2>3. t \in Seq(Word) /\ Len(t) = 1 /\ \A k \in 1 .. Len(t) : t[k] = line[k + 1]
    BY <1>5, HeadTailProperties
  <2> HIDE DEF t
  <2>4. \A k \in 1 .. Len(t) : t[k] = number[k]
    BY <1>5, <1>6, <2>3
  <2>5. t = number
    BY <1>6, <2>3, <2>4, SeqEqual
  <2> QED BY <2>2, <2>5 DEF s, t
<1>11. OperationEnd(line) = 1
  BY <1>1, <1>6, <1>10 DEF OperationEnd, Begins
<1>12. AEnd(line) = 2
  <2>1. AEnd(line) = EndBehind(1, FieldEnd(From(line, 2)))
    BY <1>11 DEF AEnd
  <2> QED BY <1>9, <1>10, <2>1 DEF EndBehind
<1>13. BEnd(line, 2) = 0
  <2>1. From(line, 3) = << >>
    BY <1>5 DEF From
  <2> QED BY <2>1 DEF BEnd, Begins
<1>14. InstructionEnd(line) = 2
  <2>1. Begins(line, "Opcode")
    BY <1>1, <1>5 DEF Begins
  <2>2. Max({2, 0}) = 2
    BY DEF Max
  <2> QED BY <1>12, <1>13, <2>1, <2>2 DEF InstructionEnd, FieldsEnd
<1>15. Remainder(line) = number
  <2> DEFINE S == { k \in 2 .. 2 : Rule(line[k]) # "" }
  <2>1. Rule(line[2]) # ""
    BY <1>1, <1>5 DEF Rule, Spelt
  <2>2. S = {2}
    <3>1. \A k : k \in 2 .. 2 <=> k = 2
      OBVIOUS
    <3>2. \A k : k \in S <=> k = 2
      BY <2>1, <3>1, Zenon
    <3> HIDE DEF S
    <3> QED BY <3>2
  <2>3. Remainder(line) = From(line, FirstOf(S))
    BY <1>14 DEF Remainder
  <2> HIDE DEF S
  <2>4. FirstOf(S) = 2
    BY <2>2 DEF FirstOf
  <2> QED BY <1>10, <2>3, <2>4
<1>16. LabelsIn(Tokenize(number)) = {}
  <2>1. LoneLabel(number) = << >>
    BY <1>1, <1>6 DEF LoneLabel, Spelt
  <2>2. Tokenize(number) = << >>
    BY <2>1 DEF Tokenize
  <2>3. DOMAIN << >> = {}
    OBVIOUS
  <2> QED BY <2>2, <2>3 DEF LabelsIn
<1>17. EvaluateExpression(number) = [panics |-> FALSE, value |-> n, error |-> ""]
  <2>1. SubSeq(number, 1, 1) = number
    BY <1>6, SubSeqFull
  <2>2. Evaluate(number) = Is(n)
    BY <1>2, <1>3, DigitsValue
  <2>3. EvaluateExpression(number)
          = [panics |-> Is(n).panics, value |-> Is(n).value,
             error  |-> IF Is(n).value < 0 THEN "InvalidOrigin" ELSE ""]
    <3> DEFINE e == ExpressionEnd(number)
               v == Evaluate(SubSeq(number, 1, e))
    <3>1. e # 0 /\ v = Is(n)
      <4>1. e = 1
        BY <1>7
      <4> HIDE DEF e
      <4>2. SubSeq(number, 1, e) = number
        BY <2>1, <4>1
      <4>3. v = Evaluate(number)
        BY <4>2
      <4>4. Evaluate(number) = Is(n)
        BY <1>2, <1>3, <2>2
      <4> HIDE DEF v
      <4> QED BY <4>1, <4>3, <4>4
    <3>2. EvaluateExpression(number)
            = IF e = 0 THEN NoExpression
              ELSE [panics |-> v.panics, value |-> v.value,
                    error  |-> IF v.value < 0 THEN "InvalidOrigin" ELSE ""]
      BY DEF EvaluateExpression
    <3> HIDE DEF e, v
    <3> QED BY <3>1, <3>2
  <2>4. Is(n).panics = FALSE /\ Is(n).value = n
    BY DEF Is
  <2> QED BY <1>2, <2>3, <2>4
<1> QED BY <1>5, <1>6, <1>14, <1>15, <1>16, <1>17 DEF Line, x

-----------------------------------------------------------------------------
(* The lines of a display.                                                 *)

\* Every member of a set is put into the sequence.
LEMMA SetToSeqAll ==
  ASSUME NEW S, IsFiniteSet(S)
  PROVE  \A x \in S : \E k \in 1 .. Len(SetToSeq(S)) : SetToSeq(S)[k] = x
<1> DEFINE n == Cardinality(S)
           f == SetToSeq(S)
<1>1. n \in Nat /\ ExistsBijection(1 .. n, S)
  BY FS_CardinalityType
<1>2. \E g \in [1 .. n -> S] : IsInjective(g)
  BY <1>1 DEF ExistsBijection, Bijection, Injection
<1>3. f = CHOOSE g \in [1 .. n -> S] : IsInjective(g)
  BY DEF SetToSeq
<1>4. f \in [1 .. n -> S] /\ IsInjective(f)
  BY <1>2, <1>3
<1>5. IsFiniteSet(1 .. n) /\ Cardinality(1 .. n) = n
  <2>1. 1 \in Int /\ n \in Int
    BY <1>1
  <2>2. IsFiniteSet(1 .. n) /\ Cardinality(1 .. n) = IF 1 > n THEN 0 ELSE n - 1 + 1
    BY <2>1, FS_Interval
  <2> HIDE DEF n
  <2> QED BY <1>1, <2>2
<1> HIDE DEF f
<1>6. f \in Surjection(1 .. n, S)
  <2>1. f \in Injection(1 .. n, S)
    BY <1>4 DEF Injection
  <2> DEFINE D == 1 .. n
  <2> HIDE DEF D
  <2>2. f \in Injection(D, S) /\ IsFiniteSet(D) /\ Cardinality(D) = Cardinality(S)
    BY <1>5, <2>1 DEF D
  <2>3. f \in Surjection(D, S)
    BY <2>2, FS_Injection
  <2> QED BY <2>3 DEF D
<1>7. Len(f) = n
  <2> HIDE DEF n
  <2> QED BY <1>1, <1>4, TableSeq
<1>8. \A x \in S : \E k \in 1 .. n : f[k] = x
  BY <1>6 DEF Surjection
<1> QED BY <1>7, <1>8 DEF f

\* The lines of the directives: comments, one for each value.
Notes(text, m, n) ==
  /\ \A k \in 1 .. n :
       /\ text[k].words = << >>
       /\ \E d \in Directives : m[d] # NoValue /\ text[k].comment = << d, m[d] >>
  /\ \A d \in Directives :
       m[d] # NoValue => \E k \in 1 .. n : text[k].comment = << d, m[d] >>

LEMMA MetadataTextLines ==
  ASSUME NEW m \in MetadataType
  PROVE  Notes(MetadataText(m), m, Len(MetadataText(m)))
<1> DEFINE R == { d \in Directives : m[d] # NoValue }
           Note(d) == [words |-> << >>, comment |-> << d, m[d] >>]
           T == { Note(d) : d \in R }
<1>1. IsFiniteSet(R)
  BY DirectivesAssumption, FS_Subset
<1>2. IsFiniteSet(T)
  <2> DEFINE f == [d \in R |-> Note(d)]
  <2> HIDE DEF R, Note
  <2>1. f \in [R -> T] /\ \A t \in T : \E d \in R : f[d] = t
    OBVIOUS
  <2> HIDE DEF f, T
  <2>2. f \in Surjection(R, T)
    BY <2>1 DEF Surjection
  <2> QED BY <1>1, <2>2, FS_Surjection
<1> DEFINE s == SetToSeq(T)
<1>3. MetadataText(m) = s
  BY DEF MetadataText
<1> HIDE DEF T
<1>4. s \in Seq(T) /\ \A x \in T : \E k \in 1 .. Len(s) : s[k] = x
  BY <1>2, SetToSeqType, SetToSeqAll
<1> HIDE DEF s
<1>5. \A d \in R : Note(d).words = << >> /\ Note(d).comment = << d, m[d] >>
  OBVIOUS
<1> HIDE DEF Note
<1>6. ASSUME NEW k \in 1 .. Len(s)
      PROVE  \E d \in R : s[k] = Note(d)
  <2>1. s[k] \in T
    BY <1>4, ElementOfSeq
  <2> QED BY <2>1 DEF T
<1>7. \A d \in R : \E k \in 1 .. Len(s) : s[k] = Note(d)
  BY <1>4 DEF T
<1>8. Notes(s, m, Len(s))
  <2>1. ASSUME NEW k \in 1 .. Len(s)
        PROVE  /\ s[k].words = << >>
               /\ \E d \in Directives : m[d] # NoValue /\ s[k].comment = << d, m[d] >>
    <3>1. PICK d \in R : s[k] = Note(d)
      BY <1>6
    <3>2. s[k].words = << >> /\ s[k].comment = << d, m[d] >>
      BY <1>5, <3>1
    <3> QED BY <3>2
  <2>2. ASSUME NEW d \in Directives, m[d] # NoValue
        PROVE  \E k \in 1 .. Len(s) : s[k].comment = << d, m[d] >>
    <3>1. d \in R
      BY <2>2
    <3>2. PICK k \in 1 .. Len(s) : s[k] = Note(d)
      BY <1>7, <3>1
    <3>3. s[k].comment = << d, m[d] >>
      BY <1>5, <3>1, <3>2
    <3> QED BY <3>3
  <2> QED BY <2>1, <2>2 DEF Notes
<1> QED BY <1>3, <1>8

\* The number of a warrior that is displayed, and the line that it is on.
OrgLine(w) == Len(MetadataText(w.metadata)) + 1
OrgText(w) == << Number(OriginOrDefault(w.origin)) >>

\* The comments come first, then the origin, then the instructions.
DisplayLines(text, w, n) ==
  /\ n \in Nat /\ Len(text) = n + 1 + Len(w.instructions)
  /\ Notes(text, w.metadata, n)
  /\ text[n + 1].words = << Mnemonic("Org"), Number(OriginOrDefault(w.origin)) >>
  /\ text[n + 1].comment = << >>
  /\ \A k \in 1 .. Len(w.instructions) :
       /\ text[n + 1 + k].words = InstructionText(w.instructions[k])
       /\ text[n + 1 + k].comment = << >>

LEMMA DisplayHasLines ==
  ASSUME NEW w \in ResultType
  PROVE  DisplayLines(Display(w), w, Len(MetadataText(w.metadata)))
<1> DEFINE org     == [words |-> << Mnemonic("Org"), Number(OriginOrDefault(w.origin)) >>,
                       comment |-> << >>]
           Code(k) == [words |-> InstructionText(w.instructions[k]), comment |-> << >>]
           code    == [k \in DOMAIN w.instructions |-> Code(k)]
           notes   == MetadataText(w.metadata)
           n       == Len(notes)
           c       == Len(w.instructions)
           one     == << org >>
           s       == notes \o one
           text    == s \o code
<1>1. w.metadata \in MetadataType /\ w.instructions \in Seq(InstructionOf(I32))
  BY DEF ResultType
<1>2. Notes(notes, w.metadata, n)
  BY <1>1, MetadataTextLines
<1>3. notes \in Seq(Raw)
  BY <1>1, MetadataTextType
<1>4. c \in Nat /\ DOMAIN w.instructions = 1 .. c
  BY <1>1, LenProperties
<1>5. Display(w) = text
  BY DEF Display
<1> DEFINE V == Raw \cup {org} \cup { Code(k) : k \in 1 .. c }
<1>6. code \in [1 .. c -> V] /\ \A k \in 1 .. c : code[k] = Code(k)
  BY <1>4
<1>7. code \in Seq(V) /\ Len(code) = c /\ \A k \in 1 .. c : code[k] = Code(k)
  <2> HIDE DEF code, V, Code, c
  <2> QED BY <1>4, <1>6, TableSeq
<1>8. \A k \in 1 .. c : Code(k).words = InstructionText(w.instructions[k]) /\ Code(k).comment = << >>
  OBVIOUS
<1>9. /\ org.words = << Mnemonic("Org"), Number(OriginOrDefault(w.origin)) >>
      /\ org.comment = << >> /\ org \in V
  OBVIOUS
<1>10. notes \in Seq(V) /\ n \in Nat
  <2>1. n \in Nat /\ notes \in [1 .. n -> Raw] /\ Raw \subseteq V
    BY <1>3, LenProperties
  <2> HIDE DEF V, notes
  <2>2. notes \in [1 .. n -> V]
    BY <2>1
  <2> HIDE DEF n
  <2> QED BY <2>1, <2>2, TableSeq
<1> HIDE DEF V, notes, n, code, Code, c, org
<1>11. one \in Seq(V) /\ Len(one) = 1 /\ one[1] = org
  BY <1>9, OneSeq
<1> HIDE DEF one
<1>12. /\ s \in Seq(V) /\ Len(s) = n + 1
       /\ \A k \in 1 .. n + 1 : s[k] = IF k <= n THEN notes[k] ELSE one[k - n]
  <2>0. Len(notes) = n
    BY DEF n
  <2>1. notes \in Seq(V) /\ one \in Seq(V)
    BY <1>10, <1>11
  <2>2. /\ s \in Seq(V) /\ Len(s) = Len(notes) + Len(one)
        /\ \A k \in 1 .. Len(notes) + Len(one) :
             s[k] = IF k <= Len(notes) THEN notes[k] ELSE one[k - Len(notes)]
    BY <2>1, ConcatProperties
  <2> HIDE DEF s
  <2> QED BY <1>11, <2>0, <2>2
<1> HIDE DEF s
<1>13. /\ text \in Seq(V) /\ Len(text) = n + 1 + c
       /\ \A k \in 1 .. n + 1 + c : text[k] = IF k <= n + 1 THEN s[k] ELSE code[k - (n + 1)]
  <2>1. s \in Seq(V) /\ code \in Seq(V)
    BY <1>7, <1>12
  <2>2. /\ text \in Seq(V) /\ Len(text) = Len(s) + Len(code)
        /\ \A k \in 1 .. Len(s) + Len(code) :
             text[k] = IF k <= Len(s) THEN s[k] ELSE code[k - Len(s)]
    BY <2>1, ConcatProperties
  <2> HIDE DEF text
  <2> QED BY <1>7, <1>12, <2>2
<1> HIDE DEF text
<1>14. ASSUME NEW k \in 1 .. n
       PROVE  text[k] = notes[k]
  <2>1. k \in 1 .. n + 1 /\ k \in 1 .. n + 1 + c /\ k <= n /\ k <= n + 1
    BY <1>4, <1>10
  <2> QED BY <1>12, <1>13, <2>1
<1>15. text[n + 1] = org
  <2>1. /\ n + 1 \in 1 .. n + 1 /\ n + 1 \in 1 .. n + 1 + c /\ ~ (n + 1 <= n) /\ n + 1 <= n + 1
        /\ (n + 1) - n = 1
    BY <1>4, <1>10
  <2> QED BY <1>11, <1>12, <1>13, <2>1
<1>16. ASSUME NEW k \in 1 .. c
       PROVE  text[n + 1 + k] = Code(k)
  <2>1. /\ n + 1 + k \in 1 .. n + 1 + c /\ ~ (n + 1 + k <= n + 1) /\ (n + 1 + k) - (n + 1) = k
    BY <1>4, <1>10
  <2> QED BY <1>7, <1>13, <2>1
<1>17. Notes(text, w.metadata, n)
  <2> HIDE DEF text
  <2>1. \A k \in 1 .. n : /\ text[k].words = << >>
                          /\ \E d \in Directives : /\ w.metadata[d] # NoValue
                                                   /\ text[k].comment = << d, w.metadata[d] >>
    BY <1>2, <1>14 DEF Notes
  <2>2. \A d \in Directives : w.metadata[d] # NoValue =>
          \E k \in 1 .. n : text[k].comment = << d, w.metadata[d] >>
    BY <1>2, <1>14 DEF Notes
  <2> QED BY <2>1, <2>2 DEF Notes
<1>18. DisplayLines(text, w, n)
  <2>1. \A k \in 1 .. c : /\ text[n + 1 + k].words = InstructionText(w.instructions[k])
                          /\ text[n + 1 + k].comment = << >>
    BY <1>8, <1>16
  <2>2. /\ text[n + 1].words = << Mnemonic("Org"), Number(OriginOrDefault(w.origin)) >>
        /\ text[n + 1].comment = << >>
    BY <1>9, <1>15
  <2> QED BY <1>10, <1>13, <1>17, <2>1, <2>2 DEF DisplayLines, c
<1> QED BY <1>5, <1>18 DEF n, notes

-----------------------------------------------------------------------------
(* Parsing a display.                                                      *)

\* While it is read: the directives of the lines behind are noted and no others, the
\* origin is taken behind its line, and the instructions behind that.
ReadsBack(w) ==
  /\ next <= Len(source.text) + 1
  /\ \A d \in Directives : metadata[d] \in {NoValue, w.metadata[d]}
  /\ \A k \in 1 .. next - 1 : \A d \in Directives :
        source.text[k].comment = << d, w.metadata[d] >> => metadata[d] = w.metadata[d]
  /\ origin = IF next > OrgLine(w) THEN OrgText(w) ELSE << >>
  /\ Len(lines) = IF next > OrgLine(w) THEN next - 1 - OrgLine(w) ELSE 0
  /\ instructions = << >>

\* Afterwards: what is parsed and what is still text make up the warrior.
AssemblesBack(w) ==
  /\ metadata = w.metadata /\ origin = OrgText(w)
  /\ Len(instructions) + Len(lines) = Len(w.instructions)
  /\ \A k \in 1 .. Len(instructions) : instructions[k] = w.instructions[k]

LinesBack(w) ==
  \A k \in 1 .. Len(lines) : lines[k] = InstructionText(w.instructions[Len(instructions) + k])

Back(w) ==
  /\ phase \in {"reading", "collecting", "expanded"}
  /\ source.text = Display(w)
  /\ phase = "reading" => ReadsBack(w)
  /\ phase # "reading" => AssemblesBack(w)
  /\ LinesBack(w)

\* The inductive invariant.  The display of a warrior with an i32::MIN may be refused.
BackIInv ==
  /\ Len(parsed) <= 2
  /\ Len(parsed) = 2 => phase = "parsed"
  /\ phase = "parsed" => Len(parsed) # 0
  /\ DisplayReadsBack
  /\ (Len(parsed) = 1 /\ phase # "parsed" /\ ~ HasMinInt(parsed[1])) => Back(parsed[1])

\* What is known of a display that is read: its lines.
LEMMA BackLines ==
  ASSUME NEW w \in ResultType, Back(w), NEW n, n = Len(MetadataText(w.metadata))
  PROVE  /\ DisplayLines(source.text, w, n) /\ n \in Nat /\ OrgLine(w) = n + 1
         /\ Len(w.instructions) \in Nat /\ OriginOrDefault(w.origin) \in 0 .. MaxInt
         /\ \A k \in 1 .. Len(w.instructions) : w.instructions[k] \in InstructionOf(I32)
<1>1. DisplayLines(source.text, w, n)
  BY DisplayHasLines DEF Back
<1>2. n \in Nat /\ OrgLine(w) = n + 1
  BY <1>1 DEF DisplayLines, OrgLine
<1>3. w.instructions \in Seq(InstructionOf(I32)) /\ w.origin \in {NoOrigin} \cup 0 .. MaxInt
  BY DEF ResultType
<1>4. OriginOrDefault(w.origin) \in 0 .. MaxInt
  BY <1>3, MaxIntAssumption DEF OriginOrDefault
<1> QED BY <1>1, <1>2, <1>3, <1>4, LenProperties, ElementOfSeq

\* The directive of a line is noted, if it has one.
LEMMA NoteRead ==
  ASSUME ParserIInv, NEW w \in ResultType, Back(w), Reading,
         NEW comment, comment = source.text[next].comment,
         comment # << >> => \E d \in Directives : comment = << d, w.metadata[d] >>,
         metadata' = Noted(metadata, comment), source' = source, next' = next + 1
  PROVE  /\ \A d \in Directives : metadata'[d] \in {NoValue, w.metadata[d]}
         /\ \A k \in 1 .. next' - 1 : \A d \in Directives :
              source'.text[k].comment = << d, w.metadata[d] >> => metadata'[d] = w.metadata[d]
<1>1. metadata \in MetadataType /\ ReadsBack(w)
  BY DEF ParserIInv, Back, Reading
<1>2. /\ \A d \in Directives : metadata[d] \in {NoValue, w.metadata[d]}
      /\ \A k \in 1 .. next - 1 : \A d \in Directives :
           source.text[k].comment = << d, w.metadata[d] >> => metadata[d] = w.metadata[d]
  BY <1>1 DEF ReadsBack
<1>3. next \in Nat
  BY ReadingFacts
<1>4. ASSUME NEW d \in Directives
      PROVE  \/ metadata'[d] = metadata[d] /\ comment # << d, w.metadata[d] >>
             \/ metadata'[d] = w.metadata[d]
  <2>1. CASE comment = << >>
    <3>1. << d, w.metadata[d] >>[1] = d /\ << d, w.metadata[d] >> # << >>
      OBVIOUS
    <3> QED BY <2>1, <3>1 DEF Noted
  <2>2. CASE comment # << >>
    <3>1. PICK e \in Directives : comment = << e, w.metadata[e] >>
      BY <2>2
    <3>2. comment[1] = e /\ comment[2] = w.metadata[e]
      BY <3>1
    <3>3. metadata' = [metadata EXCEPT ![e] = w.metadata[e]]
      BY <2>2, <3>2 DEF Noted
    <3>4. CASE d = e
      BY <1>1, <3>3, <3>4 DEF MetadataType
    <3>5. CASE d # e
      <4>1. metadata'[d] = metadata[d]
        BY <1>1, <3>3, <3>5 DEF MetadataType
      <4>2. << d, w.metadata[d] >>[1] = d
        OBVIOUS
      <4> QED BY <3>2, <3>5, <4>1, <4>2
    <3> QED BY <3>4, <3>5
  <2> QED BY <2>1, <2>2
<1>5. ASSUME NEW k \in 1 .. next' - 1, NEW d \in Directives,
             source'.text[k].comment = << d, w.metadata[d] >>
      PROVE  metadata'[d] = w.metadata[d]
  <2>1. source.text[k].comment = << d, w.metadata[d] >> /\ (k = next \/ k \in 1 .. next - 1)
    BY <1>3, <1>5
  <2>2. CASE k = next
    BY <1>4, <2>1, <2>2
  <2>3. CASE k \in 1 .. next - 1
    BY <1>2, <1>4, <2>1, <2>3
  <2> QED BY <2>1, <2>2, <2>3
<1> QED BY <1>2, <1>4, <1>5

\* A line of the display is read.
LEMMA ReadsBackKept ==
  ASSUME ParserIInv, NEW w \in ResultType, Back(w),
         SkipsBlank \/ TakesOrg \/ TakesEnd \/ KeepsLine
  PROVE  Back(w)'
<1> DEFINE n == Len(MetadataText(w.metadata))
           c == Len(w.instructions)
           text == source.text
           o == OriginOrDefault(w.origin)
<1>1. /\ DisplayLines(text, w, n) /\ n \in Nat /\ OrgLine(w) = n + 1 /\ c \in Nat
      /\ o \in 0 .. MaxInt
      /\ \A k \in 1 .. c : w.instructions[k] \in InstructionOf(I32)
  BY BackLines
<1>2. /\ Len(text) = n + 1 + c /\ Notes(text, w.metadata, n)
      /\ text[n + 1].words = << Mnemonic("Org"), Number(o) >> /\ text[n + 1].comment = << >>
      /\ \A k \in 1 .. c : /\ text[n + 1 + k].words = InstructionText(w.instructions[k])
                           /\ text[n + 1 + k].comment = << >>
  BY <1>1 DEF DisplayLines
<1>3. Reading /\ phase = "reading"
  BY DEF SkipsBlank, TakesOrg, TakesEnd, KeepsLine, Reading
<1>4. next \in Nat /\ next \in 1 .. Len(text) /\ lines \in Seq(Line) /\ Words = text[next].words
  BY <1>3, ReadingFacts DEF ParserIInv, Words
<1>5. ReadsBack(w) /\ LinesBack(w) /\ text = Display(w)
  BY <1>3 DEF Back
<1> HIDE DEF n, c, o
<1>6. /\ origin = IF next > n + 1 THEN OrgText(w) ELSE << >>
      /\ Len(lines) = IF next > n + 1 THEN next - 1 - (n + 1) ELSE 0
      /\ instructions = << >>
      /\ \A k \in 1 .. Len(lines) : lines[k] = InstructionText(w.instructions[k])
  <2>1. /\ origin = IF next > n + 1 THEN OrgText(w) ELSE << >>
        /\ Len(lines) = IF next > n + 1 THEN next - 1 - (n + 1) ELSE 0
        /\ instructions = << >>
    BY <1>1, <1>5 DEF ReadsBack
  <2>2. Len(instructions) = 0
    BY <2>1
  <2>3. \A k \in 1 .. Len(lines) : Len(instructions) + k = k
    BY <2>2
  <2> QED BY <1>5, <2>1, <2>3 DEF LinesBack
<1>7. ASSUME NEW kept \in Seq(Line), NEW org, ReadLine(kept, org, next + 1),
             text[next].comment # << >> => \E d \in Directives : text[next].comment = << d, w.metadata[d] >>,
             org = (IF next + 1 > n + 1 THEN OrgText(w) ELSE << >>),
             Len(lines \o kept) = (IF next + 1 > n + 1 THEN next - (n + 1) ELSE 0),
             \A k \in 1 .. Len(lines \o kept) : (lines \o kept)[k] = InstructionText(w.instructions[k])
      PROVE  Back(w)'
  <2>1. /\ metadata' = Noted(metadata, text[next].comment) /\ lines' = lines \o kept
        /\ origin' = org /\ next' = next + 1
        /\ UNCHANGED <<source, phase, instructions>>
    BY <1>7 DEF ReadLine
  <2>2. /\ \A d \in Directives : metadata'[d] \in {NoValue, w.metadata[d]}
        /\ \A k \in 1 .. next' - 1 : \A d \in Directives :
             source'.text[k].comment = << d, w.metadata[d] >> => metadata'[d] = w.metadata[d]
    <3> DEFINE comment == text[next].comment
    <3>1. /\ comment = source.text[next].comment
          /\ comment # << >> => \E d \in Directives : comment = << d, w.metadata[d] >>
          /\ metadata' = Noted(metadata, comment) /\ source' = source /\ next' = next + 1
      BY <1>7, <2>1
    <3> HIDE DEF comment
    <3> QED BY <1>3, <3>1, NoteRead
  <2>3. next' <= Len(source'.text) + 1
    BY <1>2, <1>4, <2>1
  <2>4. /\ origin' = (IF next' > n + 1 THEN OrgText(w) ELSE << >>)
        /\ Len(lines') = (IF next' > n + 1 THEN next' - 1 - (n + 1) ELSE 0)
        /\ instructions' = << >>
    <3>1. next' - 1 = next
      BY <1>4, <2>1
    <3> QED BY <1>6, <1>7, <2>1, <3>1
  <2>5. ReadsBack(w)'
    BY <1>1, <2>2, <2>3, <2>4 DEF ReadsBack
  <2>6. LinesBack(w)'
    <3>1. Len(instructions') = 0
      BY <2>4
    <3> DEFINE ls == lines \o kept
    <3> HIDE DEF ls
    <3>2. \A k \in 1 .. Len(ls) : Len(instructions') + k = k
      BY <3>1
    <3>3. \A k \in 1 .. Len(ls) : ls[k] = InstructionText(w.instructions[k])
      BY <1>7 DEF ls
    <3>4. lines' = ls
      BY <2>1 DEF ls
    <3> QED BY <3>2, <3>3, <3>4 DEF LinesBack
  <2> QED BY <1>3, <1>5, <2>1, <2>5, <2>6 DEF Back
<1>8. lines \o << >> = lines /\ << >> \in Seq(Line)
  BY <1>4, ConcatEmptySeq, EmptyTexts
<1>9. CASE next <= n
  <2>1. Words = << >> /\ \E d \in Directives : text[next].comment = << d, w.metadata[d] >>
    <3>1. next \in 1 .. n
      BY <1>4, <1>9
    <3> QED BY <1>2, <1>4, <3>1 DEF Notes
  <2>2. ReadLine(<< >>, origin, next + 1)
    BY <2>1 DEF SkipsBlank, TakesOrg, TakesEnd, KeepsLine
  <2>3. ~ (next > n + 1) /\ ~ (next + 1 > n + 1)
    BY <1>1, <1>4, <1>9
  <2> DEFINE none == << >>
  <2>4. /\ none \in Seq(Line) /\ ReadLine(none, origin, next + 1) /\ lines \o none = lines
        /\ origin = << >> /\ Len(lines) = 0
    BY <1>6, <1>8, <2>2, <2>3
  <2> HIDE DEF none
  <2> QED BY <1>6, <1>7, <2>1, <2>3, <2>4
<1>10. CASE next = n + 1
  <2>1. /\ Words # << >> /\ Words[1] = Mnemonic("Org") /\ InstructionEnd(Words) = 2
        /\ Remainder(Words) = OrgText(w) /\ text[next].comment = << >>
    <3>1. Words = << Mnemonic("Org"), Number(o) >> /\ text[next].comment = << >>
      BY <1>2, <1>4, <1>10
    <3>2. OrgText(w) = << Number(o) >>
      BY DEF OrgText, o
    <3> QED BY <1>1, <3>1, <3>2, OriginLine
  <2>2. IsPseudo(Words, "Org") /\ ~ IsPseudo(Words, "End")
    <3>1. Mnemonic("Org") # Mnemonic("End")
      BY DEF Mnemonic
    <3> QED BY <2>1, <3>1 DEF IsPseudo
  <2>3. ReadLine(<< >>, NewOrigin(Words), next + 1)
    BY <2>1, <2>2 DEF SkipsBlank, TakesOrg, TakesEnd, KeepsLine
  <2>4. ~ (next > n + 1) /\ next + 1 > n + 1 /\ next - (n + 1) = 0
    BY <1>1, <1>4, <1>10
  <2>5. NewOrigin(Words) = OrgText(w) /\ Len(lines) = 0
    BY <1>6, <2>1, <2>4 DEF NewOrigin
  <2> DEFINE none == << >>
             org  == NewOrigin(Words)
  <2>6. /\ none \in Seq(Line) /\ ReadLine(none, org, next + 1) /\ lines \o none = lines
        /\ org = OrgText(w)
    BY <1>8, <2>3, <2>5
  <2>7. text[next].comment # << >> => \E d \in Directives : text[next].comment = << d, w.metadata[d] >>
    BY <2>1
  <2> HIDE DEF none, org
  <2> QED BY <1>6, <1>7, <2>4, <2>5, <2>6, <2>7
<1>11. CASE next > n + 1
  <2> DEFINE j == next - (n + 1)
  <2>1. j \in 1 .. c /\ n + 1 + j = next /\ next + 1 > n + 1 /\ Len(lines) = j - 1 /\ j \in Nat
        /\ next - (n + 1) = j
    BY <1>1, <1>2, <1>4, <1>6, <1>11
  <2> HIDE DEF j
  <2>2. Words = InstructionText(w.instructions[j]) /\ text[next].comment = << >>
    BY <1>2, <1>4, <2>1
  <2>3. Displayed(Words)
    BY <1>1, <2>1, <2>2 DEF Displayed
  <2>4. /\ Words \in Line /\ Words # << >>
        /\ ~ IsPseudo(Words, "Org") /\ ~ IsPseudo(Words, "End")
    <3>1. Words \in Line /\ Len(Words) # 0 /\ Words[1] \notin {Mnemonic("Org"), Mnemonic("End")}
      BY <2>3, DisplayedTokens
    <3>2. Len(<< >>) = 0
      OBVIOUS
    <3> QED BY <3>1, <3>2 DEF IsPseudo
  <2>5. ReadLine(<< Words >>, origin, next + 1)
    BY <2>4 DEF SkipsBlank, TakesOrg, TakesEnd, KeepsLine
  <2> DEFINE one == << Words >>
             ls  == lines \o one
  <2>6. one \in Seq(Line) /\ Len(one) = 1 /\ one[1] = Words
    BY <2>4, OneSeq
  <2>7. ReadLine(one, origin, next + 1)
    BY <2>5
  <2> HIDE DEF one
  <2>8. /\ ls \in Seq(Line) /\ Len(ls) = Len(lines) + Len(one)
        /\ \A k \in 1 .. Len(lines) + Len(one) :
             ls[k] = IF k <= Len(lines) THEN lines[k] ELSE one[k - Len(lines)]
    BY <1>4, <2>6, ConcatProperties
  <2> HIDE DEF ls
  <2>9. Len(ls) = j
    BY <2>1, <2>6, <2>8
  <2>10. ASSUME NEW k \in 1 .. Len(ls)
         PROVE  ls[k] = InstructionText(w.instructions[k])
    <3>1. k \in 1 .. Len(lines) + Len(one)
      BY <2>8
    <3>2. CASE k <= Len(lines)
      <4>1. k \in 1 .. Len(lines)
        BY <2>1, <3>1, <3>2
      <4> QED BY <1>6, <2>8, <3>1, <3>2, <4>1
    <3>3. CASE ~ (k <= Len(lines))
      <4>1. k = j /\ k - Len(lines) = 1
        BY <2>1, <2>9, <3>3
      <4> QED BY <2>2, <2>6, <2>8, <3>1, <3>3, <4>1
    <3> QED BY <3>2, <3>3
  <2>11. origin = OrgText(w)
    BY <1>6, <1>11
  <2> QED BY <1>7, <2>1, <2>2, <2>6, <2>7, <2>9, <2>10, <2>11 DEF ls
<1> QED BY <1>1, <1>4, <1>9, <1>10, <1>11

\* The end of the display.
LEMMA CommentsBackKept ==
  ASSUME ParserIInv, NEW w \in ResultType, Back(w), CommentsRemoved
  PROVE  Back(w)'
<1> DEFINE n == Len(MetadataText(w.metadata))
           c == Len(w.instructions)
<1>1. /\ DisplayLines(source.text, w, n) /\ n \in Nat /\ OrgLine(w) = n + 1 /\ c \in Nat
  BY BackLines
<1>2. Len(source.text) = n + 1 + c /\ Notes(source.text, w.metadata, n)
  BY <1>1 DEF DisplayLines
<1>3. /\ phase = "reading" /\ next > Len(source.text) /\ phase' = "collecting"
      /\ UNCHANGED <<source, lines, origin, next, metadata, instructions>>
  BY DEF CommentsRemoved, own
<1>4. ReadsBack(w) /\ LinesBack(w) /\ source.text = Display(w)
  BY <1>3 DEF Back
<1>5. metadata \in MetadataType /\ next \in Nat /\ w.metadata \in MetadataType
  BY DEF ParserIInv, ResultType
<1> HIDE DEF n, c
<1>6. next = n + 1 + c + 1
  <2>1. next <= Len(source.text) + 1
    BY <1>4 DEF ReadsBack
  <2> QED BY <1>1, <1>2, <1>3, <1>5, <2>1
<1>7. origin = OrgText(w) /\ Len(lines) = c /\ instructions = << >>
  <2>1. next > n + 1 /\ next - 1 - (n + 1) = c
    BY <1>1, <1>6
  <2> QED BY <1>1, <1>4, <2>1 DEF ReadsBack
<1>8. ASSUME NEW d \in Directives
      PROVE  metadata[d] = w.metadata[d]
  <2>1. CASE w.metadata[d] = NoValue
    BY <1>4, <2>1 DEF ReadsBack
  <2>2. CASE w.metadata[d] # NoValue
    <3>1. PICK k \in 1 .. n : source.text[k].comment = << d, w.metadata[d] >>
      BY <1>2, <2>2 DEF Notes
    <3>2. k \in 1 .. next - 1
      BY <1>1, <1>6
    <3> QED BY <1>4, <3>1, <3>2 DEF ReadsBack
  <2> QED BY <2>1, <2>2
<1>9. metadata = w.metadata
  BY <1>5, <1>8 DEF MetadataType
<1>10. AssemblesBack(w)
  <2>1. Len(instructions) = 0
    BY <1>7
  <2>2. Len(instructions) + Len(lines) = c
    BY <1>1, <1>7, <2>1
  <2> QED BY <1>7, <1>9, <2>1, <2>2 DEF AssemblesBack, c
<1>11. AssemblesBack(w)' /\ LinesBack(w)'
  BY <1>3, <1>4, <1>10 DEF AssemblesBack, LinesBack
<1> QED BY <1>3, <1>4, <1>11 DEF Back

\* The instruction of a line that is still text.
LEMMA LineBack ==
  ASSUME ParserIInv, NEW w \in ResultType, Back(w), phase # "reading", NEW k \in 1 .. Len(lines)
  PROVE  /\ Len(instructions) \in Nat /\ Len(lines) \in Nat
         /\ Len(instructions) + k \in 1 .. Len(w.instructions)
         /\ w.instructions[Len(instructions) + k] \in InstructionOf(I32)
         /\ lines[k] = InstructionText(w.instructions[Len(instructions) + k])
<1>1. AssemblesBack(w) /\ LinesBack(w)
  BY DEF Back
<1>2. Len(instructions) \in Nat /\ Len(lines) \in Nat
  BY LenProperties DEF ParserIInv
<1>3. Len(instructions) + Len(lines) = Len(w.instructions)
  BY <1>1 DEF AssemblesBack
<1>4. Len(instructions) + k \in 1 .. Len(w.instructions)
  BY <1>2, <1>3
<1>5. w.instructions[Len(instructions) + k] \in InstructionOf(I32)
  BY <1>4, BackLines
<1> QED BY <1>1, <1>2, <1>4, <1>5 DEF LinesBack

LEMMA ExpandsBackKept ==
  ASSUME ParserIInv, NEW w \in ResultType, Back(w), Expands
  PROVE  Back(w)' /\ phase' # "parsed"
<1>1. phase = "collecting" /\ Step /\ UNCHANGED own /\ CollectingOK(Word)
  BY DEF Expands, ParserIInv
<1>2. ASSUME NEW k \in 1 .. Len(lines)
      PROVE  Displayed(lines[k])
  BY <1>1, LineBack DEF Displayed
<1>3. AssemblesBack(w) /\ LinesBack(w) /\ source.text = Display(w)
  BY <1>1 DEF Back
<1>4. LabelsIn(Tokenize(origin)) = {}
  <2>1. origin = << Number(OriginOrDefault(w.origin)) >>
    BY <1>3 DEF AssemblesBack, OrgText
  <2>2. OriginOrDefault(w.origin) \in 0 .. MaxInt
    BY BackLines
  <2> QED BY <2>1, <2>2, OriginLine
<1>5. phase' \in {"collecting", "expanded"} /\ lines' = lines /\ origin' = origin
  BY <1>1, <1>2, <1>4, DisplayedStep
<1>6. source' = source
  BY <1>1 DEF Step, Spin, vars, ForExpands, ForPanics, ForOpens, RofPanics, RofRepeats,
         EquDefined, EquContinues, EquExpands, LabelExpands, LabelStripped, LabelAlone,
         InstructionExpands, InstructionCounted, Substitute, Round, Panic
<1>7. AssemblesBack(w)' /\ LinesBack(w)'
  BY <1>1, <1>3, <1>5 DEF AssemblesBack, LinesBack, own
<1> QED BY <1>3, <1>5, <1>6, <1>7 DEF Back

\* No value of the warrior is i32::MIN.
LEMMA NoneIsMinInt ==
  ASSUME NEW w \in ResultType, ~ HasMinInt(w), NEW k \in 1 .. Len(w.instructions)
  PROVE  NoMinInt(w.instructions[k])
<1>1. w.instructions \in Seq(InstructionOf(I32))
  BY DEF ResultType
<1>2. k \in DOMAIN w.instructions
  BY <1>1, LenProperties
<1>3. \A side \in Side : Value(w.instructions[k], side) # MinInt
  BY <1>2 DEF HasMinInt
<1> DEFINE ins == w.instructions[k]
<1>4. Value(ins, "a") = ins.a_field.value /\ Value(ins, "b") = ins.b_field.value
  BY DEF Value, Field
<1>5. "a" \in Side /\ "b" \in Side
  BY DEF Side
<1>6. Value(ins, "a") # MinInt /\ Value(ins, "b") # MinInt
  BY <1>3, <1>5
<1> HIDE DEF ins
<1>7. NoMinInt(ins)
  BY <1>4, <1>6 DEF NoMinInt
<1> QED BY <1>7 DEF ins

\* A line of the display is assembled.
LEMMA AssemblesBackKept ==
  ASSUME ParserIInv, NEW w \in ResultType, Back(w), ~ HasMinInt(w),
         DropsLine \/ ParsesLine \/ RefusesLine \/ LinePanics
  PROVE  Back(w)'
<1>1. Evaluating /\ phase = "expanded" /\ lines # << >>
  BY DEF DropsLine, ParsesLine, RefusesLine, LinePanics, Evaluating
<1>2. /\ lines \in Seq(Line) /\ Len(lines) \in Nat \ {0}
      /\ instructions \in Seq(InstructionOf(I32)) /\ Len(instructions) \in Nat
  <2>1. lines \in Seq(Line) /\ instructions \in Seq(InstructionOf(I32))
    BY DEF ParserIInv
  <2> QED BY <1>1, <2>1, EmptySeq, LenProperties
<1> DEFINE m   == Len(instructions)
           ins == w.instructions[m + 1]
<1>3. /\ m + 1 \in 1 .. Len(w.instructions) /\ ins \in InstructionOf(I32)
      /\ lines[1] = InstructionText(ins)
  <2>1. 1 \in 1 .. Len(lines)
    BY <1>2
  <2> QED BY <1>1, <2>1, LineBack
<1>4. NoMinInt(ins)
  BY <1>3, NoneIsMinInt
<1>5. AssemblesBack(w) /\ LinesBack(w) /\ source.text = Display(w)
  BY <1>1 DEF Back
<1> HIDE DEF ins
<1>6. Head(lines) = InstructionText(ins)
  BY <1>1, <1>3
<1>7. InstructionEnd(Head(lines)) # 0 /\ ParseInstruction(Head(lines)) = Ok(ins)
  <2>1. Displayed(Head(lines))
    BY <1>3, <1>6 DEF Displayed
  <2>2. InstructionEnd(Head(lines)) # 0
    BY <2>1, DisplayedTokens
  <2> QED BY <1>3, <1>4, <1>6, <2>2, InstructionTextParsed
<1>8. /\ Ok(ins).panics = FALSE /\ Ok(ins).error = "" /\ Ok(ins).instruction = ins
  BY DEF Ok
<1>9. LineDone(phase, Append(instructions, ins), error)
  <2>1. /\ ~ DropsLine /\ ~ RefusesLine /\ ~ LinePanics
    BY <1>7, <1>8 DEF DropsLine, RefusesLine, LinePanics, IsInstruction, Instructed
  <2>2. ParsesLine
    BY <2>1
  <2>3. LineDone(phase, Append(instructions, Instructed.instruction), error)
    BY <2>2 DEF ParsesLine
  <2>4. Instructed.instruction = ins
    BY <1>7, <1>8 DEF Instructed
  <2> QED BY <2>3, <2>4
<1>10. /\ phase' = "expanded" /\ lines' = Tail(lines) /\ instructions' = Append(instructions, ins)
       /\ UNCHANGED <<source, origin, metadata>>
  BY <1>1, <1>9 DEF LineDone
<1>11. /\ Len(lines') = Len(lines) - 1
       /\ \A k \in 1 .. Len(lines') : lines'[k] = lines[k + 1]
  BY <1>1, <1>2, <1>10, HeadTailProperties
<1>12. /\ Len(instructions') = m + 1
       /\ \A k \in 1 .. m : instructions'[k] = instructions[k]
       /\ instructions'[m + 1] = ins
  BY <1>2, <1>3, <1>10, AppendProperties
<1>13. AssemblesBack(w)'
  <2>1. /\ metadata = w.metadata /\ origin = OrgText(w) /\ m + Len(lines) = Len(w.instructions)
        /\ \A k \in 1 .. m : instructions[k] = w.instructions[k]
    BY <1>5 DEF AssemblesBack
  <2>2. Len(instructions') + Len(lines') = Len(w.instructions)
    <3> DEFINE a == Len(lines)
               b == Len(lines')
               d == Len(instructions')
    <3>1. a \in Nat /\ m \in Nat /\ b = a - 1 /\ d = m + 1 /\ m + a = Len(w.instructions)
      BY <1>2, <1>11, <1>12, <2>1
    <3> HIDE DEF a, b, d, m
    <3>2. d + b = Len(w.instructions)
      BY <3>1
    <3> QED BY <3>2 DEF b, d
  <2>3. ASSUME NEW k \in 1 .. Len(instructions')
        PROVE  instructions'[k] = w.instructions[k]
    <3>1. k \in 1 .. m \/ k = m + 1
      BY <1>2, <1>12
    <3> QED BY <1>12, <2>1, <3>1 DEF ins
  <2> QED BY <1>10, <2>1, <2>2, <2>3 DEF AssemblesBack
<1>14. LinesBack(w)'
  <2>1. ASSUME NEW k \in 1 .. Len(lines')
        PROVE  lines'[k] = InstructionText(w.instructions[Len(instructions') + k])
    <3>1. k + 1 \in 1 .. Len(lines) /\ Len(instructions') + k = m + (k + 1)
      BY <1>2, <1>11, <1>12
    <3>2. lines[k + 1] = InstructionText(w.instructions[m + (k + 1)])
      BY <1>5, <3>1 DEF LinesBack
    <3> QED BY <1>11, <3>1, <3>2
  <2> QED BY <2>1 DEF LinesBack
<1> QED BY <1>5, <1>10, <1>13, <1>14 DEF Back

\* The origin of the display is parsed, and that is the warrior again.
LEMMA OriginBack ==
  ASSUME ParserIInv, NEW w \in ResultType, Back(w), NEW o, o = OriginOrDefault(w.origin),
         ParsesOrigin \/ RefusesOrigin \/ OriginPanics
  PROVE  /\ phase' = "parsed" /\ parsed' = Append(parsed, Result(o))
         /\ Result(o) = [w EXCEPT !.origin = o]
<1>1. OriginDue /\ phase = "expanded" /\ lines = << >>
  BY DEF ParsesOrigin, RefusesOrigin, OriginPanics, OriginDue
<1>2. AssemblesBack(w)
  BY <1>1 DEF Back
<1>3. origin = << Number(o) >> /\ o \in 0 .. MaxInt
  BY <1>2, BackLines DEF AssemblesBack, OrgText
<1>4. OriginValue = [panics |-> FALSE, value |-> o, error |-> ""]
  BY <1>3, OriginLine DEF OriginValue
<1>5. /\ ~ OriginValue.panics /\ OriginValue.error = "" /\ OriginValue.value = o
  BY <1>4
<1>6. origin # << >>
  <2>1. Len(<< Number(o) >>) = 1 /\ Len(<< >>) = 0
    OBVIOUS
  <2> QED BY <1>3, <2>1
<1>7. OriginDone("parsed", Append(parsed, Result(OriginValue.value)), error)
  BY <1>5, <1>6 DEF ParsesOrigin, RefusesOrigin, OriginPanics
<1>8. phase' = "parsed" /\ parsed' = Append(parsed, Result(o))
  BY <1>5, <1>7 DEF OriginDone
<1>9. /\ instructions \in Seq(InstructionOf(I32)) /\ w.instructions \in Seq(InstructionOf(I32))
  BY DEF ParserIInv, ResultType
<1>10. instructions = w.instructions
  <2>1. Len(lines) = 0
    BY <1>1
  <2>2. Len(instructions) = Len(w.instructions)
    BY <1>2, <1>9, <2>1, LenProperties DEF AssemblesBack
  <2>3. \A k \in 1 .. Len(instructions) : instructions[k] = w.instructions[k]
    BY <1>2 DEF AssemblesBack
  <2> QED BY <1>9, <2>2, <2>3, SeqEqual
<1>11. metadata = w.metadata
  BY <1>2 DEF AssemblesBack
<1>12. w = [metadata |-> w.metadata, instructions |-> w.instructions, origin |-> w.origin]
  BY DEF ResultType
<1>13. Result(o) = [w EXCEPT !.origin = o]
  BY <1>10, <1>11, <1>12 DEF Result
<1> QED BY <1>8, <1>13

\* The display is begun.
LEMMA RereadsBack ==
  ASSUME ParserIInv, NEW w \in ResultType, w = parsed[1], Rereads
  PROVE  Back(w)' /\ phase' = "reading" /\ parsed' = parsed
<1> DEFINE n == Len(MetadataText(w.metadata))
<1>1. /\ source' = [text |-> Display(w), meaning |-> {}] /\ phase' = "reading" /\ next' = 1
      /\ metadata' = NoMetadata /\ lines' = << >> /\ origin' = << >> /\ instructions' = << >>
      /\ parsed' = parsed
  BY DEF Rereads
<1>2. source'.text = Display(w)
  BY <1>1
<1>3. OrgLine(w) = n + 1 /\ n \in Nat /\ Len(source'.text) \in Nat
  <2>1. DisplayLines(Display(w), w, n) /\ Display(w) \in Seq(Raw)
    BY DisplayHasLines, DisplayType
  <2> QED BY <1>2, <2>1, LenProperties DEF DisplayLines, OrgLine
<1>4. Len(lines') = 0
  BY <1>1
<1>5. ReadsBack(w)'
  <2>1. next' <= Len(source'.text) + 1 /\ ~ (next' > OrgLine(w))
    BY <1>1, <1>3
  <2>2. \A d \in Directives : metadata'[d] \in {NoValue, w.metadata[d]}
    BY <1>1 DEF NoMetadata
  <2>3. 1 .. next' - 1 = {}
    BY <1>1
  <2> QED BY <1>1, <1>4, <2>1, <2>2, <2>3 DEF ReadsBack
<1>6. LinesBack(w)'
  BY <1>4 DEF LinesBack
<1> QED BY <1>1, <1>2, <1>5, <1>6 DEF Back

\* Only the origin adds to the results.
LEMMA ResultsKept ==
  ASSUME ParserStep, ~ ParsesOrigin
  PROVE  parsed' = parsed /\ phase' # "parsed" /\ (phase = "parsed" => Rereads /\ Len(parsed) = 1)
<1>1. CASE SkipsBlank \/ TakesOrg \/ TakesEnd \/ KeepsLine
  BY <1>1 DEF SkipsBlank, TakesOrg, TakesEnd, KeepsLine, ReadLine, Reading
<1>2. CASE CommentsRemoved
  BY <1>2 DEF CommentsRemoved, own
<1>3. CASE Expands
  <2>1. phase = "collecting" /\ parsed' = parsed /\ Step
    BY <1>3 DEF Expands, own
  <2>2. phase' # "parsed"
    BY <2>1 DEF Step, Spin, vars, ForExpands, ForPanics, ForOpens, RofPanics, RofRepeats,
         EquDefined, EquContinues, EquExpands, LabelExpands, LabelStripped, LabelAlone,
         InstructionExpands, InstructionCounted, Substitute, Round, Panic
  <2> QED BY <2>1, <2>2
<1>4. CASE DropsLine \/ ParsesLine \/ RefusesLine \/ LinePanics
  BY <1>4 DEF DropsLine, ParsesLine, RefusesLine, LinePanics, LineDone, Evaluating
<1>5. CASE RefusesOrigin \/ OriginPanics
  BY <1>5 DEF RefusesOrigin, OriginPanics, OriginDone, OriginDue
<1>6. CASE Rereads
  BY <1>6 DEF Rereads
<1> QED BY <1>1, <1>2, <1>3, <1>4, <1>5, <1>6 DEF ParserStep

\* The result of the second parse comes behind that of the first.
LEMMA SecondOfTwo ==
  ASSUME NEW S, NEW s \in Seq(S), Len(s) = 1, NEW x
  PROVE  Len(Append(s, x)) = 2 /\ Append(s, x)[1] = s[1] /\ Append(s, x)[2] = x
<1> DEFINE T == S \cup {x}
<1>1. s \in Seq(T) /\ x \in T
  <2>1. DOMAIN s = 1 .. Len(s) /\ Len(s) \in Nat /\ \A k \in 1 .. Len(s) : s[k] \in S
    BY LenProperties, ElementOfSeq
  <2>2. s \in [1 .. Len(s) -> T]
    BY <2>1
  <2> QED BY <2>1, <2>2
<1> HIDE DEF T
<1>2. Len(Append(s, x)) = Len(s) + 1
  BY <1>1, AppendProperties
<1>3. Append(s, x)[Len(s) + 1] = x
  BY <1>1, AppendProperties
<1>4. \A k \in 1 .. Len(s) : Append(s, x)[k] = s[k]
  BY <1>1, AppendProperties
<1>5. 1 \in 1 .. Len(s) /\ Len(s) + 1 = 2
  OBVIOUS
<1> QED BY <1>2, <1>3, <1>4, <1>5

\* The first one is a result.
LEMMA FirstResult ==
  ASSUME ParserIInv, Len(parsed) = 1
  PROVE  parsed \in Seq(ResultType) /\ parsed[1] \in ResultType
<1>1. parsed \in Seq(ResultType)
  BY DEF ParserIInv
<1>2. 1 \in 1 .. Len(parsed)
  OBVIOUS
<1> QED BY <1>1, <1>2, ElementOfSeq

\* A step of the first parse, which is of the file.
LEMMA FirstKept ==
  ASSUME ParserIInv, BackIInv, ParserStep, Len(parsed) = 0
  PROVE  BackIInv'
<1>2. parsed \in Seq(ResultType) /\ parsed = << >>
  BY EmptySeq DEF ParserIInv
<1>3. CASE ~ ParsesOrigin
  <2>1. parsed' = parsed /\ phase' # "parsed"
    BY <1>3, ResultsKept
  <2>2. Len(parsed') = 0 /\ parsed' = << >>
    BY <1>2, <2>1
  <2>3. DisplayReadsBack'
    BY <2>2 DEF DisplayReadsBack
  <2> QED BY <2>1, <2>2, <2>3 DEF BackIInv
<1>4. CASE ParsesOrigin
  <2>1. PICK n : parsed' = Append(parsed, Result(n)) /\ phase' = "parsed"
    BY <1>4 DEF ParsesOrigin, OriginDone
  <2>2. parsed' = << Result(n) >>
    BY <1>2, <2>1
  <2>3. Len(parsed') = 1
    BY <2>2
  <2>4. DisplayReadsBack'
    BY <2>1, <2>3 DEF DisplayReadsBack
  <2> QED BY <2>1, <2>3, <2>4 DEF BackIInv
<1> QED BY <1>3, <1>4

\* A step of the second one, which is of the display.
LEMMA SecondKept ==
  ASSUME ParserIInv, BackIInv, ParserStep, Len(parsed) = 1, phase # "parsed"
  PROVE  BackIInv'
<1> DEFINE w == parsed[1]
           o == OriginOrDefault(w.origin)
<1>1. parsed \in Seq(ResultType) /\ w \in ResultType
  BY FirstResult
<1>2. ~ Rereads
  BY DEF Rereads
<1>3. CASE HasMinInt(w)
  <2>1. CASE ~ ParsesOrigin
    <3>1. parsed' = parsed /\ phase' # "parsed"
      BY <2>1, ResultsKept
    <3>2. HasMinInt(parsed'[1])
      BY <1>3, <3>1
    <3>3. DisplayReadsBack'
      BY <3>2 DEF DisplayReadsBack
    <3> QED BY <3>1, <3>2, <3>3 DEF BackIInv
  <2>2. CASE ParsesOrigin
    <3>1. PICK n : parsed' = Append(parsed, Result(n)) /\ phase' = "parsed"
      BY <2>2 DEF ParsesOrigin, OriginDone
    <3>2. Len(parsed') = 2 /\ parsed'[1] = w
      <4>1. PICK r : r = Result(n)
        OBVIOUS
      <4> QED BY <1>1, <3>1, <4>1, SecondOfTwo
    <3>3. HasMinInt(parsed'[1])
      BY <1>3, <3>2
    <3>4. DisplayReadsBack'
      BY <3>3 DEF DisplayReadsBack
    <3> QED BY <3>1, <3>2, <3>4 DEF BackIInv
  <2> QED BY <2>1, <2>2
<1>4. CASE ~ HasMinInt(w)
  <2>1. PICK v \in ResultType : v = w
    BY <1>1
  <2>2. Back(v) /\ ~ HasMinInt(v)
    BY <1>4, <2>1 DEF BackIInv
  <2>3. CASE ParsesOrigin \/ RefusesOrigin \/ OriginPanics
    <3>1. PICK p : p = OriginOrDefault(v.origin)
      OBVIOUS
    <3>2. /\ phase' = "parsed" /\ parsed' = Append(parsed, Result(p))
          /\ Result(p) = [v EXCEPT !.origin = p]
      BY <2>2, <2>3, <3>1, OriginBack
    <3>3. Len(parsed') = 2 /\ parsed'[1] = v /\ parsed'[2] = Result(p)
      <4>1. PICK r : r = Result(p)
        OBVIOUS
      <4> QED BY <1>1, <2>1, <3>2, <4>1, SecondOfTwo
    <3>4. parsed'[2] = [parsed'[1] EXCEPT !.origin = OriginOrDefault(@)]
      BY <3>1, <3>2, <3>3
    <3>5. DisplayReadsBack'
      BY <3>2, <3>4 DEF DisplayReadsBack
    <3> QED BY <3>2, <3>3, <3>5 DEF BackIInv
  <2>4. CASE ~ (ParsesOrigin \/ RefusesOrigin \/ OriginPanics)
    <3>1. Back(v)'
      BY <1>2, <2>2, <2>4, ReadsBackKept, CommentsBackKept, ExpandsBackKept, AssemblesBackKept
        DEF ParserStep
    <3>2. parsed' = parsed /\ phase' # "parsed"
      BY <2>4, ResultsKept
    <3>3. Back(parsed[1])'
      BY <2>1, <3>1, <3>2 DEF Back, ReadsBack, AssemblesBack, LinesBack
    <3>4. DisplayReadsBack'
      <4>1. phase' \notin {"refused", "panicked"} /\ Len(parsed') # 2
        BY <3>1, <3>2 DEF Back
      <4> QED BY <4>1 DEF DisplayReadsBack
    <3> QED BY <3>2, <3>3, <3>4 DEF BackIInv
  <2> QED BY <2>3, <2>4
<1> QED BY <1>3, <1>4

\* And the step between them.
LEMMA BetweenKept ==
  ASSUME ParserIInv, BackIInv, ParserStep, phase = "parsed"
  PROVE  BackIInv'
<1>1. Rereads /\ Len(parsed) = 1
  BY ResultsKept DEF ParsesOrigin, OriginDue
<1>2. parsed[1] \in ResultType
  BY <1>1, FirstResult
<1>3. PICK v \in ResultType : v = parsed[1]
  BY <1>2
<1>4. Back(v)' /\ phase' = "reading" /\ parsed' = parsed
  BY <1>1, <1>3, RereadsBack
<1>5. Back(parsed[1])'
  BY <1>3, <1>4 DEF Back, ReadsBack, AssemblesBack, LinesBack
<1>6. DisplayReadsBack'
  BY <1>1, <1>4 DEF DisplayReadsBack
<1> QED BY <1>1, <1>4, <1>5, <1>6 DEF BackIInv

\* Whatever warrior a file gives, and however its lines were labels, loops and expressions:
\* what is displayed of it (program.rs:22) is parsed, without an error or a panic, and gives
\* the same directives, the same instructions and the same first task.  Left out are
\* warriors with an i32::MIN, which the display writes with a number that is no i32.
THEOREM DisplayReadsBackCorrect == ParserSpec => []DisplayReadsBack
<1>1. ParserInit => BackIInv
  <2> SUFFICES ASSUME ParserInit PROVE BackIInv
    OBVIOUS
  <2>1. parsed = << >> /\ phase = "reading"
    BY DEF ParserInit
  <2>2. Len(parsed) = 0
    BY <2>1
  <2>3. DisplayReadsBack
    BY <2>1 DEF DisplayReadsBack
  <2> QED BY <2>1, <2>2, <2>3 DEF BackIInv
<1>2. ASSUME ParserIInv, BackIInv, [ParserNext]_parserVars
      PROVE  BackIInv'
  <2>1. CASE ParserStep
    <3>1. PICK m \in Nat : m = Len(parsed)
      BY LenProperties, <1>2 DEF ParserIInv
    <3>2. m <= 2 /\ (m = 2 => phase = "parsed")
      BY <1>2, <3>1 DEF BackIInv
    <3>3. m = 0 \/ m = 1 \/ m = 2
      BY <3>2
    <3>4. \/ Len(parsed) = 0 \/ phase = "parsed"
          \/ Len(parsed) = 1 /\ phase # "parsed"
      BY <3>1, <3>2, <3>3
    <3> QED BY <1>2, <2>1, <3>4, FirstKept, SecondKept, BetweenKept
  <2>2. CASE UNCHANGED parserVars
    BY <1>2, <2>2 DEF parserVars, vars, own, BackIInv, DisplayReadsBack, Back, ReadsBack,
                      AssemblesBack, LinesBack
  <2> QED BY <1>2, <2>1, <2>2 DEF ParserNext
<1>3. ParserIInv /\ BackIInv /\ [ParserNext]_parserVars => BackIInv'
  BY <1>2
<1>4. BackIInv => DisplayReadsBack
  BY DEF BackIInv
<1> QED BY <1>1, <1>3, <1>4, ParserInvariance, PTL DEF ParserSpec
=============================================================================
