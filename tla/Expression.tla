----------------------------- MODULE Expression -----------------------------
(***************************************************************************)
(* parser/phase/evaluation/expression.rs: the value of an expression.  The *)
(* grammar nests Expr, Value, Sum and Product, each a list of the next     *)
(* one, and every evaluate function combines its list from left to right:  *)
(* so the last operator of the outermost kind is applied last.             *)
(***************************************************************************)
EXTENDS Lines, Int32

\* What evaluate returns, or that it panics.
Is(n)    == [panics |-> FALSE, value |-> n]
Panicked == [panics |-> TRUE, value |-> 0]
Outcome  == [panics : BOOLEAN, value : MinInt .. MaxInt]

Truth(b) == IF b THEN 1 ELSE 0
Abs(n)   == IF n < 0 THEN -n ELSE n

\* i32 division is towards zero.
Quotient(a, b) ==
  LET q == Abs(a) \div Abs(b) IN IF (a < 0) = (b < 0) THEN q ELSE -q

\* Division panics in every profile, by zero and where the quotient does not fit.
Undivided(a, b) == b = 0 \/ (a = MinInt /\ b = -1)

\* The closures of the binary operators.
Combined(op, a, b) ==
  CASE op = "*"  -> Is(Wrap(a * b))
    [] op = "/"  -> IF Undivided(a, b) THEN Panicked ELSE Is(Quotient(a, b))
    [] op = "%"  -> IF Undivided(a, b) THEN Panicked ELSE Is(a - b * Quotient(a, b))
    [] op = "+"  -> Is(Wrap(a + b))
    [] op = "-"  -> Is(Wrap(a - b))
    [] op = ">"  -> Is(Truth(a > b))
    [] op = ">=" -> Is(Truth(a >= b))
    [] op = "<"  -> Is(Truth(a < b))
    [] op = "<=" -> Is(Truth(a <= b))
    [] op = "==" -> Is(Truth(a = b))
    [] op = "!=" -> Is(Truth(a # b))
    [] op = "&&" -> Is(Truth(a # 0 /\ b # 0))
    [] op = "||" -> Is(Truth(a # 0 \/ b # 0))

Signed(op, a) ==
  CASE op = "-" -> Wrap(-a)
    [] op = "+" -> a
    [] OTHER    -> Truth(a = 0)        \* "!"

\* An Atom.  A number that is no i32 panics, and so does a label: it should be gone.
AtomValue(word) ==
  IF word.kind = "Number" /\ word.value <= MaxInt THEN Is(word.value) ELSE Panicked

\* The kinds of operators, from the outermost.
Levels == << BooleanOp, CompareOp, AddOp, MultiplyOp >>

\* Mutant: the first operator of a kind is applied last.
FirstSplit(splits) == CHOOSE k \in splits : \A j \in splits : k <= j

LastSplit(splits) == CHOOSE k \in splits : \A j \in splits : j <= k

\* What a level combines: the words from one to another.
Spans(words) == [level : 1 .. 5, from : 1 .. Len(words) + 1, to : 0 .. Len(words)]

\* The operators of the level, outside of parentheses.
Splits(words, s) ==
  { k \in s.from .. s.to :
      /\ words[k].kind = "Sign" /\ words[k].name \in Levels[s.level]
      /\ ~ OperandDue(words, k)
      /\ Depth(words, k) = Depth(words, s.from - 1) }

\* The words that are no sign: the first one is the operand, behind its signs.
Operands(words, s) == { k \in s.from .. s.to : words[k].kind # "Sign" }

\* The signs in front of an operand are applied in the order they are in.
Applied(signs, n) == FoldLeft(LAMBDA v, sign : Signed(sign.name, v), n, signs)

\* One call: the value of a span, from those of the spans inside it.
SpanValue(words, value, s) ==
  IF s.level = 5 THEN
    IF Operands(words, s) = {} THEN Panicked      \* not in an Expression
    ELSE LET k    == CHOOSE k \in Operands(words, s) : \A j \in Operands(words, s) : k <= j
             atom == IF words[k].kind = "Open"
                       THEN value[[level |-> 1, from |-> k + 1, to |-> s.to - 1]]
                       ELSE AtomValue(words[k])
         IN  IF atom.panics THEN Panicked
             ELSE Is(Applied(SubSeq(words, s.from, k - 1), atom.value))
  ELSE IF Splits(words, s) = {} THEN value[[s EXCEPT !.level = @ + 1]]
  ELSE LET k     == LastSplit(Splits(words, s))
           left  == value[[s EXCEPT !.to = k - 1]]
           right == value[[level |-> s.level + 1, from |-> k + 1, to |-> s.to]]
       IN  IF left.panics \/ right.panics THEN Panicked
           ELSE Combined(words[k].name, left.value, right.value)

\* evaluate, for words that are an Expression.
Evaluate(words) ==
  LET value[s \in Spans(words)] == SpanValue(words, value, s)
  IN  value[[level |-> 1, from |-> 1, to |-> Len(words)]]

\* evaluate_expression: the value of the Expression that a text begins with, what
\* follows is not looked at.
NoExpression == [panics |-> FALSE, value |-> 0, error |-> "InvalidSyntax"]

\* Mutant: any value will do.
EvaluateUnchecked(words) ==
  IF ExpressionEnd(words) = 0 THEN NoExpression
  ELSE LET v == Evaluate(SubSeq(words, 1, ExpressionEnd(words)))
       IN  [panics |-> v.panics, value |-> v.value, error |-> ""]

EvaluateExpression(words) ==
  IF ExpressionEnd(words) = 0 THEN NoExpression
  ELSE LET v == Evaluate(SubSeq(words, 1, ExpressionEnd(words)))
       IN  [panics |-> v.panics, value |-> v.value,
            error  |-> IF v.value < 0 THEN "InvalidOrigin" ELSE ""]
=============================================================================
