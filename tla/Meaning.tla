------------------------------ MODULE Meaning -------------------------------
(***************************************************************************)
(* What a program with EQU, FOR and labels means, as a definition over its *)
(* structure: the reference for module Expansion, which works on text in   *)
(* place, and for the expressions of module Expression, which are words.   *)
(* A program is a sequence of items, and an expression is a tree.  The     *)
(* instructions it stands for are put out one after the other, and the     *)
(* labels are given offsets when all addresses are known.                  *)
(***************************************************************************)
EXTENDS Lines, SequencesExt

CONSTANT Constants      \* the predefined names and their values

-----------------------------------------------------------------------------
(* Expressions.                                                            *)

Num(n)        == [tree |-> "number", value |-> n]
Name(l)       == [tree |-> "name", name |-> l]
Par(t)        == [tree |-> "parentheses", of |-> t]
Un(op, t)     == [tree |-> "unary", op |-> op, of |-> t]
Bin(l, op, r) == [tree |-> "binary", op |-> op, left |-> l, right |-> r]

Precedence(op) == CASE op \in BooleanOp -> 1 [] op \in CompareOp -> 2
                    [] op \in AddOp -> 3 [] op \in MultiplyOp -> 4

Enclosed(words) == << Punctuation("Open") >> \o words \o << Punctuation("Close") >>

RECURSIVE Written(_, _)
\* A tree as words, in parentheses where its operator binds less than it has to.
\* Operators of one precedence associate to the left.  A sign in front of another is
\* put in front of parentheses: without them the code applies the first sign first.
Written(t, binds) ==
  CASE t.tree = "number" -> Digits(t.value)
    [] t.tree = "name"   -> << Label(t.name) >>
    [] t.tree = "parentheses" -> Enclosed(Written(t.of, 1))
    [] t.tree = "unary"  ->
         LET words == << Sign(t.op) >> \o Written(t.of, 6)
         IN  IF binds > 5 THEN Enclosed(words) ELSE words
    [] OTHER ->
         LET p     == Precedence(t.op)
             words == Written(t.left, p) \o << Sign(t.op) >> \o Written(t.right, p + 1)
         IN  IF binds > p THEN Enclosed(words) ELSE words

RECURSIVE Put(_, _)
\* Trees in the place of names.
Put(t, trees) ==
  CASE t.tree = "number" -> t
    [] t.tree = "name"   -> IF t.name \in DOMAIN trees THEN trees[t.name] ELSE t
    [] t.tree = "binary" -> [t EXCEPT !.left = Put(@, trees), !.right = Put(@, trees)]
    [] OTHER             -> [t EXCEPT !.of = Put(@, trees)]

Numbers(values) == [n \in DOMAIN values |-> Num(values[n])]

RECURSIVE NamesIn(_)
NamesIn(t) ==
  CASE t.tree = "number" -> {}
    [] t.tree = "name"   -> { t.name }
    [] t.tree = "binary" -> NamesIn(t.left) \cup NamesIn(t.right)
    [] OTHER             -> NamesIn(t.of)

RECURSIVE InEqus(_, _)
\* EQUs in the place of their names, as often as there are any.
InEqus(t, equs) ==
  IF NamesIn(t) \cap DOMAIN equs = {} THEN t ELSE InEqus(Put(t, equs), equs)

Size(n)   == IF n < 0 THEN -n ELSE n
OneIf(b)  == IF b THEN 1 ELSE 0

\* Division cuts off what is behind the point, the rest has the sign of the left side.
Ratio(a, b) == (Size(a) \div Size(b)) * (IF a < 0 THEN -1 ELSE 1) * (IF b < 0 THEN -1 ELSE 1)
Rest(a, b)  == (Size(a) % Size(b)) * (IF a < 0 THEN -1 ELSE 1)

UnaryValue(op, n) == CASE op = "-" -> -n [] op = "+" -> n [] op = "!" -> OneIf(n = 0)

BinaryValue(l, op, r) ==
  CASE op = "*" -> l * r
    [] op = "/" -> Ratio(l, r)
    [] op = "%" -> Rest(l, r)
    [] op = "+" -> l + r
    [] op = "-" -> l - r
    [] op = "<" -> OneIf(l < r)
    [] op = "<=" -> OneIf(l < r \/ l = r)
    [] op = ">" -> OneIf(r < l)
    [] op = ">=" -> OneIf(r < l \/ l = r)
    [] op = "==" -> OneIf(l = r)
    [] op = "!=" -> OneIf(l < r \/ r < l)
    [] op = "&&" -> OneIf(~ (l = 0 \/ r = 0))
    [] op = "||" -> OneIf(~ (l = 0 /\ r = 0))

RECURSIVE ValueOf(_)
\* The integer that a tree stands for.
ValueOf(t) ==
  CASE t.tree = "number" -> t.value
    [] t.tree = "parentheses" -> ValueOf(t.of)
    [] t.tree = "unary"  -> UnaryValue(t.op, ValueOf(t.of))
    [] t.tree = "binary" -> BinaryValue(ValueOf(t.left), t.op, ValueOf(t.right))

RECURSIVE HasValue(_)
\* Nothing is divided by zero, and no name is left.
HasValue(t) ==
  CASE t.tree = "number" -> TRUE
    [] t.tree = "name"   -> FALSE
    [] t.tree = "binary" -> /\ HasValue(t.left) /\ HasValue(t.right)
                            /\ t.op \in {"/", "%"} => ValueOf(t.right) # 0
    [] OTHER             -> HasValue(t.of)

-----------------------------------------------------------------------------
(* Items.  "" is no label, no index, no modifier and no mode.  An EQU has  *)
(* an expression, in parentheses if it has operators; a macro is an EQU of *)
(* several instructions, which Use stands for.                             *)

Operand(mode, t) == [mode |-> mode, expression |-> t]
Plain(op, modifier, fields) == [opcode |-> op, modifier |-> modifier, fields |-> fields]
Labelled(label, code) == [item |-> "instruction", label |-> label, code |-> code]
Use(label, macro) == [item |-> "use", label |-> label, macro |-> macro]
Mark(label)       == [item |-> "mark", label |-> label]
Equ(label, t) ==
  [item |-> "equ", label |-> label,
   expression |-> IF t.tree \in {"number", "name"} THEN t ELSE Par(t)]
Macro(label, code) == [item |-> "macro", label |-> label, code |-> code]
Loop(index, count, body) ==
  [item |-> "loop", index |-> index, count |-> count, body |-> body]

Optional(name, words) == IF name = "" THEN << >> ELSE words

FieldWords(f) == Optional(f.mode, << Sign(f.mode) >>) \o Written(f.expression, 1)

CodeWords(code) ==
  << Mnemonic(code.opcode) >> \o Optional(code.modifier, << Suffix(code.modifier) >>)
    \o FlattenSeq([k \in DOMAIN code.fields |->
         (IF k = 1 THEN << >> ELSE << Punctuation("Comma") >>) \o FieldWords(code.fields[k])])

LabelOf(name) == Optional(name, << Label(name) >>)

RECURSIVE Text(_)
ItemText(x) ==
  CASE x.item = "instruction" -> << LabelOf(x.label) \o CodeWords(x.code) >>
    [] x.item = "use"   -> << LabelOf(x.label) \o << Label(x.macro) >> >>
    [] x.item = "mark"  -> << << Label(x.label) >> >>
    [] x.item = "equ"   -> << << Label(x.label), Keyword("Equ") >> \o Written(x.expression, 1) >>
    [] x.item = "macro" -> [k \in DOMAIN x.code |->
                              (IF k = 1 THEN << Label(x.label) >> ELSE << >>)
                                \o << Keyword("Equ") >> \o CodeWords(x.code[k])]
    [] OTHER -> << LabelOf(x.index) \o << Keyword("For") >> \o Written(x.count, 1) >>
                  \o Text(x.body) \o << << Keyword("Rof") >> >>

\* The text of a program.
Text(items) == FlattenSeq([k \in DOMAIN items |-> ItemText(items[k])])

-----------------------------------------------------------------------------
(* The state of the reading: the instructions so far (with labels still in *)
(* them), the EQUs, the macros, the addresses, the labels that wait for    *)
(* the next instruction.  A loop without a meaning fails.                  *)

Nothing == [code |-> << >>, equs |-> << >>, macros |-> << >>, addresses |-> << >>,
            waiting |-> {}, fails |-> FALSE]

\* A function from names, extended or changed at one.
With(f, name, v) ==
  [n \in DOMAIN f \cup {name} |-> IF n = name THEN v ELSE f[n]]

\* Labels have offsets from the instruction they are used in.
Relatives(addresses, here) == [n \in DOMAIN addresses |-> addresses[n] - here]

\* Its expressions with trees in the place of names.
CodePut(code, trees) ==
  [code EXCEPT !.fields =
     [k \in DOMAIN @ |-> [@[k] EXCEPT !.expression = Put(@, trees)]]]

PutOut(s, labels, ls, index) ==
  LET Replaced(code) ==
        [code EXCEPT !.fields =
           [k \in DOMAIN @ |->
              [@[k] EXCEPT !.expression = Put(InEqus(@, s.equs), Numbers(index))]]]
  IN  [s EXCEPT !.code = @ \o [k \in DOMAIN ls |-> Replaced(ls[k])],
                !.addresses = [n \in DOMAIN @ \cup labels \cup s.waiting |->
                                 IF n \in DOMAIN @ THEN @[n] ELSE Len(s.code)],
                !.waiting = {}]

LabelSet(name) == IF name = "" THEN {} ELSE { name }

RECURSIVE Read(_, _, _)
RECURSIVE Turns(_, _, _, _, _)

\* An item read in state s, in loops whose indexes have these values.
ReadItem(s, x, index) ==
  CASE x.item = "mark"  -> [s EXCEPT !.waiting = @ \cup {x.label}]
    [] x.item = "equ"   -> [s EXCEPT !.equs = With(@, x.label, x.expression)]
    [] x.item = "macro" -> [s EXCEPT !.macros = With(@, x.label, x.code)]
    [] x.item = "use"   ->
         IF x.macro \in DOMAIN s.macros
           THEN PutOut(s, LabelSet(x.label), s.macros[x.macro], index)
           ELSE [s EXCEPT !.fails = TRUE]
    [] x.item = "loop" ->
         LET here  == Relatives(s.addresses, Len(s.code))
             count == Put(Put(InEqus(x.count, s.equs), Numbers(Constants)), Numbers(here))
         IN  IF ~ HasValue(count) THEN [s EXCEPT !.fails = TRUE]
             ELSE IF ValueOf(count) < 0 THEN [s EXCEPT !.fails = TRUE]
             ELSE Turns(s, x, index, 1, ValueOf(count))
    [] OTHER -> PutOut(s, LabelSet(x.label), << x.code >>, index)

\* The turns of a loop from one on.  A label in its body is the place of its first
\* copy: an address is given once.
Turns(s, x, index, turn, count) ==
  IF turn > count THEN s
  ELSE Turns(Read(s, x.body, IF x.index = "" THEN index ELSE With(index, x.index, turn)),
             x, index, turn + 1, count)

Read(s, items, index) ==
  IF items = << >> THEN s
  ELSE Read(ReadItem(s, Head(items), index), Tail(items), index)

\* The instructions that a program stands for, and its origin with them.
Meant(items, origin) ==
  LET s    == Read(Nothing, items, << >>)
      code == [k \in DOMAIN s.code |->
                 CodePut(CodePut(CodePut(s.code[k], Numbers(Relatives(s.addresses, k - 1))),
                                 With(<< >>, "CURLINE", Num(k - 1))),
                         Numbers(Constants))]
  IN  [code   |-> code,
       lines  |-> [k \in DOMAIN code |-> CodeWords(code[k])],
       origin |-> Put(Put(origin, Numbers(s.addresses)), Numbers(Constants)),
       whole  |-> /\ ~ s.fails
                  /\ \A k \in DOMAIN code : \A f \in DOMAIN code[k].fields :
                        HasValue(code[k].fields[f].expression)]
=============================================================================
