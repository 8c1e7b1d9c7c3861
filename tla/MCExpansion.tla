---------------------------- MODULE MCExpansion -----------------------------
(***************************************************************************)
(* Programs of a few items for module Expansion: well-formed ones with     *)
(* their structure (module Meaning), and ones that are not, as text.       *)
(***************************************************************************)
EXTENDS Expansion, Meaning

MCNames ==
  DOMAIN DEFAULT_CONSTANTS
    \cup {"CURLINE", "Equ", "For", "Rof", "A", "B", "E", "D", "N", "O", "Dat", "Org"}

A == Name("A")
B == Name("B")
E == Name("E")
N == Name("N")
O == Name("O")
Curline == Name("CURLINE")
Two     == Num(2)

\* DAT with one field or two.
One(label, a)    == Labelled(label, Plain("Dat", "", << Operand("", a) >>))
Dat(label, a, b) == Labelled(label, Plain("Dat", "", << Operand("", a), Operand("#", b) >>))

EquE == Equ("E", Two)
EquF == Equ("E", Bin(A, "+", Num(3)))
EquD == Macro("D", << Plain("Dat", "", << Operand("", A) >>), Plain("Dat", "", << Operand("", E) >>) >>)

\* A and B are labels, E and D EQUs of a number or a sum and of two instructions, N
\* and O the indexes of loops.
Items ==
  { Dat("", A, Bin(Curline, "*", Two)),
    One("A", Num(1)),
    Dat("B", Bin(Num(7), "-", A), Bin(E, "*", Two)),
    Mark("A"),
    EquE, EquF, EquD,
    Use("", "D"),
    Use("B", "D"),
    Loop("", Bin(Num(6), "+", B), << One("", A) >>),
    Loop("N", Bin(E, "/", Two), << One("", A), Dat("", A, Un("-", N)) >>),
    Loop("N", Two, << One("A", N), Dat("", A, Curline) >>),
    Loop("", Num(0), << One("", A) >>),
    Loop("N", Two, << Equ("E", Two), Use("", "D"), Dat("", E, N) >>),
    Loop("", Two, << Loop("", E, << One("", A) >>), One("B", B) >>),
    Loop("O", Two, << One("B", B), Loop("", Two, << Dat("", A, O) >>) >>),
    Loop("O", Two, << Loop("N", Two, << Dat("", N, O) >>) >>) }

\* A label begins at most one line.
LabelsOnce(text) ==
  \A label \in {"A", "B"} :
     Cardinality({ k \in DOMAIN text : text[k][1] = Label(label) }) <= 1

\* It starts after A, where there is one.
OriginOf(text) ==
  IF \E k \in DOMAIN text : text[k][1] = Label("A") THEN Bin(A, "+", Num(1)) ELSE Num(1)

SourceOf(p) ==
  LET text == Text(p)
  IN  [text    |-> text,
       origin  |-> Written(OriginOf(text), 1),
       meaning |-> { Meant(p, OriginOf(text)) }]

\* The sources of the well-formed programs among these, each with its meaning.
SourcesOf(programs) ==
  { s \in { SourceOf(p) : p \in programs } :
      LabelsOnce(s.text) /\ \A m \in s.meaning : m.whole /\ HasValue(m.origin) }

\* Up to three items, or two after the EQUs of both names.
SmallPrograms ==
  LET some == UNION { [1 .. n -> Items] : n \in 1 .. 3 }
      more == UNION { [1 .. n -> Items] : n \in 1 .. 2 }
  IN  some \cup { << equ, EquD >> \o p : equ \in {EquE, EquF}, p \in more }

Bare(text) == [text |-> text, origin |-> << >>, meaning |-> {}]

DatOf(words) == << Mnemonic("Dat") >> \o words
ForOf(words) == << Keyword("For") >> \o words
RofLine      == << Keyword("Rof") >>
EquOf(name, words) == << Label(name), Keyword("Equ") >> \o words
La           == << Label("A") >>

\* What no structure gives: loops that are not closed or not opened, counts that
\* are negative or not known, labels where an instruction should be, words that
\* are no line of Redcode, EQUs that name themselves or each other.
Odd ==
  { Bare(text) : text \in
      { << RofLine >>,
        << ForOf(Digits(2)), La \o DatOf(La), DatOf(La) >>,
        << ForOf(Digits(2)), DatOf(Digits(1)), La \o RofLine >>,
        << ForOf(Digits(-1)), RofLine >>,
        << ForOf(Written(Bin(Num(0), "-", Num(1)), 1)), RofLine >>,
        << ForOf(Written(Un("!", Num(0)), 1)), RofLine >>,
        << ForOf(Written(Bin(Two, "/", Num(0)), 1)), RofLine >>,
        << La \o DatOf(Digits(1)), ForOf(Written(Bin(A, "+", Num(2)), 1)), RofLine >>,
        << ForOf(La), RofLine >>,
        << << Keyword("For") >>, DatOf(<< Keyword("For") >>), RofLine >>,
        << ForOf(Digits(2)), ForOf(<< Label("CORESIZE") >>), RofLine, RofLine >>,
        << << Keyword("Equ"), Number(1) >>, La \o << Label("B") >>, << Label("B"), Number(1) >> >>,
        << La \o DatOf(La), << Label("B") >> \o La, La \o ForOf(<< Label("E") >>) >>,
        << La \o << Mnemonic("Org") >> \o La, DatOf(La) >>,
        << DatOf(Digits(1)), << Number(1) >> >>,
        << EquOf("E", << Number(2) >>), << Label("E") >> >>,
        << EquOf("E", << Label("E") >>), DatOf(<< Label("E") >>) >>,
        << EquOf("E", << Label("D") >>), EquOf("D", << Label("E") >>), DatOf(<< Label("E") >>) >> } }

\* A loop with an index in another loop, and a label from before both.
NestedLoops ==
  SourcesOf({ << One("A", Num(1)),
                 Loop("O", Two, << Loop("N", Two, << Dat("", A, N) >>) >>) >> })

MCSources == SourcesOf(SmallPrograms) \cup Odd

\* The text that comes out is the instructions that the structure of the program
\* stands for: loops unrolled with their indexes, EQUs replaced, every label the
\* distance to its instruction, whether it was known before or after its use.
ExpandsToMeaning ==
  phase # "collecting" =>
    \A m \in source.meaning :
       phase = "expanded" /\ lines = m.lines /\ origin = Written(m.origin, 1)

\* "only expand labels if we are finished unrolling loops.  This ensures the relative
\* offsets are calculated after the unroll" (expansion.rs:466): the copies of a loop,
\* inner or outer, get their own offsets.
OffsetsAfterUnroll ==
  phase = "expanded" => \A m \in source.meaning : lines = m.lines

\* Short programs with a line without a token.
TokenlessLines ==
  { Bare(<< DatOf(Digits(1)), << Number(1) >> >>),
    Bare(<< DatOf(Digits(1)), La, << Number(1) >>, La >>) }

\* Fairness in its usual form, which takes TLC too long for longer lines.
FairSpec == Init /\ [][Next]_vars /\ WF_vars(Step)

\* "If successful the Result will contain a Warrior, otherwise it will contain an error"
\* (parser/mod.rs:22): parse returns, whatever the lines are.
AlwaysReturns == <>(phase # "collecting")
=============================================================================
