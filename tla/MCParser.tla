----------------------------- MODULE MCParser -------------------------------
(***************************************************************************)
(* Files for module Parser: programs of a few items of MCExpansion with    *)
(* origins and metadata, every kind of instruction and of expression, with *)
(* their meaning; and files with something wrong.                          *)
(***************************************************************************)
EXTENDS Parser, MCExpansion

MCDirectives == {"name", "strategy"}
MCRemarks    == {"", "remark", "x"}

MCParserNames == MCNames \cup Opcode \cup {"End", "x"}

Code(words)     == [words |-> words, comment |-> << >>]
Comment(d, v)   == [words |-> << >>, comment |-> << d, v >>]
Origin(name, t) == Code(<< Mnemonic(name) >> \o Written(t, 1))

\* The ICWS'94 defaults, as the standard's table has them (docs: A.2.1.2).
StandardModifier(op, a_immediate, b_immediate) ==
  LET either == IF a_immediate THEN "AB" ELSE "B"
  IN  CASE op \in {"Dat"} -> "F"
        [] op \in {"Jmp", "Jmz", "Jmn", "Djn", "Spl", "Nop"} -> "B"
        [] op = "Slt" -> either
        [] a_immediate \/ b_immediate -> either
        [] op \in {"Mov", "Cmp", "Seq", "Sne"} -> "I"
        [] OTHER -> "F"

MeantField(f) ==
  [address_mode |-> IF f.mode = "" THEN "Direct" ELSE ModeOf[f.mode],
   value        |-> ValueOf(f.expression)]

\* The instruction that the items' code stands for, whose missing field is #0 for the
\* A field of DAT, and $0 otherwise.
MeantInstruction(c) ==
  LET one  == Len(c.fields) = 1
      here == MeantField(c.fields[1])
      a    == IF one /\ c.opcode = "Dat" THEN [address_mode |-> "Immediate", value |-> 0] ELSE here
      b    == IF ~ one THEN MeantField(c.fields[2]) ELSE IF c.opcode = "Dat" THEN here
              ELSE [address_mode |-> "Direct", value |-> 0]
      standard == StandardModifier(c.opcode, a.address_mode = "Immediate",
                                   b.address_mode = "Immediate")
  IN  [opcode |-> c.opcode, modifier |-> IF c.modifier = "" THEN standard ELSE c.modifier,
       a_field |-> a, b_field |-> b]

\* What parse should return for a program, its origin (none is << >>) and metadata.
Expected(items, org, notes) ==
  LET m == Meant(items, IF org = << >> THEN Num(0) ELSE org[1])
      n == ValueOf(m.origin)
      Incomplete(c) == Len(c.fields) = 1 /\ c.opcode \notin {"Dat", "Jmp", "Spl", "Nop"}
  IN  IF \E k \in DOMAIN m.code : Incomplete(m.code[k])
        THEN [refused |-> "InvalidArguments", warrior |-> {}]
      ELSE IF n < 0 THEN [refused |-> "InvalidOrigin", warrior |-> {}]
      ELSE [refused |-> "",
            warrior |-> { [metadata     |-> notes,
                           instructions |-> [k \in DOMAIN m.code |-> MeantInstruction(m.code[k])],
                           origin       |-> IF org = << >> THEN NoOrigin ELSE n] }]

\* Metadata before, between and after; lines behind END.
Notes     == << Comment("name", "x"), Comment("remark", "x"), Comment("name", "") >>
LateNotes == << Comment("strategy", "x") >>
Noise     == << Comment("name", "remark"), Code(<< Mnemonic("Org"), Number(9) >>), Code(<< Label("x") >>) >>

\* A program without an origin, with ORG (perhaps again), with END, with both.
FileOf(items, style, t) ==
  LET text == LET ls == Text(items) IN [k \in DOMAIN ls |-> Code(ls[k])]
      org  == IF style = "none" THEN << >> ELSE << t >>
  IN  [text |->
         CASE style = "none" -> Notes \o text \o LateNotes
           [] style = "org"  -> << Origin("Org", t) >> \o Notes \o text \o LateNotes
           [] style = "twice" -> Notes \o text \o LateNotes
                                   \o << Origin("Org", t), Origin("Org", Num(3)) >>
           [] style = "end"  -> Notes \o text \o LateNotes \o << Origin("End", t) >> \o Noise
           [] style = "both" -> Notes \o << Origin("Org", t) >> \o text \o LateNotes
                                  \o << Origin("End", Num(3)) >> \o Noise,
       meaning |->
         { Expected(items, org, [d \in Directives |-> IF d = "name" THEN "" ELSE "x"]) }]

Styles == {"none", "org", "twice", "end", "both"}

-----------------------------------------------------------------------------
\* Programs of EQUs, labels and loops, that start at a label or near it.
SomeItems ==
  { One("A", Num(1)), Dat("", A, Bin(Curline, "*", Two)), Mark("A"),
    Loop("N", Bin(E, "/", Two), << Dat("", A, Un("-", N)) >>),
    Labelled("A", Plain("Mov", "", << Operand("@", Bin(E, "-", A)) >>)),
    Use("B", "D") }

Chained ==
  LET programs == { << equ, EquD >> \o p : equ \in {EquE, EquF},
                                           p \in UNION { [1 .. n -> SomeItems] : n \in 1 .. 2 } }
      fine(p)  == /\ LabelsOnce(Text(p))
                  /\ LET m == Meant(p, A) IN m.whole /\ HasValue(m.origin)
      starts   == { A, Bin(A, "+", Bin(Num(7), "/", Two)), Bin(A, "-", Num(3)) }
  IN  { FileOf(p, style, t) : p \in { q \in programs : fine(q) }, style \in Styles, t \in starts }

\* Files of instructions only.
Straight(codes) == FileOf([k \in DOMAIN codes |-> Labelled("", codes[k])], "none", Num(0))

\* Every opcode with two fields, of modes that decide the modifier.  LDP and STP have
\* no default but for an immediate field.
Bodies ==
  LET Fields(a, b)     == << Operand(a, Num(3)), Operand(b, Num(4)) >>
      Needed(op, a, b) == IF op \in PSpace /\ "#" \notin {a, b} THEN "X" ELSE ""
  IN  { Straight(<< Plain(op, Needed(op, a, b), Fields(a, b)), Plain(op, "BA", Fields(a, b)) >>) :
          op \in Opcode, a \in {"", "#", "@"}, b \in {"", "#", "<"} }

\* Every mode in both fields, every modifier, one field.
Shapes ==
  { Straight(<< Plain("Add", m, << Operand(s, Num(1)), Operand(s, Num(2)) >>) >>) :
      s \in Modes, m \in Modifier \cup {""} }
  \cup { Straight(<< Plain(op, m, << Operand(s, Num(1)) >>) >>) :
           op \in Opcode, s \in {"", "#"}, m \in {"", "A"} }

\* Two operators on either side of each other, and signs.
Expressions ==
  LET Seven == Num(7)
      pairs == { << Bin(Bin(Seven, f, Num(3)), g, Two), Bin(Num(-7), f, Bin(Num(3), g, Two)) >> :
                   f \in BinaryOp, g \in BinaryOp }
      signs == { << Un(s, Un(t, Seven)), Bin(Un(s, Seven), "*", Un(t, Bin(Two, "-", Num(5)))) >> :
                   s \in UnaryOp, t \in UnaryOp }
      edges == { << Bin(Un("-", Num(MaxInt)), "-", Num(1)), Num(MaxInt) >>,
                 << Bin(Num(-7), "/", Two), Bin(Num(-7), "%", Two) >>,
                 << Bin(Seven, "/", Num(-2)), Bin(Seven, "%", Num(-2)) >> }
      both  == { p \in pairs \cup signs \cup edges : HasValue(p[1]) /\ HasValue(p[2]) }
  IN  { Straight(<< Plain("Mov", "", << Operand("", p[1]), Operand("#", p[2]) >>) >>) : p \in both }

\* Files without a meaning: words that are no instruction, names that are not defined,
\* divisions by zero, origins that are no expression or begin with a parenthesis.
Wrong ==
  LET x    == << Label("x") >>
      dat  == << Mnemonic("Dat"), Number(1) >>
      org(words) == << Mnemonic("Org") >> \o words
      sum  == Written(Bin(Num(1), "+", Two), 1)
  IN  { [text |-> [k \in DOMAIN ls |-> Code(ls[k])], meaning |-> {}] : ls \in
          { << dat, << Mnemonic("Dat") >> \o x >>,
            << dat, << Mnemonic("Mov"), Number(1), Punctuation("Comma") >> \o x >>,
            << << Mnemonic("Dat") >> \o Written(Bin(Num(1), "/", Num(0)), 1) >>,
            << << Mnemonic("Dat"), Number(MaxInt + 1) >> >>,
            << << Mnemonic("Ldp"), Number(1), Punctuation("Comma"), Number(2) >> >>,
            << << Label("x"), Number(1) >>, dat >>,
            << x \o x, dat >>,
            << x \o org(<< Number(1) >>), dat >>,
            << << Mnemonic("End") >>, dat >>,
            << << Mnemonic("Org") >>, dat >>,
            << org(<< Sign("#"), Number(5) >>), dat >>,
            << org(x), dat >>,
            << org(Written(Bin(Num(1), "/", Num(0)), 1)), dat >>,
            << org(Enclosed(sum) \o << Sign("*"), Number(3) >>), dat >>,
            << << Keyword("For") >> \o x, dat, << Keyword("Rof") >> >> } }

MCFiles == Chained \cup Bodies \cup Shapes \cup Expressions \cup Wrong

-----------------------------------------------------------------------------
\* Parsing ends as the structure of the file says: with its metadata, the instructions
\* it stands for, every expression evaluated and every modifier and field that was left
\* out filled in, and its origin; or with the error of what is missing in it.
ParsesToMeaning ==
  /\ phase = "parsed" => \A m \in source.meaning : m.warrior = { parsed[1] }
  /\ phase = "refused" => \A m \in source.meaning : m.refused = error
  /\ phase = "panicked" => source.meaning = {}
=============================================================================
